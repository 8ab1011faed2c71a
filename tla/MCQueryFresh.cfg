SPECIFICATION Spec
CONSTANTS
  Paths <- OverlayPaths
  Specs <- OverlaySpecs
  Roots <- OverlayRoots
  Texts <- OverlayTexts
  NoText = NoText
  NoPath = NoPath
  NoTerm = NoTerm
  NilEnv = NilEnv
  Uncomputed = Uncomputed
  Embedded <- OverlayLibraries
  AllowDiskReads = TRUE
  Beside <- OverlayBeside
  Under <- OverlayUnder
  Normal <- MCSame
  Canonical <- MCSame
  Names <- MCNames
  InitialDisk <- OverlayDisk
  BufferEdits <- OverlayEdits
  DiskEdits <- OverlayWrites
  RootPaths = {"/w/main"}
  MaxRevision = 4
  MaxPaths = 2
INVARIANTS
  FreshEnv
  VerifiedIsFresh
  OverlayCoherent
  StackDiscipline
PROPERTIES
  Answers
CHECK_DEADLOCK FALSE
