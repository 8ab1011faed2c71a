SPECIFICATION Spec
CONSTANTS
  Paths <- MCPaths
  Specs <- MCSpecs
  Roots = {}
  Texts <- ReversingTexts
  NoText = NoText
  NoPath = NoPath
  NoTerm = NoTerm
  NilEnv = NilEnv
  Uncomputed = Uncomputed
  Embedded <- MCNoLibraries
  AllowDiskReads = TRUE
  Beside <- MCBeside
  Under <- MCUnder
  Normal <- MCSame
  Canonical <- MCSame
  Names <- MCNames
  InitialDisk <- ReversingDisk
  BufferEdits <- ReversingEdits
  DiskEdits = {}
  RootPaths = {"/main", "/aux"}
  MaxRevision = 5
  MaxPaths = 0
INVARIANTS
  VerifiedIsFresh
CHECK_DEADLOCK FALSE
