SPECIFICATION SessionSpec
CONSTANTS
  Paths <- MCPaths
  Specs <- MCSpecs
  Roots = {}
  Texts <- ImportedTexts
  NoText = NoText
  NoPath = NoPath
  NoTerm = NoTerm
  NilEnv = NilEnv
  Uncomputed = Uncomputed
  Embedded <- MCNoLibraries
  AllowDiskReads = TRUE
  Beside <- MCBeside
  Under <- MCUnder
  Normal <- MCSame
  Canonical <- MCSame
  Names <- MCNames
  InitialDisk <- ImportedDisk
  BufferEdits <- ImportedEdits
  DiskEdits = {}
  RootPaths = {"/main", "/lib", "/aux"}
  MaxRevision = 5
  MaxPaths = 0
  MaxEvalDepth = 3
INVARIANTS
  ProcessIsFresh
CHECK_DEADLOCK FALSE
