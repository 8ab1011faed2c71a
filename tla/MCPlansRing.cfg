SPECIFICATION Spec
CONSTANTS
  None = None
  IntBits = 4
  Huge = 1000
  MaxCopyDelay = 3
  Programs <- GuardedRing
  Samples = {0, 1}
  Positions <- SliderPositions
  BlockSizes = {0, 1, 3}
  MaxFrames = 4
  MaxCalls = 5
PROPERTY GuardsPreserve
CHECK_DEADLOCK FALSE
