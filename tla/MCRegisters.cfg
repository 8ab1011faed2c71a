SPECIFICATION RegSpec
CONSTANTS
  None = None
  p1 = p1
  p2 = p2
  p3 = p3
  Scratch = d0
  Programs <- AllPrograms
  Physical <- MCPhysical
  Preserved <- MCPreserved
  MaxTicks = 4
  MaxRounds = 2
INVARIANTS
  PreparedMeansSame
  RegistersApart
  OperandsCorrect
  StateKept
CHECK_DEADLOCK FALSE
