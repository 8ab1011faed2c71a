SPECIFICATION MatchSpec
CONSTANTS
  Delay = Delay
  Perm = Perm
  Nowhere = Nowhere
  Fields <- SomeFields
  PlanSize = 3
INVARIANTS
  TransferInjective
  ContentFirst
  NoBlockingPair
  UnchangedKeepsState
CHECK_DEADLOCK FALSE
