SPECIFICATION CodeSpec
CONSTANTS
  small = small
  other = other
  middle = middle
  large = large
  None = None
  Capacity = 96
  Programs <- MCPrograms
  Words <- MCWords
  Instances = {i1}
  Handles = {h1, h2}
INVARIANTS
  RegionsDisjoint
  ExecutesItsCode
  ArenaTiled
  FreeCoalesced
CHECK_DEADLOCK FALSE
