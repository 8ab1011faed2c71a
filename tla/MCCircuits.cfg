SPECIFICATION Spec
CONSTANTS
  IntBits = 5
  Huge = 1000
  Frames = 4
  Families <- MCFamilies
  Stimuli <- MCStimuli
INVARIANTS PropagationMeans PassesKeepMeaning WellPromoted WidgetsListed
CHECK_DEADLOCK FALSE
