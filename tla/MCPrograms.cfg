SPECIFICATION Spec
CONSTANTS
  IntBits = 8
  Huge = 1000
  Frames = 3
  MaxEvalDepth = 14
  AnySelection = FALSE
  Sources <- MCSources
  Texts <- MCTexts
  Stimuli <- MCStimuli
INVARIANTS MaterializingKeepsMeaning RephrasingKeepsMeaning TablesTransparent FoldedAsHeard
CHECK_DEADLOCK FALSE
