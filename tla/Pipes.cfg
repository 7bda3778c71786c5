SPECIFICATION MainSpec
CONSTANTS
  Letters = {"x", "y"}
  LineSize = 12
  MaxLength = 7
  Inputs <- AllInputs
  ThreeStages <- Three
  FourStages <- Four
INVARIANTS LineInv FindsCommands StagesInv ItemsKept
PROPERTIES AllStagesEnd
CHECK_DEADLOCK FALSE
