CONSTANTS
  Half = 1024
  MaxGrid = 4
  MaxTauSteps = 6
  MaxCellSteps = 36
  MaxFracBits = 4
  Params <- MCParams
SPECIFICATION Spec
INVARIANT TypeOK NothingWraps
PROPERTY FieldIsExact
CHECK_DEADLOCK FALSE
