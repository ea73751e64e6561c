CONSTANTS
  Subjects <- MCSubjects
  StepCost = 1
  Multiple = 2
  Floor = 5
  CapFloor = 2
  MaxSteps = 6
SPECIFICATION Spec
INVARIANT GuardedMeansAllTrapped
CHECK_DEADLOCK FALSE
