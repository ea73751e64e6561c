CONSTANTS
  Texts <- MCTexts
  MaxBytes = 30
  MaxDepth = 3
  MaxMembers = 2
  MaxArray = 2
  MaxString = 5
  MaxDigits = 3
  ObjectModelKeys <- MCObjectModelKeys
  ParserDepth = 4
  ParserDigits = 4
SPECIFICATION Spec
INVARIANT LoadsExactlyTheFormat
CHECK_DEADLOCK FALSE
