CONSTANTS
  WordBits <- MCWordBits
  Half <- MCHalf
  MaxMem <- MCMaxMem
  MaxSteps <- MCMaxSteps
  MaxCode <- MCMaxCode
  Ticks <- MCTicks
  Turns <- MCTurns
  BitAnd <- MCBitAnd
  BitOr <- MCBitOr
  BitXor <- MCBitXor
  NotInt = NotInt
  NoCap = NoCap
  Calls = {}
  MaxExprDepth = 3
  MaxBlockDepth = 3
  Sources <- LeakedCheck
SPECIFICATION CompilerSpec
INVARIANT SameAnswer
CHECK_DEADLOCK FALSE
