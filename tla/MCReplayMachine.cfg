CONSTANTS
  WordBits <- MCWordBits
  Half <- MCHalf
  MaxMem <- MCMaxMem
  MaxSteps <- MCMaxSteps
  MaxCode <- MCMaxCode
  BitAnd <- MCBitAnd
  BitOr <- MCBitOr
  BitXor <- MCBitXor
  NotInt = NotInt
  NoCap = NoCap
  Calls <- MCCalls
SPECIFICATION PairSpec
INVARIANT TypeOK StaticChecksSuffice WorkWithinBudget SameComputation CapOnlyTruncates
PROPERTY ArithmeticIsExactThenWrapped Terminates
CHECK_DEADLOCK FALSE
