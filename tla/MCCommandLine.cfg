CONSTANTS
  d1 = d1 d2 = d2
  Receipts <- MCReceipts
  Programs = {d1, d2}
  Calls <- MCCalls
  None = None
  Commands <- MCCommands
  Packages <- MCPackages
  Missing = Missing
  Comment = Comment
SPECIFICATION MCSpec
INVARIANT VerifiedIsAllRungs PinIsAnswered ExitCodeIsTheVerdict
CHECK_DEADLOCK FALSE
