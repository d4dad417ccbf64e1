\* Four calls and any number of blocks.
CONSTANTS
  NumAddr = 2
  Property = {3}
  TallyType <- MCTallyType
  MaxInt = 4
  NumTx = 4
  Call <- MCSends
SPECIFICATION Spec
INVARIANTS CreditedBack
PROPERTIES GoneIsDeleted
CHECK_DEADLOCK FALSE
