\* Two sales, one for the tokens of the other, and a small supply.
CONSTANTS
  NumAddr = 2
  Property = {1, 3, 4}
  TallyType <- MCTallyType
  MaxInt = 8
  InitBalance <- MCOmni
  Coin = 2
  Precision = 1000
  MaxTime = 2
  Sales <- MCSales
  Sends <- MCSends
SPECIFICATION Spec
INVARIANTS AssertsHold RunningIsOpen BonusExact
CHECK_DEADLOCK FALSE
