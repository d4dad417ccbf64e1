CONSTANTS
  NumAddr = 2
  Property = {3, 4}
  TestProperty = {}
  TallyType <- MCTallyType
  MaxInt = 2
  NoticeBlock = 2
  WaitPeriod = 1
  MaxBlock = 3
  Amounts = {1, 2}
SPECIFICATION Spec
CHECK_DEADLOCK FALSE
INVARIANTS BalanceAssertsHold SupplyFits FrozenOnlyWhileLive
PROPERTIES FrozenIssuerIsStuck
