\* Two traders: one pair in both directions, one with OMNI, one of the test
\* ecosystem; fees distributed to two owners of OMNI.
CONSTANTS
  NumAddr = 2
  Property = {1, 2, 3, 4, 5}
  TallyType <- MCTallyType
  MaxInt = 8
  TestProperty = {2, 5}
  FeeThreshold = 4
  InitBalance <- MCPair
  FeesActive = TRUE
  FeeDivider = 2
  MaxOrders = 3
  Trades <- MCMixed
  Amounts = {1, 2, 3}
SPECIFICATION Spec
INVARIANTS AssertsHold ReserveBacked LimitKept SupplyConserved ClosedMarketsEmpty
PROPERTIES LoopsEnd
CHECK_DEADLOCK FALSE
