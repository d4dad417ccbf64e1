\* Three owners, three blocks: fees, distributions, changes of the supply.
CONSTANTS
  NumAddr = 3
  Property = {1, 3}
  TallyType <- MCTallyType
  MaxInt = 9
  TestProperty = {}
  FeeThreshold = 3
  InitBalance <- MCBalances
  InitReserve <- MCReserves
  FeePerOwner = 1
  FeePerOwnerV1 = 1
  DebugFees = TRUE
  MaxHistory = 1
  MaxBlock = 3
  Sends <- MCSends
  Fills <- MCFills
  Issues <- MCIssues
SPECIFICATION Spec
INVARIANTS AssertsHold TokensAccounted NoFeeWaits CacheRollsBack
CHECK_DEADLOCK FALSE
