CONSTANTS
  NumAddr = 3
  Property = {1, 2}
  TallyType <- MCTallyType
  MaxInt = 20
  InitBalance <- ThreeOmni
  Exodus = 3
  AllReward = 0
  DexMathBlock = 2
  MaxBlock = 3
  MaxTxid = 4
  SendAmounts = {}
  Sellers = {1}
  Buyers = {2, 3}
  OfferAmounts = {0, 2, 3}
  Desired = {3}
  MinFees = {1}
  Windows = {1, 2}
  AcceptAmounts = {1, 2}
  FeesPaid = {1}
  Payments = {1, 2}
SPECIFICATION Spec
CHECK_DEADLOCK FALSE
INVARIANT SoldOutOfferDeleted

