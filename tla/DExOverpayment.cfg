CONSTANTS
  NumAddr = 2
  Property = {1, 2}
  TallyType <- MCTallyType
  MaxInt = 4
  InitBalance <- ThreeOmni
  Exodus = 2
  AllReward = 0
  DexMathBlock = 2
  MaxBlock = 3
  MaxTxid = 3
  SendAmounts = {}
  Sellers = {1}
  Buyers = {2}
  OfferAmounts = {3, 4}
  Desired <- WideDesired
  MinFees = {1}
  Windows = {1}
  AcceptAmounts = {1, 3}
  FeesPaid = {1}
  Payments = {1, 4}
SPECIFICATION Spec
CHECK_DEADLOCK FALSE
PROPERTY OverpaymentClamped

