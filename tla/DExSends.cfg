CONSTANTS
  NumAddr = 2
  Property = {1, 2}
  TallyType <- MCTallyType
  MaxInt = 20
  InitBalance <- OneOfEach
  Exodus = 2
  AllReward = 2
  DexMathBlock = 2
  MaxBlock = 3
  MaxTxid = 4
  SendAmounts = {1}
  Sellers = {1}
  Buyers = {1, 2}
  OfferAmounts = {0, 1}
  Desired = {0, 1}
  MinFees = {1}
  Windows = {2}
  AcceptAmounts = {1}
  FeesPaid = {0, 1}
  Payments = {1}
SPECIFICATION Spec
CHECK_DEADLOCK FALSE
INVARIANTS TypeOK SupplyConserved
PROPERTIES ImplementsLedger
