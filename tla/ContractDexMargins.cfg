\* Two traders, margin calls, a second contract on the same terms.
CONSTANTS
  NumAddr = 2
  Property = {1, 3, 4}
  TallyType <- MCTallyType
  MaxInt = 10000
  InitBalance <- MCBalance
  Terms <- MCOneTerms
  FirstTerms <- MCTerms
  FirstContract = 3
  MaxContracts = 2
  Trades <- MCTrades
  RoundedDown <- MCRoundedDown
  MaxTrades = 4
  MaxDepth = 5
SPECIFICATION Spec
INVARIANTS AssertsHold PositionsBalanced MarginBacked
CHECK_DEADLOCK FALSE
