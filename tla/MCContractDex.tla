---------------------------- MODULE MCContractDex ----------------------------
\* Instances of ContractDex for TLC.
EXTENDS ContractDex

MCTallyType ==
  HeldTypes \cup {"CONTRACTDEX_RESERVE", "POSSITIVE_BALANCE", "NEGATIVE_BALANCE", "LIQUIDATION_PRICE"}

\* Enough collateral for every trade of a run.
MCBalance == [a \in Addr |-> [p \in Property |-> IF p <= 2 THEN 8 ELSE 0]]

MCTerms == [collateral |-> 1, margin |-> 1, notional |-> 1]

MCOneTerms == {MCTerms}

MCTwoTerms == {MCTerms, [collateral |-> 2, margin |-> 1, notional |-> 1]}

\* The prices below 400 whose product with the double 1.15 is below the integer.
MCRoundedDown == {100, 180, 200, 220, 340, 360, 380}

\* Both traders buy and sell at two prices; one of them also larger amounts.
\* Nothing keeps a trade from an amount of 0 or a price of 0; at a price of 1 the
\* liquidation price of a buyer is 0.
MCTrades ==
  [addr : Addr, contract : {3}, action : {"BUY", "SELL"}, price : {10, 100}, amount : {1}]
    \cup {[addr |-> 1, contract |-> 3, action |-> "BUY", price |-> 100, amount |-> 2],
          [addr |-> 1, contract |-> 3, action |-> "SELL", price |-> 10, amount |-> 2],
          [addr |-> 2, contract |-> 3, action |-> "SELL", price |-> 10, amount |-> 0],
          [addr |-> 2, contract |-> 3, action |-> "BUY", price |-> 0, amount |-> 1],
          [addr |-> 2, contract |-> 3, action |-> "BUY", price |-> 1, amount |-> 1],
          [addr |-> 1, contract |-> 3, action |-> "SELL", price |-> 1, amount |-> 1]}
==============================================================================
