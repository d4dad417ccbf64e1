----------------------------- MODULE ContractDex -----------------------------
(***************************************************************************)
(* The exchange of contracts (mdex.cpp, the handlers in tx.cpp, and the    *)
(* margin logic in omnicore.cpp).  A trade reserves collateral, x_Trade    *)
(* matches it with the orders of the opposite side, and every match        *)
(* changes two positions, frees margin, records the match and then checks  *)
(* all traders' liquidation prices.  A margin call trades from within that *)
(* check: it runs x_Trade again, on the set of orders the interrupted      *)
(* x_Trade is iterating.  stack holds the calls of x_Trade, the innermost  *)
(* last.                                                                   *)
(*                                                                         *)
(* The process ends at a failed assert: of an update by zero ("zero"), of  *)
(* another update of a trade or a match ("assert"), of a cancellation      *)
(* ("cancel") or of marginLogic ("margin").  It also ends where C++ leaves *)
(* its behaviour undefined: an erased order is used ("dangling"), or       *)
(* marginLogic runs past the end of its vector ("past the end").           *)
(***************************************************************************)
EXTENDS Tally, SequencesExt

CONSTANTS InitBalance,    \* balance of each address in each property
          Terms,          \* terms of contracts: [collateral, margin, notional]
          FirstTerms,     \* the terms of the first contract
          FirstContract,  \* its property identifier
          MaxContracts,   \* bound: contracts created
          Trades,         \* orders: [addr, contract, action, price, amount]
          RoundedDown,    \* prices p for which the double p * 1.15 is below the product
          MaxTrades,      \* bound: trades
          MaxDepth        \* bound: calls of x_Trade within each other

ASSUME ContractDexAssumption ==
  /\ FirstTerms \in Terms
  /\ \A t \in Terms : t.collateral \in Property /\ t.margin \in Nat \ {0} /\ t.notional \in Nat \ {0}
  /\ FirstContract .. (FirstContract + MaxContracts - 1) \subseteq Property
  /\ {"CONTRACTDEX_RESERVE", "POSSITIVE_BALANCE", "NEGATIVE_BALANCE", "LIQUIDATION_PRICE"} \subseteq TallyType

VARIABLES tally,        \* mp_tally_map
          terms,        \* collateralCurrency, marginRequirementContract, notionalSize
          contracts,    \* number of contracts created
          book,         \* contractdex: the open orders
          next,         \* block and position of the next trade
          stack,        \* the calls of x_Trade
          records,      \* t_tradelistdb: the matches, in the order of their keys
          marketPrice,  \* price of the last match
          fate          \* how the process ended, "runs" while it does

vars == <<tally, terms, contracts, book, next, stack, records, marketPrice, fate>>

\* id 0 stands for block 1, position 1 and no hash: an order of a margin call.
Order == [id : 0..MaxTrades, addr : Addr, contract : Property, amount : Int64,
          price : Nat, action : {"BUY", "SELL", "INVALID"}]

NoOrder == [id |-> -1]

Init ==
  /\ tally = [a \in Addr |-> [p \in Property |-> [t \in TallyType |->
                IF t = "BALANCE" THEN InitBalance[a][p] ELSE 0]]]
  /\ terms = FirstTerms
  /\ contracts = 1
  /\ book = {}
  /\ next = 1
  /\ stack = <<>>
  /\ records = <<>>
  /\ marketPrice = 0
  /\ fate = "runs"

Idle == fate = "runs" /\ stack = <<>>

SmallerOf(m, n) == IF m <= n THEN m ELSE n

\* A series of updates of [tally, fate], each <<address, property, tally type,
\* amount>> and in an assert that ends the process when it fails.
Applied(state, updates) ==
  FoldLeft(LAMBDA r, u : CASE r.fate # "runs" -> r
                           [] CanUpdate(r.tally, u[1], u[2], u[3], u[4]) ->
                                [r EXCEPT !.tally = Updated(@, u[1], u[2], u[3], u[4])]
                           [] OTHER -> [r EXCEPT !.fate = IF u[4] = 0 THEN "zero" ELSE "assert"],
           state, updates)

State == [tally |-> tally, fate |-> fate]

\* The updates of a series the code makes only for an amount.
NonZero(updates) == SelectSeq(updates, LAMBDA u : u[4] # 0)

(***************************************************************************)
(* logicMath_CreateContractDex: the terms of the newest contract replace   *)
(* the ones in use, for all contracts.                                     *)
(***************************************************************************)
CreateContractDex(t) ==
  /\ Idle
  /\ contracts < MaxContracts
  /\ terms' = t
  /\ contracts' = contracts + 1
  /\ UNCHANGED <<tally, book, next, stack, records, marketPrice, fate>>

(***************************************************************************)
(* x_Trade visits the orders of the contract by price, block and position. *)
(* A call is [order, at, maker, rest, check, liq]: the order, the key last *)
(* visited, the matched order until it is erased and what replaces it, the *)
(* traders marginLogic has still to check, and the liquidation price of    *)
(* the one being called.                                                   *)
(***************************************************************************)
Call(order) == [order |-> order, at |-> <<0, 0>>, maker |-> NoOrder, rest |-> NoOrder,
                check |-> <<>>, liq |-> 0]

Top == stack[Len(stack)]

Key(o) == <<o.price, o.id>>

Before(k, l) == k[1] < l[1] \/ (k[1] = l[1] /\ k[2] < l[2])

PriceAccepted(o, price) ==
  /\ o.action = "BUY" => o.price >= price
  /\ o.action = "SELL" => o.price <= price

Matching(call) ==
  {o \in book : /\ o.contract = call.order.contract
                /\ o.action # call.order.action
                /\ PriceAccepted(call.order, o.price)
                /\ Before(call.at, Key(o))}

Scanning == fate = "runs" /\ stack # <<>> /\ Top.maker = NoOrder

(***************************************************************************)
(* logicMath_ContractDexTrade, up to the call of x_Trade: the amount is a  *)
(* uint64_t of any value, its product with the margin wraps and becomes an *)
(* int64_t.  ContractDex_ADD refuses a price of 0, after the reserve.      *)
(***************************************************************************)
\* Mutant: a sale needs no reserve.
ContractDexTradeForFree(t) ==
  LET reserve == Signed(t.amount * terms.margin)
      moved == IF t.action = "SELL" THEN State
               ELSE Applied(State, << <<t.addr, terms.collateral, "BALANCE", -reserve>>,
                                      <<t.addr, terms.collateral, "CONTRACTDEX_RESERVE", reserve>> >>)
  IN  /\ Idle
      /\ next <= MaxTrades
      /\ tally[t.addr][terms.collateral]["BALANCE"] >= reserve
      /\ tally' = moved.tally
      /\ fate' = moved.fate
      /\ stack' = IF t.price = 0 THEN <<>>
                  ELSE << Call([id |-> next, addr |-> t.addr, contract |-> t.contract,
                                amount |-> Signed(t.amount), price |-> t.price, action |-> t.action]) >>
      /\ next' = next + 1
      /\ UNCHANGED <<terms, contracts, book, records, marketPrice>>

ContractDexTrade(t) ==
  LET reserve == Signed(t.amount * terms.margin)
      moved == Applied(State, << <<t.addr, terms.collateral, "BALANCE", -reserve>>,
                                 <<t.addr, terms.collateral, "CONTRACTDEX_RESERVE", reserve>> >>)
  IN  /\ Idle
      /\ next <= MaxTrades
      /\ tally[t.addr][terms.collateral]["BALANCE"] >= reserve
      /\ tally' = moved.tally
      /\ fate' = moved.fate
      /\ stack' = IF t.price = 0 THEN <<>>
                  ELSE << Call([id |-> next, addr |-> t.addr, contract |-> t.contract,
                                amount |-> Signed(t.amount), price |-> t.price, action |-> t.action]) >>
      /\ next' = next + 1
      /\ UNCHANGED <<terms, contracts, book, records, marketPrice>>

\* get_LiquidationPrice, with percentLiqPrice = 0.15: a product of doubles,
\* truncated.  The one with 0.85 is never below the exact product.
LiquidationPrice(o) ==
  IF o.action = "BUY" THEN (85 * o.price) \div 100
  ELSE (115 * o.price) \div 100 - (IF o.price \in RoundedDown THEN 1 ELSE 0)

\* Mutant: a buyer who closes a short position is credited all contracts.
PositionsInFull(T, c, s, b, n) ==
  LET closed == IF T[s][c]["POSSITIVE_BALANCE"] > 0 THEN SmallerOf(T[s][c]["POSSITIVE_BALANCE"], n) ELSE 0
      covered == IF T[b][c]["POSSITIVE_BALANCE"] > 0 THEN 0 ELSE SmallerOf(T[b][c]["NEGATIVE_BALANCE"], n)
  IN  NonZero(<< <<s, c, "POSSITIVE_BALANCE", -closed>>, <<s, c, "NEGATIVE_BALANCE", n - closed>>,
                 <<b, c, "POSSITIVE_BALANCE", n>>, <<b, c, "NEGATIVE_BALANCE", -covered>> >>)

\* Seller s and buyer b trade n contracts: the seller first closes a long
\* position, the buyer a short one unless there is a long one.
Positions(T, c, s, b, n) ==
  LET closed == IF T[s][c]["POSSITIVE_BALANCE"] > 0 THEN SmallerOf(T[s][c]["POSSITIVE_BALANCE"], n) ELSE 0
      covered == IF T[b][c]["POSSITIVE_BALANCE"] > 0 THEN 0 ELSE SmallerOf(T[b][c]["NEGATIVE_BALANCE"], n)
  IN  NonZero(<< <<s, c, "POSSITIVE_BALANCE", -closed>>, <<s, c, "NEGATIVE_BALANCE", n - closed>>,
                 <<b, c, "POSSITIVE_BALANCE", n - covered>>, <<b, c, "NEGATIVE_BALANCE", -covered>> >>)

\* The contracts of a on one side that a match closed, T and U being the tally
\* before and after it; none are counted for who also had the other side.
Closed(T, U, c, a, side, other) ==
  IF T[a][c][other] = 0 /\ T[a][c][side] > U[a][c][side] THEN T[a][c][side] - U[a][c][side] ELSE 0

\* What a trader gets for closed contracts: the margin, and as profit the
\* market price, because getTradeBasis finds no record and returns 0 for what
\* was paid.
Gains(a, closed) ==
  << <<a, terms.collateral, "CONTRACTDEX_RESERVE", -Signed(terms.margin * closed)>>,
     <<a, terms.collateral, "BALANCE", Signed(terms.margin * closed)>>,
     <<a, terms.collateral, "CONTRACTDEX_RESERVE", Signed(marketPrice * closed * terms.notional)>> >>

\* Mutant: the margin of a closed long position is freed twice.
FreedTwice(T, U, c, s, b) ==
  NonZero(Gains(s, 2 * Closed(T, U, c, s, "POSSITIVE_BALANCE", "NEGATIVE_BALANCE")))

\* The buyer of a match gets nothing for a short position it closes: the
\* condition for it is negative_buy > 0 && negative_buy == 0.
Freed(T, U, c, s, b) ==
  NonZero(Gains(s, Closed(T, U, c, s, "POSSITIVE_BALANCE", "NEGATIVE_BALANCE")
                     + Closed(T, U, c, s, "NEGATIVE_BALANCE", "POSSITIVE_BALANCE"))
          \o Gains(b, Closed(T, U, c, b, "POSSITIVE_BALANCE", "NEGATIVE_BALANCE")))

\* recordMatchedTrade: a record with the same key is overwritten, the place
\* of a new one depends on the hashes of the two orders.
Recorded(r) ==
  LET same == {i \in 1..Len(records) : records[i].key = r.key}
  IN  IF same # {} THEN {[i \in 1..Len(records) |-> IF i \in same THEN r ELSE records[i]]}
      ELSE {InsertAt(records, i, r) : i \in 1..(Len(records) + 1)}

\* The traders marginLogic finds in the records, in the order of its vector.
Traders(recs) ==
  FoldLeft(LAMBDA seen, a : IF a \in ToSet(seen) THEN seen ELSE Append(seen, a),
           <<>>, FlattenSeq([i \in 1..Len(recs) |-> <<recs[i].maker, recs[i].taker>>]))

SetTop(call) == [stack EXCEPT ![Len(stack)] = call]

IsNext(o) == o \in Matching(Top) /\ \A x \in Matching(Top) \ {o} : Before(Key(o), Key(x))

\* Both sides' liquidation prices are added to the ones they have.
Priced(o) ==
  LET new == Top.order
  IN  Applied(State, << <<new.addr, new.contract, "LIQUIDATION_PRICE", LiquidationPrice(new)>>,
                        <<o.addr, o.contract, "LIQUIDATION_PRICE", LiquidationPrice(o)>> >>)

(***************************************************************************)
(* One order of the loop in x_Trade.  When one of the two orders has       *)
(* nothing left, only the liquidation prices change.                       *)
(***************************************************************************)
VisitEmpty(o) ==
  /\ Scanning
  /\ IsNext(o)
  /\ SmallerOf(o.amount, Top.order.amount) = 0
  /\ tally' = Priced(o).tally
  /\ fate' = Priced(o).fate
  /\ stack' = SetTop([Top EXCEPT !.at = Key(o)])
  /\ UNCHANGED <<terms, contracts, book, next, records, marketPrice>>

\* A match.  The matched order stays in the book, with its old amount, until
\* the check of the margins is done: a margin call can match it again.
Match(o) ==
  LET new    == Top.order
      n      == SmallerOf(o.amount, new.amount)
      seller == IF o.action = "SELL" THEN o.addr ELSE new.addr
      buyer  == IF o.action = "SELL" THEN new.addr ELSE o.addr
      traded == Applied(Priced(o), Positions(tally, o.contract, seller, buyer, n))
      freed  == Applied(traded, Freed(tally, traded.tally, o.contract, seller, buyer))
      r      == [key |-> <<o.id, new.id>>, maker |-> o.addr, taker |-> new.addr, price |-> o.price]
  IN  /\ Scanning
      /\ IsNext(o)
      /\ n # 0
      /\ tally' = freed.tally
      /\ fate' = freed.fate
      /\ records' \in Recorded(r)
      /\ marketPrice' = o.price
      /\ stack' = SetTop([Top EXCEPT !.order.amount = @ - n, !.at = Key(o), !.maker = o,
                                     !.rest = IF o.amount = new.amount THEN NoOrder
                                              ELSE [o EXCEPT !.amount = @ - n],
                                     !.check = Traders(records')])
      /\ UNCHANGED <<terms, contracts, book, next>>

(***************************************************************************)
(* marginLogic: a trader whose liquidation price is at or above the market *)
(* price is called, long or short.                                         *)
(***************************************************************************)
Checking == fate = "runs" /\ stack # <<>> /\ Top.check # <<>>

Liq(a) == tally[a][Top.order.contract]["LIQUIDATION_PRICE"]

NoMarginCall ==
  /\ Checking
  /\ marketPrice > Liq(Head(Top.check))
  /\ stack' = SetTop([Top EXCEPT !.check = Tail(@)])
  /\ UNCHANGED <<tally, terms, contracts, book, next, records, marketPrice, fate>>

\* marginCall: an order for the whole position, without a reserve.  Nothing in
\* the code bounds the depth of the calls but the stack.
MarginCall ==
  LET a     == Head(Top.check)
      c     == Top.order.contract
      short == tally[a][c]["NEGATIVE_BALANCE"]
      long  == tally[a][c]["POSSITIVE_BALANCE"]
      order == [id |-> 0, addr |-> a, contract |-> c, price |-> marketPrice,
                amount |-> IF short > 0 THEN short ELSE long,
                action |-> IF short > 0 THEN "BUY" ELSE IF long > 0 THEN "SELL" ELSE "INVALID"]
  IN  /\ Checking
      /\ marketPrice <= Liq(a)
      /\ Len(stack) < MaxDepth
      /\ stack' = Append(SetTop([Top EXCEPT !.liq = Liq(a)]), Call(order))
      /\ UNCHANGED <<tally, terms, contracts, book, next, records, marketPrice, fate>>

\* After the check the matched order is erased, and put back with the rest
\* of its amount unless the two amounts were equal.  When a margin call has
\* matched it too, it is gone and the iterator to it is invalid.
EraseMaker ==
  /\ fate = "runs" /\ stack # <<>> /\ Top.check = <<>> /\ Top.maker # NoOrder
  /\ book' = (book \ {Top.maker}) \cup ({Top.rest} \ {NoOrder})
  /\ stack' = SetTop([Top EXCEPT !.maker = NoOrder, !.rest = NoOrder])
  /\ fate' = IF Top.maker \in book THEN fate ELSE "dangling"
  /\ UNCHANGED <<tally, terms, contracts, next, records, marketPrice>>

(***************************************************************************)
(* The end of ContractDex_ADD: what is left of the order is inserted,      *)
(* unless an order with the same key is there.                             *)
(***************************************************************************)
Finished == Scanning /\ Matching(Top) = {}

Inserted ==
  LET o == Top.order
  IN  IF o.amount <= 0 \/ \E x \in book : x.contract = o.contract /\ Key(x) = Key(o)
      THEN book ELSE book \cup {o}

TradeDone ==
  /\ Finished
  /\ Len(stack) = 1
  /\ book' = Inserted
  /\ stack' = <<>>
  /\ UNCHANGED <<tally, terms, contracts, next, records, marketPrice, fate>>

\* Back in marginLogic: the liquidation price is taken back, the trader is
\* erased from the vector and the iterator advanced, past the one after.
MarginCallDone ==
  LET call == stack[Len(stack) - 1]
      done == Applied(State, << <<Head(call.check), call.order.contract, "LIQUIDATION_PRICE", -call.liq>> >>)
  IN  /\ Finished
      /\ Len(stack) > 1
      /\ book' = Inserted
      /\ tally' = done.tally
      /\ fate' = CASE done.fate # "runs"   -> "margin"
                   [] Len(call.check) = 1  -> "past the end"
                   [] OTHER                -> fate
      /\ stack' = [SubSeq(stack, 1, Len(stack) - 1) EXCEPT ![Len(stack) - 1] =
                     [@ EXCEPT !.check = SubSeq(@, 3, Len(@))]]
      /\ UNCHANGED <<terms, contracts, next, records, marketPrice>>

(***************************************************************************)
(* logicMath_ContractDexCancelEcosystem: asserts that the amounts of the   *)
(* orders are reserved in METADEX_RESERVE of the contract.                 *)
(***************************************************************************)
OwnOrders(a) == {o \in book : o.addr = a}

Cancelled(a) ==
  LET own == SetToSeq(OwnOrders(a))
  IN  Applied(State, FlattenSeq([i \in 1..Len(own) |->
                       << <<a, own[i].contract, "METADEX_RESERVE", -own[i].amount>>,
                          <<a, own[i].contract, "BALANCE", own[i].amount>> >>]))

ContractDexCancelEcosystem(a) ==
  /\ Idle
  /\ OwnOrders(a) # {}
  /\ tally' = Cancelled(a).tally
  /\ fate' = IF Cancelled(a).fate = "runs" THEN fate ELSE "cancel"
  /\ book' = book \ OwnOrders(a)
  /\ UNCHANGED <<terms, contracts, next, stack, records, marketPrice>>

Next ==
  \/ \E t \in Terms : CreateContractDex(t)
  \/ \E t \in Trades : ContractDexTrade(t)
  \/ \E o \in book : VisitEmpty(o) \/ Match(o)
  \/ NoMarginCall
  \/ MarginCall
  \/ EraseMaker
  \/ TradeDone
  \/ MarginCallDone
  \/ \E a \in Addr : ContractDexCancelEcosystem(a)

Spec == Init /\ [][Next]_vars

-------------------------------------------------------------------------------

\* Records, orders and calls have the values their types allow, and no
\* record of the tally is negative.
TypeOK ==
  /\ tally \in Ledger /\ NonNegative(tally)
  /\ terms \in Terms
  /\ contracts \in 1..MaxContracts
  /\ book \subseteq Order
  /\ \A i \in 1..Len(stack) : stack[i].order \in Order /\ stack[i].check \in Seq(Addr)
  /\ fate \in {"runs", "zero", "assert", "cancel", "margin", "dangling", "past the end"}

\* On one set of terms no update of a trade or a match is refused for want of
\* funds: an address has the balance it reserves, the contracts a match takes
\* from it and the reserve that is freed for them, whatever orders, matches and
\* margin calls came before, nested ones included (the asserts of
\* logicMath_ContractDexTrade, x_Trade and get_LiquidationPrice); no record is
\* negative.  The same asserts do fail for an amount of zero, see NoZeroUpdates.
AssertsHold == TypeOK /\ fate # "assert"

Sum(c, t) == SumUpTo([a \in Addr |-> tally[a][c][t]], NumAddr)

\* Every contract has two sides: after any matches, with partial fills, trades
\* with oneself and margin calls, as many contracts are held long as short
\* (the updates of POSSITIVE_BALANCE and NEGATIVE_BALANCE in x_Trade).
PositionsBalanced ==
  fate = "runs" =>
    \A c \in FirstContract..(FirstContract + contracts - 1) :
      Sum(c, "POSSITIVE_BALANCE") = Sum(c, "NEGATIVE_BALANCE")

\* What an open order of a trade is still good for; the order being matched
\* is in the book with its old amount until it is erased.
OpenAmount(o) ==
  LET calls == {i \in 1..Len(stack) : stack[i].maker = o}
  IN  IF o.id = 0 THEN 0
      ELSE IF calls = {} THEN o.amount
      ELSE LET i == CHOOSE i \in calls : TRUE
           IN  IF stack[i].rest = NoOrder THEN 0 ELSE stack[i].rest.amount

\* A margin call has matched an order that a call further out is about to erase.
FilledTwice ==
  \E i, j \in 1..Len(stack) :
    /\ i < j
    /\ stack[i].maker # NoOrder
    /\ stack[i].maker = stack[j].maker \/ stack[i].maker \notin book

OpenOrders(a) ==
  {o \in book : o.addr = a} \cup {o \in {stack[i].order : i \in 1..Len(stack)} : o.addr = a}

\* The reserve of an address covers the margin of its long contracts and of
\* its open orders, although closing a position frees margin and a margin call
\* trades without reserving any (ContractDexTrade, x_Trade, marginCall).  It is
\* claimed of trades whose product with the margin does not wrap, and until a
\* margin call fills an order a second time: those contracts have no reserve,
\* and the erase that follows is undefined.
MarginBacked ==
  fate = "runs" /\ ~ FilledTwice =>
    \A a \in Addr :
      tally[a][terms.collateral]["CONTRACTDEX_RESERVE"] >=
        terms.margin * (MapThenSumSet(OpenAmount, OpenOrders(a))
                          + tally[a][FirstContract]["POSSITIVE_BALANCE"])

\* A cancellation moves the amounts of the orders "from reserve to balance"
\* (mdex.cpp:1360, before the asserts of ContractDex_CANCEL_EVERYTHING).
CancelReturns == fate # "cancel"

\* "amount to credit or debit is zero" is an error (omnicore.cpp:520): no trade
\* or match asserts an update by zero.
NoZeroUpdates == fate # "zero"

\* A match comes to its end: x_Trade returns TRADED for an order that meets
\* one of the same amount and price (test/contractdex_custom.cpp:463).
MatchReturns == fate \notin {"dangling", "past the end"}

\* The liquidation price read before a margin call is still there to be taken
\* back after it (the assert at omnicore.cpp:3993).
MarginAssertHolds == fate # "margin"

\* "remainder of the order will be put into the order book" (mdex.cpp:1026):
\* an order with no remainder is not in it.
BookHoldsRemainders == \A o \in book : o.amount > 0

\* When all contracts change hands at one price nobody wins or loses: the
\* collateral is what there was in the beginning (getTradeBasis).
NoProfitAtCost ==
  (\A i, j \in 1..Len(records) : records[i].price = records[j].price) =>
    SumUpTo([a \in Addr |-> tally[a][terms.collateral]["BALANCE"]
                              + tally[a][terms.collateral]["CONTRACTDEX_RESERVE"]], NumAddr)
      = SumUpTo([a \in Addr |-> InitBalance[a][terms.collateral]], NumAddr)
==============================================================================
