------------------------------- MODULE MetaDEx -------------------------------
(***************************************************************************)
(* The distributed token exchange of Omni Core (mdex.cpp and its handlers  *)
(* in tx.cpp).  A trade transaction is matched against the order book, in  *)
(* the order of price and then of time, and what is left of it becomes an  *)
(* order.  Tokens of open orders sit in the METADEX_RESERVE.               *)
(*                                                                         *)
(* The matching loop of x_Trade is modelled one iteration at a time: taker *)
(* is the order being matched, todo the orders of the book it has still to *)
(* visit.  The lock cs_tally is held meanwhile, so nothing else happens    *)
(* before the loop is done.  The same holds for the scan of a shutdown.    *)
(* Rejected transactions are stuttering steps.                             *)
(***************************************************************************)
EXTENDS FeeCache

CONSTANTS
  InitBalance,    \* balances at the start
  FeesActive,     \* IsFeatureActivated(FEATURE_FEES)
  FeeDivider,     \* feeDivider: the fee is a trade's amount divided by it
  MaxOrders,      \* bound: trade transactions
  Trades,         \* sender, property for sale and desired property of transactions
  Amounts         \* amounts of transactions

\* getTotalTokens: trades do not change it.
Supply(p) == SumUpTo([a \in Addr |-> InitBalance[a][p]], NumAddr)

ASSUME MetaDExAssumption ==
  /\ InitBalance \in [Addr -> [Property -> Amount]]
  /\ \A p \in Property : Supply(p) <= MaxInt
  /\ FeesActive \in BOOLEAN /\ FeeDivider \in Nat \ {0, 1}
  /\ MaxOrders \in Nat /\ Amounts \subseteq Amount
  /\ Trades \subseteq Addr \X Property \X Property

VARIABLES
  tally,      \* mp_tally_map
  book,       \* metadex: orders, numbered by block and index
  taker,      \* pnew, the order being matched
  todo,       \* orders the loop has still to visit
  next,       \* number of the next order
  cached,     \* GetCachedAmount of each property
  allPairs,   \* IsFeatureActivated(FEATURE_TRADEALLPAIRS)
  trading,    \* IsFeatureActivated(FEATURE_METADEX)
  scanning,   \* MetaDEx_SHUTDOWN_ALLPAIR is running
  alive       \* FALSE once an assert has failed

vars == <<tally, book, taker, todo, next, cached, allPairs, trading, scanning, alive>>

OrderId == 1..MaxOrders

(***************************************************************************)
(* got is a history variable: what the order received, before fees.  A     *)
(* filled order keeps its record with nothing remaining; it is not open.   *)
(***************************************************************************)
Order == [addr : 0..NumAddr, prop : Property \cup {0}, forsale : Amount, des : Property \cup {0},
          desired : Amount, remaining : Amount, got : Nat]
NoOrder == [addr |-> 0, prop |-> 0, forsale |-> 0, des |-> 0, desired |-> 0, remaining |-> 0, got |-> 0]

Open == {i \in OrderId : book[i].remaining > 0}

Init ==
  /\ tally = [a \in Addr |-> [p \in Property |-> [t \in TallyType |->
                IF t = "BALANCE" THEN InitBalance[a][p] ELSE 0]]]
  /\ book = [i \in OrderId |-> NoOrder]
  /\ taker = NoOrder
  /\ todo = {}
  /\ next = 1
  /\ cached = [p \in Property |-> 0]
  /\ allPairs = TRUE
  /\ trading = TRUE
  /\ scanning = FALSE
  /\ alive = TRUE

\* A new transaction can be handled.
Idle == alive /\ taker = NoOrder /\ ~ scanning

\* Mutant: a deactivated exchange can still be used.
AllowedAlways(p) == TRUE

\* IsTransactionTypeAllowed: the test ecosystem is not restricted.
Allowed(p) == trading \/ p \in TestProperty

SameEcosystem(p, q) == p \in TestProperty <=> q \in TestProperty
OmniSide(p, q)      == {p, q} \cap {MSC, TMSC} # {}

(***************************************************************************)
(* Prices are fractions: the unit price of an order is desired / forsale,  *)
(* the inverse price the reciprocal.                                       *)
(***************************************************************************)
SamePrice(o, q)    == o.desired * q.forsale = q.desired * o.forsale
CheaperThan(o, q)  == o.desired * q.forsale < q.desired * o.forsale

\* o.unitPrice() <= t.inversePrice()
PriceAccepted(o, t) == o.desired * t.desired <= t.forsale * o.forsale

Matches(o, t) == o.prop = t.des /\ o.des = t.prop /\ PriceAccepted(o, t)

\* The order in which the loops visit the orders of one property.
VisitedBefore(i, j) ==
  \/ CheaperThan(book[i], book[j])
  \/ SamePrice(book[i], book[j]) /\ i < j
------------------------------------------------------------------------------
(***************************************************************************)
(* logicMath_MetaDExTrade, MetaDEx_ADD, and the begin of x_Trade.          *)
(***************************************************************************)
MetaDExTrade(s, p, n, q, d) ==
  /\ Idle /\ Allowed(p)
  /\ p # q /\ SameEcosystem(p, q)
  /\ n > 0 /\ d > 0
  /\ allPairs \/ OmniSide(p, q)
  /\ tally[s][p]["BALANCE"] >= n
  /\ next \in OrderId
  /\ taker' = [addr |-> s, prop |-> p, forsale |-> n, des |-> q, desired |-> d,
               remaining |-> n, got |-> 0]
  /\ todo' = {i \in Open : Matches(book[i], taker')}
  /\ UNCHANGED <<tally, book, next, cached, allPairs, trading, scanning, alive>>

\* What the taker t can buy of order o at its price, and has to pay for n.
CouldBuy(o, t) == SmallerOf((t.remaining * o.forsale) \div o.desired, o.remaining)
WouldPay(o, n) == CeilDiv(n * o.desired, o.forsale)

\* The price paid is one that both sides accept.
FairPrice(o, t, n, paid) == o.desired * n <= paid * o.forsale /\ paid * t.desired <= t.forsale * n

\* A fill is made: something can be bought, and the price after rounding is
\* one the taker accepts.
Executable(o, t) ==
  LET n == CouldBuy(o, t)
  IN  n > 0 /\ WouldPay(o, n) * t.desired <= t.forsale * n

HasFee(o)        == FeesActive /\ o.prop > TMSC /\ o.des > TMSC
TradingFee(o, n) == IF HasFee(o) THEN n \div FeeDivider ELSE 0

\* The next order to visit.
IsNext(i) == i \in todo /\ \A j \in todo \ {i} : VisitedBefore(i, j)

\* No fill is possible: the loop goes on to the next order.
Skip(i) ==
  /\ ~ Executable(book[i], taker)
  /\ todo' = todo \ {i}
  /\ UNCHANGED <<tally, book, taker, next, cached, allPairs, trading, scanning, alive>>

(***************************************************************************)
(* A fill: n tokens of order i for paid tokens of the taker.  The fee is   *)
(* stripped from what the taker gets and added to the cache, which may     *)
(* distribute it, before the tokens move.                                  *)
(***************************************************************************)
Exchange(i, n, paid, checked) ==
  LET o   == book[i]
      fee == TradingFee(o, n)
      F   == IF HasFee(o) THEN AddFee(tally, cached, o.prop, DistributionThreshold(Supply(o.prop)), fee)
             ELSE [tally |-> tally, cached |-> cached, ok |-> TRUE]
      T1  == Moved(F.tally, taker.prop, paid, taker.addr, "BALANCE", o.addr, "BALANCE")
      T2  == Updated(T1, o.addr, o.prop, "METADEX_RESERVE", -n)
      asserted ==
        /\ checked
        /\ paid <= taker.remaining
        /\ F.ok
        /\ CanMove(F.tally, taker.prop, paid, taker.addr, "BALANCE", o.addr, "BALANCE")
        /\ CanUpdate(T1, o.addr, o.prop, "METADEX_RESERVE", -n)
        /\ CanUpdate(T2, taker.addr, o.prop, "BALANCE", n - fee)
      t   == [taker EXCEPT !.remaining = @ - paid, !.got = @ + n]
      b   == [book EXCEPT ![i].remaining = @ - n, ![i].got = @ + paid]
  IN  /\ alive' = asserted
      /\ IF asserted
           THEN /\ tally' = Updated(T2, taker.addr, o.prop, "BALANCE", n - fee)
                /\ cached' = F.cached
                /\ IF t.remaining = 0
                     THEN /\ book' = [b EXCEPT ![next] = t]
                          /\ taker' = NoOrder /\ todo' = {} /\ next' = next + 1
                     ELSE /\ book' = b
                          /\ taker' = t /\ todo' = todo \ {i} /\ next' = next
           ELSE UNCHANGED <<tally, book, taker, todo, next, cached>>
      /\ UNCHANGED <<allPairs, trading, scanning>>

\* Mutant: what has to be paid is rounded down, and not checked.
FillRoundedDown(i) ==
  LET n == CouldBuy(book[i], taker)
  IN  /\ n * book[i].desired >= book[i].forsale
      /\ Exchange(i, n, (n * book[i].desired) \div book[i].forsale, TRUE)

Fill(i) ==
  LET n    == CouldBuy(book[i], taker)
      paid == WouldPay(book[i], n)
  IN  /\ Executable(book[i], taker)
      /\ Exchange(i, n, paid, FairPrice(book[i], taker, n, paid))

\* One iteration of the loop of x_Trade.
Visit == alive /\ taker # NoOrder /\ \E i \in OrderId : IsNext(i) /\ (Skip(i) \/ Fill(i))

\* Mutant: the reserve gets all that was for sale, not what remains of it.
InsertAll ==
  LET n == taker.forsale
  IN  /\ alive /\ taker # NoOrder /\ todo = {}
      /\ alive' = CanMove(tally, taker.prop, n, taker.addr, "BALANCE", taker.addr, "METADEX_RESERVE")
      /\ IF alive' THEN tally' = Moved(tally, taker.prop, n, taker.addr, "BALANCE", taker.addr, "METADEX_RESERVE")
                   ELSE tally' = tally
      /\ book' = [book EXCEPT ![next] = taker]
      /\ taker' = NoOrder /\ next' = next + 1
      /\ UNCHANGED <<todo, cached, allPairs, trading, scanning>>

(***************************************************************************)
(* The end of MetaDEx_ADD: what remains becomes an order of the book.      *)
(***************************************************************************)
Insert ==
  LET n == taker.remaining
  IN  /\ alive /\ taker # NoOrder /\ todo = {}
      /\ alive' = CanMove(tally, taker.prop, n, taker.addr, "BALANCE", taker.addr, "METADEX_RESERVE")
      /\ IF alive' THEN tally' = Moved(tally, taker.prop, n, taker.addr, "BALANCE", taker.addr, "METADEX_RESERVE")
                   ELSE tally' = tally
      /\ book' = [book EXCEPT ![next] = taker]
      /\ taker' = NoOrder /\ next' = next + 1
      /\ UNCHANGED <<todo, cached, allPairs, trading, scanning>>
------------------------------------------------------------------------------
(***************************************************************************)
(* Removal of orders R: what remains of each returns from the reserve to   *)
(* the balance of its owner.                                               *)
(***************************************************************************)
Remaining(R, a, p) ==
  SumUpTo([i \in OrderId |-> IF i \in R /\ book[i].addr = a /\ book[i].prop = p
                             THEN book[i].remaining ELSE 0], MaxOrders)

\* Mutant: what was put up for sale returns, not what remains of it.
ReturnedInFull(R) ==
  [a \in Addr |-> [p \in Property |->
     LET n == SumUpTo([i \in OrderId |-> IF i \in R /\ book[i].addr = a /\ book[i].prop = p
                                         THEN book[i].forsale ELSE 0], MaxOrders)
     IN  [tally[a][p] EXCEPT !["BALANCE"] = @ + n, !["METADEX_RESERVE"] = @ - n]]]

Returned(R) ==
  [a \in Addr |-> [p \in Property |->
     [tally[a][p] EXCEPT !["BALANCE"] = @ + Remaining(R, a, p),
                         !["METADEX_RESERVE"] = @ - Remaining(R, a, p)]]]

Remove(R) ==
  /\ alive' = (Returned(R) \in Ledger /\ NonNegative(Returned(R)))
  /\ tally' = IF alive' THEN Returned(R) ELSE tally
  /\ book' = [i \in OrderId |-> IF i \in R THEN NoOrder ELSE book[i]]

OwnOrders(s, p) == {i \in Open : book[i].addr = s /\ book[i].prop = p}

MetaDExCancelPrice(s, p, n, q, d) ==
  LET R == {i \in OwnOrders(s, p) : book[i].des = q /\ book[i].desired * n = d * book[i].forsale}
  IN  /\ Idle /\ Allowed(p)
      /\ p # q /\ SameEcosystem(p, q) /\ n > 0 /\ d > 0
      /\ R # {}
      /\ Remove(R)
      /\ UNCHANGED <<taker, todo, next, cached, allPairs, trading, scanning>>

MetaDExCancelPair(s, p, q) ==
  LET R == {i \in OwnOrders(s, p) : book[i].des = q}
  IN  /\ Idle /\ Allowed(p)
      /\ p # q /\ SameEcosystem(p, q)
      /\ R # {}
      /\ Remove(R)
      /\ UNCHANGED <<taker, todo, next, cached, allPairs, trading, scanning>>

MetaDExCancelEcosystem(s, e) ==
  LET R == UNION {OwnOrders(s, p) : p \in {p \in Property : SameEcosystem(p, e)}}
  IN  /\ Idle /\ Allowed(e)
      /\ R # {}
      /\ Remove(R)
      /\ UNCHANGED <<taker, todo, next, cached, allPairs, trading, scanning>>
------------------------------------------------------------------------------
(***************************************************************************)
(* Emergency deactivation (logicMath_Deactivation).  Without the exchange, *)
(* all orders are removed; without the trading of all pairs, those without *)
(* OMNI or TOMNI on a side.                                                *)
(***************************************************************************)
DeactivateMetaDEx ==
  /\ Idle /\ trading
  /\ trading' = FALSE
  /\ Remove(Open)
  /\ UNCHANGED <<taker, todo, next, cached, allPairs, scanning>>

DeactivateAllPairs ==
  /\ Idle /\ allPairs
  /\ allPairs' = FALSE
  /\ scanning' = TRUE
  /\ todo' = Open
  /\ UNCHANGED <<tally, book, taker, next, cached, trading, alive>>

\* The order in which MetaDEx_SHUTDOWN_ALLPAIR walks the book.
ScannedBefore(i, j) ==
  book[i].prop < book[j].prop \/ (book[i].prop = book[j].prop /\ VisitedBefore(i, j))

\* Mutant: the iterator does not advance when an order is removed, either.
ScanStays ==
  /\ alive /\ scanning
  /\ \E i \in todo : Remove({i} \cap Open)
  /\ UNCHANGED <<taker, todo, next, cached, allPairs, trading, scanning>>

\* One iteration of the inner loop: the iterator advances when the order is
\* removed, and stays where it is when not.
Scan ==
  /\ alive /\ scanning
  /\ \E i \in todo :
       /\ \A j \in todo \ {i} : ScannedBefore(i, j)
       /\ IF OmniSide(book[i].prop, book[i].des)
            THEN UNCHANGED <<tally, book, todo, alive>>
            ELSE Remove({i}) /\ todo' = todo \ {i}
  /\ UNCHANGED <<taker, next, cached, allPairs, trading, scanning>>

ScanDone ==
  /\ alive /\ scanning /\ todo = {}
  /\ scanning' = FALSE
  /\ UNCHANGED <<tally, book, taker, todo, next, cached, allPairs, trading, alive>>
------------------------------------------------------------------------------
Next ==
  \/ Visit \/ Insert
  \/ \E r \in Trades :
       \/ \E n, d \in Amounts : \/ MetaDExTrade(r[1], r[2], n, r[3], d)
                               \/ MetaDExCancelPrice(r[1], r[2], n, r[3], d)
       \/ MetaDExCancelPair(r[1], r[2], r[3])
  \/ \E s \in Addr, e \in {MSC, TMSC} \cap Property : MetaDExCancelEcosystem(s, e)
  \/ DeactivateMetaDEx
  \/ DeactivateAllPairs \/ Scan \/ ScanDone

\* The loops run on once they are entered.
Fairness == WF_vars(Visit) /\ WF_vars(Insert) /\ WF_vars(Scan) /\ WF_vars(ScanDone)

Spec == Init /\ [][Next]_vars /\ Fairness
------------------------------------------------------------------------------
(***************************************************************************)
(* Properties.                                                             *)
(***************************************************************************)
TypeOK ==
  /\ tally \in Ledger /\ NonNegative(tally)
  /\ book \in [OrderId -> Order]
  /\ taker \in Order
  /\ todo \subseteq Open
  /\ next \in 1..(MaxOrders + 1)
  /\ cached \in [Property -> Amount]
  /\ allPairs \in BOOLEAN /\ trading \in BOOLEAN /\ scanning \in BOOLEAN /\ alive \in BOOLEAN

\* No record is negative or overflows, and no assert of x_Trade, of the
\* cancellations or of the fee distribution fails.
AssertsHold == TypeOK /\ alive

\* METADEX_RESERVE is what the open orders of the address have left to sell.
ReserveBacked ==
  \A a \in Addr, p \in Property : tally[a][p]["METADEX_RESERVE"] = Remaining(Open, a, p)

\* Whatever the rounding of its fills, as maker and as taker, an order gets
\* at least its price: filled completely, it got what it desired.
LimitKept ==
  \A o \in {book[i] : i \in OrderId} \cup {taker} :
    o.got * o.forsale >= (o.forsale - o.remaining) * o.desired

\* No token appears or disappears in trades, cancellations and shutdowns:
\* what addresses hold and what the fee cache holds is the supply.
SupplyConserved ==
  \A p \in Property : getTotalTokens(tally, p) + cached[p] = Supply(p)

\* Once the trading of all pairs, or the exchange, is deactivated, no order
\* of the kind that is not allowed any more is in the book.
ClosedMarketsEmpty ==
  \A i \in Open :
    /\ trading \/ book[i].prop \in TestProperty
    /\ allPairs \/ scanning \/ OmniSide(book[i].prop, book[i].des)

\* The matching loop of x_Trade ends: every trade is processed.
TradeEnds == (taker # NoOrder /\ alive) ~> (taker = NoOrder)

\* The scan of MetaDEx_SHUTDOWN_ALLPAIR ends when no order of the book has OMNI
\* or TOMNI on a side, the only ones its iterator does not get past.
ShutdownEnds ==
  (scanning /\ \A i \in Open : ~ OmniSide(book[i].prop, book[i].des)) ~> (~ scanning \/ ~ alive)

\* The two loops that walk the book while they erase from it come to an end
\* (x_Trade, MetaDEx_SHUTDOWN_ALLPAIR).
LoopsEnd == TradeEnds /\ ShutdownEnds

\* Comment of MetaDEx_SHUTDOWN_ALLPAIR: "Scans the orderbook and removes
\* every all-pair order".
ShutdownRemovesAllPairs ==
  scanning ~> \A i \in Open : OmniSide(book[i].prop, book[i].des)
==============================================================================
