---------------------------- MODULE MetaDExProofs ----------------------------
(***************************************************************************)
(* What is proved of the token exchange, for any number of addresses,      *)
(* properties and orders: no assert fails, tokens are conserved, every     *)
(* order gets its price, and closed markets are empty.                     *)
(***************************************************************************)
EXTENDS MetaDEx, TallyProofs

(***************************************************************************)
(* What AddFee does: n tokens of property p enter the cache, or are handed *)
(* out together with what was cached.                                      *)
(***************************************************************************)
LEMMA FeeAdded ==
  ASSUME NEW T, Sound(T), NEW c \in [Property -> Nat], NEW p \in Property, NEW t, NEW n \in Nat,
         FeeTarget(p) \in Property, \E a \in Addr : Holding(T, a, FeeTarget(p)) > 0,
         \A a \in Addr : T[a][p]["BALANCE"] + (c[p] + n) <= MaxInt
  PROVE  LET F == AddFee(T, c, p, t, n) IN F.ok /\ FeeRule(T, c, p, n, F.tally, F.cached)
<1> DEFINE e == [c EXCEPT ![p] = @ + n]
           F == AddFee(T, c, p, t, n)
           share == STO_GetReceivers(T, 0, FeeTarget(p), e[p])
<1>1. e \in [Property -> Nat] /\ e[p] = c[p] + n /\ \A q \in Property : q # p => e[q] = c[q]
  OBVIOUS
<1>2. \A q \in Property : getTotalTokens(T, q) \in Int
  <2> SUFFICES ASSUME NEW q \in Property PROVE getTotalTokens(T, q) \in Int
    OBVIOUS
  <2>1. \A x \in Addr, v \in HeldTypes : T[x][q][v] \in Nat
    BY RecordNat
  <2> QED BY <2>1, RecordWithinTotal
<1>3. \A x \in Addr, q \in Property, v \in TallyType : T[x][q][v] \in Int
  <2>1. \A x \in Addr, q \in Property, v \in TallyType : T[x][q][v] \in Int64
    BY DEF Ledger, Sound
  <2> QED BY <2>1, TallyAssumption DEF Int64, MinInt
<1>4. F = IF e[p] >= t
            THEN [tally |-> SharesCredited(T, p, share), cached |-> [e EXCEPT ![p] = 0],
                  ok |-> CanCredit(T, p, share) /\ SumUpTo(share, NumAddr) = e[p]]
            ELSE [tally |-> T, cached |-> e, ok |-> TRUE]
  BY Zenon DEF AddFee, EvalCache
<1>5. CASE e[p] >= t
  <2>1. (\A a \in Addr : share[a] \in 0..e[p]) /\ SumUpTo(share, NumAddr) = e[p]
    <3>1. \E a \in Addr \ {0} : Holding(T, a, FeeTarget(p)) > 0
      BY AddrFacts
    <3>2. e[p] \in Nat
      BY <1>1
    <3> HIDE DEF e
    <3> QED BY <3>1, <3>2, DistributionExact, Zenon
  <2>2. F.tally = SharesCredited(T, p, share) /\ F.cached = [e EXCEPT ![p] = 0]
        /\ F.ok = (CanCredit(T, p, share) /\ SumUpTo(share, NumAddr) = e[p])
    BY <1>4, <1>5
  <2> HIDE DEF share, e, F
  <2>3. \A a \in Addr : share[a] \in Nat /\ share[a] <= e[p]
    BY <2>1, <1>1
  <2>4. \A a \in Addr : T[a][p]["BALANCE"] \in Nat
    BY RecordNat, HeldTallyTypes
  <2>5. \A a \in Addr : T[a][p]["BALANCE"] + share[a] <= MaxInt
    BY <2>3, <2>4, <1>1, TallyAssumption
  <2>6. CreditRule(T, p, e[p], share, F.tally)
    <3>1. CreditRule(T, p, SumUpTo(share, NumAddr), share, SharesCredited(T, p, share))
      BY <2>3, <2>5, CreditedShares, Zenon
    <3> QED BY <2>1, <2>2, <3>1, Zenon
  <2>7. F.cached \in [Property -> Nat] /\ F.cached[p] = 0 /\ \A q \in Property : q # p => F.cached[q] = c[q]
    BY <2>2, <1>1
  <2>8. \A q \in Property : getTotalTokens(F.tally, q) = getTotalTokens(T, q) + (IF q = p THEN e[p] ELSE 0)
    BY <2>6, Zenon DEF CreditRule
  <2>9. \A q \in Property : getTotalTokens(F.tally, q) + F.cached[q]
                              = getTotalTokens(T, q) + c[q] + (IF q = p THEN n ELSE 0)
    BY <2>7, <2>8, <1>1, <1>2
  <2>10. ASSUME NEW x \in Addr, NEW q \in Property, NEW v \in TallyType
         PROVE  F.tally[x][q][v] >= T[x][q][v] /\ (q # p \/ v # "BALANCE" => F.tally[x][q][v] = T[x][q][v])
    <3>1. F.tally[x][q][v] = T[x][q][v] + (IF q = p /\ v = "BALANCE" THEN share[x] ELSE 0)
      BY <2>6, Zenon DEF CreditRule
    <3> QED BY <3>1, <2>3, <1>3
  <2>11. F.ok /\ Sound(F.tally)
    BY <2>1, <2>2, <2>6, Zenon DEF CreditRule
  <2> QED BY <2>7, <2>9, <2>10, <2>11, Zenon DEF FeeRule, F
<1>6. CASE ~ (e[p] >= t)
  <2>1. F.tally = T /\ F.cached = e /\ F.ok
    BY <1>4, <1>6
  <2> HIDE DEF e, F, share
  <2>2. \A q \in Property : getTotalTokens(F.tally, q) + F.cached[q]
                              = getTotalTokens(T, q) + c[q] + (IF q = p THEN n ELSE 0)
    BY <2>1, <1>1, <1>2
  <2>3. \A x \in Addr, q \in Property, v \in TallyType : F.tally[x][q][v] >= T[x][q][v]
    BY <2>1, <1>3
  <2> QED BY <2>1, <2>2, <2>3, <1>1, Zenon DEF FeeRule, F
<1> QED BY <1>5, <1>6
(***************************************************************************)
(* What the orders of a book have left to sell.                            *)
(***************************************************************************)
RemTerms(bk, a, p) ==
  [i \in OrderId |-> IF bk[i].addr = a /\ bk[i].prop = p THEN bk[i].remaining ELSE 0]
Rem(bk, a, p) == SumUpTo(RemTerms(bk, a, p), MaxOrders)

LEMMA OrderIds == MaxOrders \in Nat /\ OrderId = 1..MaxOrders
BY MetaDExAssumption DEF OrderId

\* The arithmetic of the fills.
LEMMA AtMost == \A j, k, m \in Nat : j <= k /\ k <= m => j <= m
OBVIOUS
LEMMA LessAtMost == \A j, k, m \in Nat : k <= m => k - j <= m
OBVIOUS
LEMMA Adds == \A j, k \in Nat : j + k \in Nat
OBVIOUS
LEMMA AmountLess == \A m \in Amount, k \in Nat : k <= m => m - k \in Amount
BY TallyAssumption DEF Amount
LEMMA Commutes == \A j, k, l, m \in Nat : j * k <= l * m => k * j <= m * l
OBVIOUS

\* The identifier after the last one.
LEMMA NextId == \A k \in OrderId : /\ k \in 1..(MaxOrders + 1) /\ k + 1 \in 1..(MaxOrders + 1)
                                    /\ k >= k /\ ~ (k >= k + 1)
                                    /\ \A i \in OrderId : i >= k + 1 => i >= k
BY OrderIds

LEMMA OrderFacts ==
  ASSUME NEW o \in Order
  PROVE  /\ o.remaining \in Nat /\ o.forsale \in Nat /\ o.desired \in Nat /\ o.got \in Nat
         /\ o.remaining \in Amount /\ o.forsale \in Amount /\ o.desired \in Amount
BY TallyAssumption DEF Order, Amount

LEMMA RemTermsNat ==
  ASSUME NEW bk \in [OrderId -> Order], NEW a, NEW p
  PROVE  /\ \A i \in OrderId : RemTerms(bk, a, p)[i] \in Nat
         /\ Rem(bk, a, p) \in Nat
         /\ \A i \in OrderId : RemTerms(bk, a, p)[i] <= Rem(bk, a, p)
<1>1. \A i \in OrderId : bk[i].remaining \in Nat
  BY OrderFacts
<1>2. \A i \in OrderId : RemTerms(bk, a, p)[i] \in Nat
  BY <1>1 DEF RemTerms
<1> QED BY <1>2, OrderIds, SumNat DEF Rem

RemShift(bk, bq, k, a, p) ==
  Rem(bq, a, p) = Rem(bk, a, p) + (RemTerms(bq, a, p)[k] - RemTerms(bk, a, p)[k])

LEMMA RemChange ==
  ASSUME NEW bk \in [OrderId -> Order], NEW bq \in [OrderId -> Order], NEW k \in OrderId,
         \A i \in OrderId : i # k => bq[i] = bk[i], NEW a, NEW p
  PROVE  RemShift(bk, bq, k, a, p)
<1>1. \A i \in OrderId : RemTerms(bk, a, p)[i] \in Int /\ RemTerms(bq, a, p)[i] \in Int
  BY RemTermsNat
<1>2. \A i \in OrderId : i # k => RemTerms(bq, a, p)[i] = RemTerms(bk, a, p)[i]
  BY DEF RemTerms
<1> QED BY <1>1, <1>2, OrderIds, SumChange, ZenonT(40) DEF Rem, RemShift

\* The terms of Remaining.
LEMMA RemainingOpen ==
  ASSUME book \in [OrderId -> Order], NEW a, NEW p
  PROVE  Remaining(Open, a, p) = Rem(book, a, p)
<1> DEFINE f == [i \in OrderId |-> IF i \in Open /\ book[i].addr = a /\ book[i].prop = p
                                   THEN book[i].remaining ELSE 0]
<1>1. \A i \in OrderId : book[i].remaining \in Nat
  BY OrderFacts
<1>2. \A i \in OrderId : f[i] = RemTerms(book, a, p)[i]
  BY <1>1 DEF RemTerms, Open
<1>3. Remaining(Open, a, p) = SumUpTo(f, MaxOrders)
  BY DEF Remaining
<1> HIDE DEF f
<1> QED BY <1>2, <1>3, OrderIds, SumEqual DEF Rem

LEMMA RemainingOpenNext ==
  ASSUME book' \in [OrderId -> Order], NEW a, NEW p
  PROVE  Remaining(Open, a, p)' = Rem(book', a, p)
<1> DEFINE f == [i \in OrderId |-> IF i \in Open' /\ book'[i].addr = a /\ book'[i].prop = p
                                   THEN book'[i].remaining ELSE 0]
<1>1. \A i \in OrderId : book'[i].remaining \in Nat
  BY OrderFacts
<1>2. \A i \in OrderId : f[i] = RemTerms(book', a, p)[i]
  BY <1>1 DEF RemTerms, Open
<1>3. Remaining(Open, a, p)' = SumUpTo(f, MaxOrders)
  BY DEF Remaining
<1> HIDE DEF f
<1> QED BY <1>2, <1>3, OrderIds, SumEqual DEF Rem

\* The book without orders R.
Without(R) == [i \in OrderId |-> IF i \in R THEN NoOrder ELSE book[i]]

------------------------------------------------------------------------------

\* OMNI, and TOMNI if there are tokens of its ecosystem, is owned by someone:
\* otherwise a fee distribution has no receivers and its assert fails.
FeesHaveOwners ==
  \A p \in Property : FeesActive /\ p > TMSC => FeeTarget(p) \in Property /\ Supply(FeeTarget(p)) > 0

\* An order as MetaDEx_ADD creates it and fills leave it.
GoodOrder(o) ==
  /\ o \in Order
  /\ o.addr \in Addr /\ o.prop \in Property /\ o.des \in Property /\ o.prop # o.des
  /\ o.forsale > 0 /\ o.desired > 0 /\ o.remaining <= o.forsale

\* An order got at least its price.
GotPrice(o) == o.got * o.forsale >= (o.forsale - o.remaining) * o.desired

Orders ==
  \A i \in OrderId : /\ book[i] = NoOrder \/ GoodOrder(book[i])
                     /\ i >= next => book[i] = NoOrder
                     /\ GotPrice(book[i])

\* The market of an order is open.
MarketOpen(o) == Allowed(o.prop) /\ (allPairs \/ scanning \/ OmniSide(o.prop, o.des))

\* The order being matched is covered by the balance of its sender.
TakerCovered ==
  taker # NoOrder =>
    /\ GoodOrder(taker) /\ GotPrice(taker) /\ MarketOpen(taker)
    /\ 0 < taker.remaining /\ taker.remaining <= tally[taker.addr][taker.prop]["BALANCE"]
    /\ next \in OrderId /\ ~ scanning
    /\ \A i \in todo : book[i].prop = taker.des /\ book[i].des = taker.prop

\* What the loops have still to visit.
LoopState ==
  /\ taker = NoOrder /\ ~ scanning => todo = {}
  /\ scanning => taker = NoOrder /\ ~ allPairs /\ todo = Open

\* Only tokens other than OMNI and TOMNI are charged fees.
FeesCharged == \A p \in Property : ~ (p > TMSC) => cached[p] = 0

\* The inductive invariant.
IInv ==
  /\ AssertsHold /\ SupplyConserved /\ ReserveBacked /\ ClosedMarketsEmpty
  /\ Orders /\ TakerCovered /\ LoopState /\ FeesCharged
------------------------------------------------------------------------------
(***************************************************************************)
(* The arithmetic of a fill.                                               *)
(***************************************************************************)
\* A fill at a price the order accepts leaves it with its price.
LEMMA PriceStep ==
  ASSUME NEW o, NEW q, o.got \in Nat, o.forsale \in Nat, o.remaining \in Nat, o.desired \in Nat,
         NEW given \in Nat, NEW taken \in Nat, GotPrice(o), o.desired * given <= taken * o.forsale,
         q.forsale = o.forsale, q.desired = o.desired,
         q.remaining = o.remaining - given, q.got = o.got + taken
  PROVE  GotPrice(q)
<1>1. \A g, f, r, d \in Nat : g * f >= (f - r) * d /\ d * given <= taken * f
                                => (g + taken) * f >= (f - (r - given)) * d
  OBVIOUS
<1> QED BY <1>1 DEF GotPrice

(***************************************************************************)
(* The actions.                                                            *)
(***************************************************************************)
LEMMA InvFacts ==
  ASSUME IInv
  PROVE  /\ Sound(tally) /\ book \in [OrderId -> Order] /\ taker \in Order /\ alive
         /\ \A p \in Property : /\ cached[p] \in Nat /\ getTotalTokens(tally, p) \in Nat
                                /\ getTotalTokens(tally, p) + cached[p] <= MaxInt
                                /\ getTotalTokens(tally, p) <= MaxInt
<1>1. Sound(tally) /\ book \in [OrderId -> Order] /\ taker \in Order /\ alive /\ cached \in [Property -> Amount]
  BY DEF IInv, AssertsHold, TypeOK, Sound
<1>2. ASSUME NEW p \in Property
      PROVE  /\ cached[p] \in Nat /\ getTotalTokens(tally, p) \in Nat
             /\ getTotalTokens(tally, p) + cached[p] <= MaxInt
             /\ getTotalTokens(tally, p) <= MaxInt
  <2>1. cached[p] \in Nat
    BY <1>1, TallyAssumption DEF Amount
  <2>2. getTotalTokens(tally, p) \in Nat
    BY <1>1, TotalNat
  <2>3. getTotalTokens(tally, p) + cached[p] <= MaxInt
    BY MetaDExAssumption DEF IInv, SupplyConserved
  <2> QED BY <2>1, <2>2, <2>3, TallyAssumption
<1> QED BY <1>1, <1>2

LEMMA NoOrderFacts == NoOrder \in Order /\ NoOrder.remaining = 0 /\ GotPrice(NoOrder)
<1>1. NoOrder \in Order
  BY TallyAssumption DEF NoOrder, Order, Amount
<1> QED BY <1>1 DEF NoOrder, GotPrice

\* What a removal does.
LEMMA RemoveStep ==
  ASSUME IInv, NEW R, R \subseteq Open, Remove(R)
  PROVE  /\ alive' /\ Sound(tally') /\ book' = Without(R) /\ book' \in [OrderId -> Order]
         /\ \A p \in Property : getTotalTokens(tally', p) = getTotalTokens(tally, p)
         /\ ReserveBacked'
         /\ Open' = Open \ R
         /\ \A i \in OrderId : book'[i] = NoOrder \/ book'[i] = book[i]
         /\ \A i \in Open' : book'[i] = book[i]
<1>RemWithout.
      ASSUME book \in [OrderId -> Order], NEW a, NEW p
      PROVE  /\ Remaining(R, a, p) \in Nat
             /\ Rem(Without(R), a, p) = Rem(book, a, p) - Remaining(R, a, p)
             /\ Remaining(R, a, p) <= Rem(book, a, p)
  <2> USE <1>RemWithout
  <2> DEFINE f == [i \in OrderId |-> IF i \in R /\ book[i].addr = a /\ book[i].prop = p
                                     THEN book[i].remaining ELSE 0]
             g == RemTerms(Without(R), a, p)
             h == RemTerms(book, a, p)
  <2>1. \A i \in OrderId : book[i].remaining \in Nat
    BY OrderFacts
  <2>2. \A i \in OrderId : f[i] \in Nat
    BY <2>1
  <2>3. NoOrder.remaining = 0
    BY DEF NoOrder
  <2>4. ASSUME NEW i \in OrderId PROVE g[i] \in Nat /\ h[i] = f[i] + g[i]
    <3>1. h[i] = IF book[i].addr = a /\ book[i].prop = p THEN book[i].remaining ELSE 0
      BY DEF RemTerms
    <3>2. CASE i \in R
      <4>1. Without(R)[i] = NoOrder
        BY <3>2 DEF Without
      <4>2. g[i] = 0
        BY <2>3, <4>1 DEF RemTerms
      <4>3. f[i] = h[i] /\ h[i] \in Nat
        BY <3>1, <3>2, <2>1
      <4> HIDE DEF f, g, h
      <4> QED BY <4>2, <4>3
    <3>3. CASE i \notin R
      <4>1. Without(R)[i] = book[i]
        BY <3>3 DEF Without
      <4>2. g[i] = h[i] /\ h[i] \in Nat
        BY <4>1, <3>1, <2>1, Zenon DEF RemTerms
      <4>3. f[i] = 0
        BY <3>3
      <4> HIDE DEF f, g, h
      <4> QED BY <4>2, <4>3
    <3> QED BY <3>2, <3>3
  <2>5. Remaining(R, a, p) = SumUpTo(f, MaxOrders)
    BY DEF Remaining
  <2>6. Rem(Without(R), a, p) = SumUpTo(g, MaxOrders) /\ Rem(book, a, p) = SumUpTo(h, MaxOrders)
    BY DEF Rem
  <2> HIDE DEF f, g, h
  <2>7. SumUpTo(h, MaxOrders) = SumUpTo(f, MaxOrders) + SumUpTo(g, MaxOrders)
    <3>1. \A i \in 1..MaxOrders : f[i] \in Int /\ g[i] \in Int /\ h[i] = f[i] + g[i]
      BY <2>2, <2>4, OrderIds
    <3> QED BY <3>1, OrderIds, SumAdd, Zenon
  <2>8. SumUpTo(f, MaxOrders) \in Nat /\ SumUpTo(g, MaxOrders) \in Nat
    BY <2>2, <2>4, OrderIds, SumNat
  <2> QED BY <2>5, <2>6, <2>7, <2>8
\* The removal of orders: the assert holds, and only the removed orders and
\* their reserves change.
<1>ReturnedValue.
      ASSUME tally \in Ledger, NEW x \in Addr, NEW q \in Property
      PROVE  /\ Returned(R)[x][q]["BALANCE"] = tally[x][q]["BALANCE"] + Remaining(R, x, q)
             /\ Returned(R)[x][q]["METADEX_RESERVE"] = tally[x][q]["METADEX_RESERVE"] - Remaining(R, x, q)
             /\ Returned(R)[x][q] = [v \in TallyType |-> Returned(R)[x][q][v]]
  <2> USE <1>ReturnedValue
  <2>1. tally[x][q] \in [TallyType -> Int64]
    BY DEF Ledger
  <2>2. Returned(R)[x][q] = [tally[x][q] EXCEPT !["BALANCE"] = @ + Remaining(R, x, q),
                                                !["METADEX_RESERVE"] = @ - Remaining(R, x, q)]
    BY Zenon DEF Returned
  <2>3. "BALANCE" \in TallyType /\ "METADEX_RESERVE" \in TallyType /\ "BALANCE" # "METADEX_RESERVE"
    BY HeldTallyTypes
  <2> QED BY <2>1, <2>2, <2>3, Zenon
<1>ReturnedOther.
      ASSUME tally \in Ledger, NEW x \in Addr, NEW q \in Property,
             NEW v \in TallyType, v # "BALANCE", v # "METADEX_RESERVE"
      PROVE  Returned(R)[x][q][v] = tally[x][q][v]
  <2> USE <1>ReturnedOther
  <2>1. tally[x][q] \in [TallyType -> Int64]
    BY DEF Ledger
  <2>2. Returned(R)[x][q] = [tally[x][q] EXCEPT !["BALANCE"] = @ + Remaining(R, x, q),
                                                !["METADEX_RESERVE"] = @ - Remaining(R, x, q)]
    BY Zenon DEF Returned
  <2> QED BY <2>1, <2>2
<1>ReturnedTotal.
      ASSUME Sound(tally), \A a \in Addr, p \in Property : Remaining(R, a, p) \in Nat, NEW q \in Property
      PROVE  getTotalTokens(Returned(R), q) = getTotalTokens(tally, q)
  <2> USE <1>ReturnedTotal
  <2> DEFINE f == [x \in Addr |-> Holding(tally, x, q)]
             g == [x \in Addr |-> Holding(Returned(R), x, q)]
  <2>1. ASSUME NEW x \in Addr PROVE Holding(Returned(R), x, q) = Holding(tally, x, q)
    <3>1. /\ tally[x][q]["BALANCE"] \in Nat /\ tally[x][q]["SELLOFFER_RESERVE"] \in Nat
          /\ tally[x][q]["ACCEPT_RESERVE"] \in Nat /\ tally[x][q]["METADEX_RESERVE"] \in Nat
      BY RecordNat, HeldTallyTypes, Zenon
    <3>2. /\ Returned(R)[x][q]["BALANCE"] = tally[x][q]["BALANCE"] + Remaining(R, x, q)
          /\ Returned(R)[x][q]["METADEX_RESERVE"] = tally[x][q]["METADEX_RESERVE"] - Remaining(R, x, q)
      BY <1>ReturnedValue, Zenon DEF Sound
    <3>3. /\ "SELLOFFER_RESERVE" \in TallyType /\ "ACCEPT_RESERVE" \in TallyType
          /\ "SELLOFFER_RESERVE" # "BALANCE" /\ "SELLOFFER_RESERVE" # "METADEX_RESERVE"
          /\ "ACCEPT_RESERVE" # "BALANCE" /\ "ACCEPT_RESERVE" # "METADEX_RESERVE"
      BY HeldTallyTypes
    <3>4. /\ Returned(R)[x][q]["SELLOFFER_RESERVE"] = tally[x][q]["SELLOFFER_RESERVE"]
          /\ Returned(R)[x][q]["ACCEPT_RESERVE"] = tally[x][q]["ACCEPT_RESERVE"]
      <4>1. tally \in Ledger
        BY DEF Sound
      <4> QED BY <3>3, <4>1, <1>ReturnedOther, Zenon
    <3>5. Remaining(R, x, q) \in Nat
      OBVIOUS
    <3> DEFINE b == tally[x][q]["BALANCE"]
               s == tally[x][q]["SELLOFFER_RESERVE"]
               a == tally[x][q]["ACCEPT_RESERVE"]
               m == tally[x][q]["METADEX_RESERVE"]
               r == Remaining(R, x, q)
    <3>6. /\ Holding(Returned(R), x, q) = (b + r) + s + a + (m - r)
          /\ Holding(tally, x, q) = b + s + a + m
      BY <3>2, <3>4, Zenon DEF Holding
    <3>7. b \in Nat /\ s \in Nat /\ a \in Nat /\ m \in Nat /\ r \in Nat
      BY <3>1, <3>5, Zenon
    <3> HIDE DEF b, s, a, m, r
    <3>8. (b + r) + s + a + (m - r) = b + s + a + m
      BY <3>7
    <3> QED BY <3>6, <3>8, Zenon
  <2>2. \A x \in Addr : g[x] = f[x]
    BY <2>1
  <2>3. getTotalTokens(tally, q) = SumUpTo(f, NumAddr) /\ getTotalTokens(Returned(R), q) = SumUpTo(g, NumAddr)
    BY DEF getTotalTokens
  <2> HIDE DEF f, g
  <2> QED BY <2>2, <2>3, AddrFacts, SumEqual
<1>ReturnedSound.
      ASSUME Sound(tally), book \in [OrderId -> Order], ReserveBacked,
             \A p \in Property : getTotalTokens(tally, p) <= MaxInt
      PROVE  Sound(Returned(R))
  <2> USE <1>ReturnedSound
  <2>1. ASSUME NEW x \in Addr, NEW q \in Property
        PROVE  /\ Remaining(R, x, q) \in Nat
               /\ Remaining(R, x, q) <= tally[x][q]["METADEX_RESERVE"]
               /\ tally[x][q]["BALANCE"] + tally[x][q]["METADEX_RESERVE"] <= MaxInt
    <3>1. Remaining(R, x, q) \in Nat /\ Remaining(R, x, q) <= Rem(book, x, q)
      BY <1>RemWithout
    <3>2. tally[x][q]["METADEX_RESERVE"] = Rem(book, x, q)
      BY RemainingOpen DEF ReserveBacked
    <3>3. /\ tally[x][q]["BALANCE"] \in Amount /\ tally[x][q]["METADEX_RESERVE"] \in Amount
          /\ tally[x][q]["BALANCE"] \in Nat /\ tally[x][q]["METADEX_RESERVE"] \in Nat
      BY RecordNat, HeldTallyTypes
    <3>4. tally[x][q]["BALANCE"] + tally[x][q]["METADEX_RESERVE"] <= MaxInt
      <4>1. CASE tally[x][q]["METADEX_RESERVE"] = 0
        BY <4>1, <3>3, TallyAssumption DEF Amount
      <4>2. CASE tally[x][q]["METADEX_RESERVE"] # 0
        <5> DEFINE n == tally[x][q]["METADEX_RESERVE"]
        <5>1. n \in Nat \ {0} /\ n <= tally[x][q]["METADEX_RESERVE"]
          BY <4>2, <3>3
        <5>2. tally[x][q]["BALANCE"] + n <= getTotalTokens(tally, q) /\ getTotalTokens(tally, q) \in Nat
          BY <5>1, TwoWithinTotal, TotalNat
        <5>3. getTotalTokens(tally, q) <= MaxInt
          OBVIOUS
        <5> QED BY <5>2, <5>3, <3>3, TallyAssumption
      <4> QED BY <4>1, <4>2
    <3> QED BY <3>1, <3>2, <3>4
  <2>2. ASSUME NEW x \in Addr, NEW q \in Property, NEW v \in TallyType
        PROVE  Returned(R)[x][q][v] \in Int64 /\ (v # "PENDING" => Returned(R)[x][q][v] >= 0)
    <3>0. tally[x][q][v] \in Int64 /\ (v # "PENDING" => tally[x][q][v] >= 0)
      BY DEF Sound, Ledger, NonNegative
    <3>1. CASE v = "BALANCE"
      <4>1. Returned(R)[x][q][v] = tally[x][q]["BALANCE"] + Remaining(R, x, q)
        BY <3>1, <1>ReturnedValue, Zenon DEF Sound
      <4>2. tally[x][q]["BALANCE"] \in Nat /\ tally[x][q]["METADEX_RESERVE"] \in Nat
        BY RecordNat, HeldTallyTypes
      <4>3. \A k, m, r \in Nat : r <= m /\ k + m <= MaxInt => k + r \in Int64 /\ k + r >= 0
        BY TallyAssumption DEF Int64, MinInt
      <4> QED BY <4>1, <4>2, <4>3, <2>1, Zenon
    <3>2. CASE v = "METADEX_RESERVE"
      <4>1. Returned(R)[x][q][v] = tally[x][q]["METADEX_RESERVE"] - Remaining(R, x, q)
        BY <3>2, <1>ReturnedValue, Zenon DEF Sound
      <4>2. tally[x][q]["METADEX_RESERVE"] \in Amount
        BY RecordNat, HeldTallyTypes
      <4>3. \A m \in Amount, r \in Nat : r <= m => m - r \in Int64 /\ m - r >= 0
        BY TallyAssumption DEF Int64, MinInt, Amount
      <4> QED BY <4>1, <4>2, <4>3, <2>1, Zenon
    <3>3. CASE v \notin {"BALANCE", "METADEX_RESERVE"}
      <4>1. Returned(R)[x][q][v] = tally[x][q][v]
        <5>1. tally \in Ledger
          BY DEF Sound
        <5>2. v # "BALANCE" /\ v # "METADEX_RESERVE"
          BY <3>3
        <5> QED BY <5>1, <5>2, <1>ReturnedOther, Zenon
      <4> QED BY <4>1, <3>0, Zenon
    <3> QED BY <3>1, <3>2, <3>3, Zenon
  <2>3. Returned(R) \in Ledger
    <3>1. \A x \in Addr, q \in Property : Returned(R)[x][q] \in [TallyType -> Int64]
      <4> SUFFICES ASSUME NEW x \in Addr, NEW q \in Property PROVE Returned(R)[x][q] \in [TallyType -> Int64]
        OBVIOUS
      <4>1. Returned(R)[x][q] = [v \in TallyType |-> Returned(R)[x][q][v]]
        BY <1>ReturnedValue, Zenon DEF Sound
      <4>2. \A v \in TallyType : Returned(R)[x][q][v] \in Int64
        BY <2>2, Zenon
      <4> DEFINE rec == Returned(R)[x][q]
      <4> HIDE DEF rec
      <4>3. rec = [v \in TallyType |-> rec[v]] /\ \A v \in TallyType : rec[v] \in Int64
        BY <4>1, <4>2, Zenon DEF rec
      <4>4. rec \in [TallyType -> Int64]
        BY <4>3
      <4> QED BY <4>4, Zenon DEF rec
    <3>2. \A x \in Addr : Returned(R)[x] = [q \in Property |-> Returned(R)[x][q]]
      BY Zenon DEF Returned
    <3>3. Returned(R) = [x \in Addr |-> Returned(R)[x]]
      BY Zenon DEF Returned
    <3>4. \A x \in Addr : Returned(R)[x] \in [Property -> [TallyType -> Int64]]
      BY <3>1, <3>2, Zenon
    <3> QED BY <3>3, <3>4, Zenon DEF Ledger
  <2> QED BY <2>2, <2>3 DEF Sound, NonNegative
<1>1. Sound(tally) /\ book \in [OrderId -> Order] /\ \A p \in Property : getTotalTokens(tally, p) <= MaxInt
  BY InvFacts
<1>2. ReserveBacked
  BY DEF IInv
<1>3. Sound(Returned(R))
  BY <1>1, <1>2, <1>ReturnedSound
<1>4. alive' /\ tally' = Returned(R) /\ book' = Without(R)
  BY <1>3, Zenon DEF Remove, Sound, Without
<1>5. \A a \in Addr, p \in Property : Remaining(R, a, p) \in Nat
  BY <1>1, <1>RemWithout, Zenon
<1>6. \A p \in Property : getTotalTokens(tally', p) = getTotalTokens(tally, p)
  BY <1>1, <1>4, <1>5, <1>ReturnedTotal
<1>7. \A i \in OrderId : book'[i] = IF i \in R THEN NoOrder ELSE book[i]
  BY <1>4 DEF Without
<1>8. book' \in [OrderId -> Order]
  BY <1>1, <1>4, NoOrderFacts DEF Without
<1>9. Open' = Open \ R
  <2>1. Open' = {i \in OrderId : book'[i].remaining > 0}
    BY DEF Open
  <2>2. Open = {i \in OrderId : book[i].remaining > 0}
    BY DEF Open
  <2>3. ~ (NoOrder.remaining > 0)
    BY NoOrderFacts
  <2> QED BY <1>7, <2>1, <2>2, <2>3, Zenon
<1>10. ReserveBacked'
  <2> SUFFICES ASSUME NEW a \in Addr, NEW p \in Property
               PROVE  tally'[a][p]["METADEX_RESERVE"] = Remaining(Open, a, p)'
    BY DEF ReserveBacked
  <2>1. Remaining(Open, a, p)' = Rem(book', a, p)
    BY <1>8, RemainingOpenNext
  <2>2. Rem(book', a, p) = Rem(book, a, p) - Remaining(R, a, p)
    BY <1>1, <1>4, <1>RemWithout
  <2>3. tally[a][p]["METADEX_RESERVE"] = Rem(book, a, p)
    BY <1>1, <1>2, RemainingOpen DEF ReserveBacked
  <2>4. tally'[a][p]["METADEX_RESERVE"] = tally[a][p]["METADEX_RESERVE"] - Remaining(R, a, p)
    BY <1>1, <1>4, <1>ReturnedValue, Zenon DEF Sound
  <2> QED BY <2>1, <2>2, <2>3, <2>4
<1>11. \A i \in Open' : book'[i] = book[i]
  BY <1>7, <1>9 DEF Open
<1> QED BY <1>3, <1>4, <1>6, <1>7, <1>8, <1>9, <1>10, <1>11

LEMMA RemoveHolds ==
  ASSUME IInv, NEW R, R \subseteq Open, Remove(R), taker = NoOrder, UNCHANGED <<taker, next, cached>>,
         allPairs' \in BOOLEAN, trading' \in BOOLEAN, scanning' \in BOOLEAN,
         todo' \subseteq Open', LoopState', ClosedMarketsEmpty'
  PROVE  IInv'
<1>1. /\ alive' /\ Sound(tally') /\ book' \in [OrderId -> Order] /\ ReserveBacked'
      /\ \A p \in Property : getTotalTokens(tally', p) = getTotalTokens(tally, p)
      /\ \A i \in OrderId : book'[i] = NoOrder \/ book'[i] = book[i]
  BY RemoveStep
<1>2. AssertsHold'
  <2>1. /\ taker' \in Order /\ next' \in 1..(MaxOrders + 1) /\ cached' \in [Property -> Amount]
    BY DEF IInv, AssertsHold, TypeOK
  <2> QED BY <1>1, <2>1 DEF AssertsHold, TypeOK, Sound
<1>3. SupplyConserved'
  BY <1>1 DEF IInv, SupplyConserved
<1>4. Orders'
  <2> SUFFICES ASSUME NEW i \in OrderId
               PROVE  /\ book'[i] = NoOrder \/ GoodOrder(book'[i])
                      /\ i >= next => book'[i] = NoOrder
                      /\ GotPrice(book'[i])
    BY DEF Orders, GotPrice, GoodOrder
  <2>1. CASE book'[i] = NoOrder
    BY <2>1, NoOrderFacts, Zenon
  <2>2. CASE book'[i] = book[i]
    BY <2>2 DEF IInv, Orders
  <2> QED BY <1>1, <2>1, <2>2
<1>5. TakerCovered' /\ FeesCharged'
  BY DEF IInv, TakerCovered, FeesCharged
<1> QED BY <1>1, <1>2, <1>3, <1>4, <1>5 DEF IInv
\* A cancellation.
LEMMA CancelHolds ==
  ASSUME IInv, Idle, NEW R, R \subseteq Open, Remove(R),
         UNCHANGED <<taker, todo, next, cached, allPairs, trading, scanning>>
  PROVE  IInv'
<1>1. Open' = Open \ R /\ \A i \in Open' : book'[i] = book[i]
  BY RemoveStep
<1>2. taker = NoOrder /\ ~ scanning /\ todo = {}
  BY DEF Idle, IInv, LoopState
<1>3. LoopState' /\ todo' \subseteq Open'
  BY <1>2 DEF LoopState
<1>4. ClosedMarketsEmpty'
  BY <1>1, Zenon DEF IInv, ClosedMarketsEmpty
<1>5. allPairs' \in BOOLEAN /\ trading' \in BOOLEAN /\ scanning' \in BOOLEAN
  BY DEF IInv, AssertsHold, TypeOK
<1> QED BY <1>2, <1>3, <1>4, <1>5, RemoveHolds

LEMMA DeactivateMetaDExHolds ==
  ASSUME IInv, DeactivateMetaDEx
  PROVE  IInv'
<1>0. Idle /\ Remove(Open) /\ trading' = FALSE /\ UNCHANGED <<taker, todo, next, cached, allPairs, scanning>>
  BY DEF DeactivateMetaDEx
<1>1. Open' = Open \ Open
  BY <1>0, RemoveStep
<1>2. taker = NoOrder /\ ~ scanning /\ todo = {}
  BY <1>0 DEF Idle, IInv, LoopState
<1>3. LoopState' /\ todo' \subseteq Open'
  BY <1>0, <1>2 DEF LoopState
<1>4. ClosedMarketsEmpty'
  BY <1>1 DEF ClosedMarketsEmpty
<1>5. allPairs' \in BOOLEAN /\ trading' \in BOOLEAN /\ scanning' \in BOOLEAN
  BY <1>0, Zenon DEF IInv, AssertsHold, TypeOK
<1> QED BY <1>0, <1>2, <1>3, <1>4, <1>5, RemoveHolds

\* A step that leaves the ledger and the book alone.
LEMMA SameBookHolds ==
  ASSUME IInv, UNCHANGED <<tally, book, next, cached, trading, alive>>,
         allPairs' \in BOOLEAN, scanning' \in BOOLEAN, taker' \in Order,
         todo' \subseteq Open, LoopState', TakerCovered', ClosedMarketsEmpty'
  PROVE  IInv'
<1>1. Open' = Open
  BY DEF Open
<1>2. AssertsHold'
  BY <1>1, Zenon DEF IInv, AssertsHold, TypeOK
<1>3. ReserveBacked'
  BY <1>1, Zenon DEF IInv, ReserveBacked, Remaining
<1>4. SupplyConserved' /\ FeesCharged'
  BY DEF IInv, SupplyConserved, FeesCharged
<1>5. Orders'
  BY DEF IInv, Orders, GotPrice, GoodOrder
<1> QED BY <1>2, <1>3, <1>4, <1>5 DEF IInv

LEMMA DeactivateAllPairsHolds ==
  ASSUME IInv, DeactivateAllPairs
  PROVE  IInv'
<1>0. /\ Idle /\ allPairs' = FALSE /\ scanning' = TRUE /\ todo' = Open
      /\ UNCHANGED <<tally, book, taker, next, cached, trading, alive>>
  BY DEF DeactivateAllPairs
<1>1. taker = NoOrder /\ taker' = NoOrder /\ Open' = Open
  BY <1>0 DEF Idle, Open
<1>2. LoopState' /\ TakerCovered'
  BY <1>0, <1>1 DEF LoopState, TakerCovered
<1>3. ClosedMarketsEmpty'
  BY <1>0, <1>1 DEF IInv, ClosedMarketsEmpty
<1> QED BY <1>0, <1>1, <1>2, <1>3, SameBookHolds, NoOrderFacts, Zenon

LEMMA ScanDoneHolds ==
  ASSUME IInv, ScanDone
  PROVE  IInv'
<1>0. /\ scanning /\ todo = {} /\ ~ scanning'
      /\ UNCHANGED <<tally, book, taker, todo, next, cached, allPairs, trading, alive>>
  BY DEF ScanDone
<1>1. taker = NoOrder /\ Open = {} /\ Open' = Open
  BY <1>0 DEF IInv, LoopState, Open
<1>2. LoopState' /\ TakerCovered' /\ ClosedMarketsEmpty'
  BY <1>0, <1>1 DEF LoopState, TakerCovered, ClosedMarketsEmpty
<1>3. scanning' \in BOOLEAN /\ allPairs' \in BOOLEAN
  BY <1>0, Zenon DEF IInv, AssertsHold, TypeOK, ScanDone
<1> QED BY <1>0, <1>1, <1>2, <1>3, SameBookHolds, NoOrderFacts

LEMMA ScanHolds ==
  ASSUME IInv, Scan
  PROVE  IInv'
<1>0. scanning /\ UNCHANGED <<taker, next, cached, allPairs, trading, scanning>>
  BY DEF Scan
<1>1. taker = NoOrder /\ ~ allPairs /\ todo = Open
  BY <1>0 DEF IInv, LoopState
<1>2. PICK i \in todo : \/ UNCHANGED <<tally, book, todo, alive>>
                        \/ Remove({i}) /\ todo' = todo \ {i}
  BY Zenon DEF Scan
<1>3. /\ allPairs' \in BOOLEAN /\ trading' \in BOOLEAN /\ scanning' \in BOOLEAN
  BY <1>0 DEF IInv, AssertsHold, TypeOK
<1>4. CASE UNCHANGED <<tally, book, todo, alive>>
  <2>1. Open' = Open
    BY <1>4 DEF Open
  <2>2. LoopState' /\ TakerCovered'
    BY <1>0, <1>1, <1>4, <2>1, Zenon DEF LoopState, TakerCovered
  <2>3. ClosedMarketsEmpty'
    BY <1>0, <1>4, <2>1 DEF IInv, ClosedMarketsEmpty
  <2> QED BY <1>0, <1>1, <1>3, <1>4, <2>1, <2>2, <2>3, SameBookHolds, NoOrderFacts
<1>5. CASE Remove({i}) /\ todo' = todo \ {i}
  <2>0. {i} \subseteq Open
    BY <1>1, <1>2
  <2>1. Open' = Open \ {i} /\ \A j \in Open' : book'[j] = book[j]
    BY <1>5, <2>0, RemoveStep
  <2>2. LoopState' /\ todo' \subseteq Open'
    BY <1>0, <1>1, <1>5, <2>1 DEF LoopState
  <2>3. ClosedMarketsEmpty'
    BY <1>0, <2>1, Zenon DEF IInv, ClosedMarketsEmpty
  <2> QED BY <1>0, <1>1, <1>3, <1>5, <2>0, <2>2, <2>3, RemoveHolds
<1> QED BY <1>2, <1>4, <1>5
LEMMA MetaDExTradeHolds ==
  ASSUME IInv, NEW s \in Addr, NEW p \in Property, NEW n \in Amount, NEW q \in Property, NEW d \in Amount,
         MetaDExTrade(s, p, n, q, d)
  PROVE  IInv'
<1> DEFINE o == [addr |-> s, prop |-> p, forsale |-> n, des |-> q, desired |-> d, remaining |-> n, got |-> 0]
<1>0. /\ Idle /\ Allowed(p) /\ p # q /\ n > 0 /\ d > 0 /\ (allPairs \/ OmniSide(p, q))
      /\ tally[s][p]["BALANCE"] >= n /\ next \in OrderId
      /\ UNCHANGED <<tally, book, next, cached, allPairs, trading, scanning, alive>>
  BY Zenon DEF MetaDExTrade
<1>1. taker' = o /\ todo' = {i \in Open : Matches(book[i], o)}
  BY Zenon DEF MetaDExTrade
<1>2. n \in Nat /\ d \in Nat
  BY TallyAssumption DEF Amount
<1>3. o \in Order
  BY <1>2, AddrFacts DEF Order
<1>4. GoodOrder(o) /\ GotPrice(o)
  <2>1. GoodOrder(o)
    <3>1. /\ o.addr = s /\ o.prop = p /\ o.des = q
          /\ o.forsale = n /\ o.desired = d /\ o.remaining = n
      OBVIOUS
    <3>2. n <= n
      BY <1>2
    <3> HIDE DEF o
    <3> QED BY <1>0, <1>3, <3>1, <3>2, Zenon DEF GoodOrder
  <2>2. GotPrice(o)
    BY <1>2 DEF GotPrice
  <2> QED BY <2>1, <2>2
<1>5. /\ o.addr = s /\ o.prop = p /\ o.des = q /\ o.remaining = n
  OBVIOUS
<1> HIDE DEF o
<1>6. ~ scanning /\ ~ scanning'
  BY <1>0, Zenon DEF Idle
<1>7. \A i \in todo' : book[i].prop = o.des /\ book[i].des = o.prop
  BY <1>1 DEF Matches
<1>8. MarketOpen(o)'
  BY <1>0, <1>5, Zenon DEF MarketOpen, Allowed, OmniSide
<1>8a. 0 < n /\ n <= tally[s][p]["BALANCE"]
  <2>1. tally[s][p]["BALANCE"] \in Nat
    BY InvFacts, RecordNat, HeldTallyTypes, Zenon
  <2> QED BY <2>1, <1>0, <1>2, Zenon
<1>9. TakerCovered'
  <2>1. GoodOrder(taker') /\ GotPrice(taker')
    BY <1>1, <1>4
  <2>1a. GoodOrder(taker)' /\ GotPrice(taker)'
    BY <2>1, Zenon DEF GoodOrder, GotPrice
  <2>2. MarketOpen(taker)'
    BY <1>1, <1>8 DEF MarketOpen, Allowed
  <2>3. 0 < taker'.remaining /\ taker'.remaining <= tally'[taker'.addr][taker'.prop]["BALANCE"]
    BY <1>0, <1>1, <1>5, <1>8a, Zenon
  <2>4. \A i \in todo' : book'[i].prop = taker'.des /\ book'[i].des = taker'.prop
    BY <1>0, <1>1, <1>7, Zenon
  <2> QED BY <1>0, <1>6, <2>1a, <2>2, <2>3, <2>4, Zenon DEF TakerCovered
<1>10. LoopState'
  <2>1. o # NoOrder
    BY <1>5, <1>0 DEF NoOrder
  <2> QED BY <2>1, <1>1, <1>6 DEF LoopState
<1>11. ClosedMarketsEmpty'
  <2>1. Open' = Open
    BY <1>0, Zenon DEF Open
  <2> QED BY <2>1, <1>0, Zenon DEF IInv, ClosedMarketsEmpty
<1>12. todo' \subseteq Open /\ taker' \in Order /\ allPairs' \in BOOLEAN /\ scanning' \in BOOLEAN
  BY <1>0, <1>1, <1>3, Zenon DEF IInv, AssertsHold, TypeOK
<1> QED BY <1>0, <1>9, <1>10, <1>11, <1>12, SameBookHolds

LEMMA SkipHolds ==
  ASSUME IInv, taker # NoOrder, NEW i \in todo, Skip(i)
  PROVE  IInv'
<1>0. todo' = todo \ {i} /\ UNCHANGED <<tally, book, taker, next, cached, allPairs, trading, scanning, alive>>
  BY DEF Skip
<1>1. ~ scanning
  BY DEF IInv, LoopState
<1>2. LoopState'
  BY <1>0, <1>1 DEF LoopState
<1>3. TakerCovered'
  BY <1>0, Zenon DEF IInv, TakerCovered, GoodOrder, GotPrice, MarketOpen, Allowed
<1>4. ClosedMarketsEmpty'
  <2>1. Open' = Open
    BY <1>0 DEF Open
  <2> QED BY <2>1, <1>0 DEF IInv, ClosedMarketsEmpty
<1>5. todo' \subseteq Open /\ taker' \in Order /\ allPairs' \in BOOLEAN /\ scanning' \in BOOLEAN
  BY <1>0 DEF IInv, AssertsHold, TypeOK
<1> QED BY <1>0, <1>2, <1>3, <1>4, <1>5, SameBookHolds

\* A new order does not change what others have left to sell.
LEMMA InsertHolds ==
  ASSUME IInv, Insert
  PROVE  IInv'
<1> DEFINE n == taker.remaining
           a == taker.addr
           p == taker.prop
<1>0. /\ taker # NoOrder /\ todo = {} /\ taker' = NoOrder /\ next' = next + 1
      /\ book' = [book EXCEPT ![next] = taker]
      /\ UNCHANGED <<todo, cached, allPairs, trading, scanning>>
  BY DEF Insert
<1>1. /\ Sound(tally) /\ book \in [OrderId -> Order] /\ taker \in Order
      /\ \A r \in Property : getTotalTokens(tally, r) <= MaxInt
  BY InvFacts
<1>2. /\ GoodOrder(taker) /\ GotPrice(taker) /\ MarketOpen(taker)
      /\ 0 < n /\ n <= tally[a][p]["BALANCE"] /\ next \in OrderId /\ ~ scanning
  BY <1>0, Zenon DEF IInv, TakerCovered
<1>3. a \in Addr /\ p \in Property /\ n \in Nat \ {0}
  BY <1>1, <1>2, OrderFacts DEF GoodOrder
<1>4. alive' = CanMove(tally, p, n, a, "BALANCE", a, "METADEX_RESERVE")
      /\ (alive' => tally' = Moved(tally, p, n, a, "BALANCE", a, "METADEX_RESERVE"))
  BY DEF Insert
<1> HIDE DEF n, a, p
<1>5. "BALANCE" \in HeldTypes /\ "METADEX_RESERVE" \in HeldTypes
      /\ "BALANCE" \in TallyType /\ "METADEX_RESERVE" \in TallyType
  BY HeldTallyTypes
<1>6. CanMove(tally, p, n, a, "BALANCE", a, "METADEX_RESERVE")
  BY <1>1, <1>2, <1>3, <1>5, CoveredMove
<1>7. alive' /\ tally' = Moved(tally, p, n, a, "BALANCE", a, "METADEX_RESERVE")
  BY <1>4, <1>6
<1>8. Sound(tally')
  BY <1>1, <1>3, <1>5, <1>6, <1>7, MovedSound
<1>9. \A r \in Property : getTotalTokens(tally', r) = getTotalTokens(tally, r)
  BY <1>1, <1>3, <1>5, <1>7, MovedTotal DEF Sound
<1>10. book' \in [OrderId -> Order] /\ book'[next] = taker /\ \A i \in OrderId : i # next => book'[i] = book[i]
  BY <1>0, <1>1, <1>2, Zenon
<1>11. MoveRule(tally, tally', p, n, a, "BALANCE", a, "METADEX_RESERVE")
  <2>1. n \in Int
    BY <1>3
  <2> QED BY <1>1, <1>3, <1>5, <1>7, <2>1, MovedHeld, Zenon
<1>12. book[next] = NoOrder
  BY <1>2, OrderIds DEF IInv, Orders
<1>13. ReserveBacked'
  <2> SUFFICES ASSUME NEW x \in Addr, NEW r \in Property
               PROVE  tally'[x][r]["METADEX_RESERVE"] = Remaining(Open, x, r)'
    BY DEF ReserveBacked
  <2>1. Remaining(Open, x, r)' = Rem(book', x, r)
    BY <1>10, RemainingOpenNext, Zenon
  <2>2. Rem(book', x, r) = Rem(book, x, r) + (RemTerms(book', x, r)[next] - RemTerms(book, x, r)[next])
    <3>1. RemShift(book, book', next, x, r)
      BY <1>1, <1>2, <1>10, RemChange, Zenon
    <3> QED BY <3>1, Zenon DEF RemShift
  <2>3. RemTerms(book, x, r)[next] = 0
    BY <1>2, <1>12, NoOrderFacts, Zenon DEF RemTerms
  <2>4. RemTerms(book', x, r)[next] = IF a = x /\ p = r THEN n ELSE 0
    BY <1>2, <1>10, Zenon DEF RemTerms, a, p, n
  <2>5. tally[x][r]["METADEX_RESERVE"] = Rem(book, x, r)
    BY <1>1, RemainingOpen DEF IInv, ReserveBacked
  <2>6. tally'[x][r]["METADEX_RESERVE"]
          = tally[x][r]["METADEX_RESERVE"] - 0 + (IF x = a /\ r = p THEN n ELSE 0)
    BY <1>5, <1>11 DEF MoveRule
  <2>7. Rem(book, x, r) \in Nat
    BY <1>1, RemTermsNat
  <2> QED BY <2>1, <2>2, <2>3, <2>4, <2>5, <2>6, <2>7, <1>3
<1>14. AssertsHold'
  <2>1. next' \in 1..(MaxOrders + 1) /\ todo' = {}
    BY <1>0, <1>2, NextId, Zenon
  <2>2. cached' \in [Property -> Amount] /\ allPairs' \in BOOLEAN /\ trading' \in BOOLEAN /\ scanning' \in BOOLEAN
    BY <1>0 DEF IInv, AssertsHold, TypeOK
  <2> QED BY <1>0, <1>7, <1>8, <1>10, <2>1, <2>2, NoOrderFacts DEF AssertsHold, TypeOK, Sound
<1>15. SupplyConserved' /\ FeesCharged'
  BY <1>0, <1>9 DEF IInv, SupplyConserved, FeesCharged
<1>16. Orders'
  <2> SUFFICES ASSUME NEW i \in OrderId
               PROVE  /\ book'[i] = NoOrder \/ GoodOrder(book'[i])
                      /\ i >= next' => book'[i] = NoOrder
                      /\ GotPrice(book'[i])
    BY Zenon DEF Orders, GotPrice, GoodOrder
  <2>1. CASE i = next
    BY <2>1, <1>0, <1>2, <1>10, NextId, Zenon
  <2>2. CASE i # next
    BY <2>2, <1>0, <1>2, <1>10, NextId, Zenon DEF IInv, Orders
  <2> QED BY <2>1, <2>2
<1>17. TakerCovered' /\ LoopState'
  BY <1>0, <1>2, Zenon DEF TakerCovered, LoopState
<1>18. ClosedMarketsEmpty'
  <2> SUFFICES ASSUME NEW i \in OrderId, book'[i].remaining > 0
               PROVE  /\ trading \/ book'[i].prop \in TestProperty
                      /\ allPairs \/ scanning \/ OmniSide(book'[i].prop, book'[i].des)
    BY <1>0, Zenon DEF ClosedMarketsEmpty, Open, OmniSide
  <2>1. CASE i = next
    BY <2>1, <1>2, <1>10, Zenon DEF MarketOpen, Allowed
  <2>2. CASE i # next
    <3>1. book'[i] = book[i] /\ i \in Open
      BY <2>2, <1>10 DEF Open
    <3> QED BY <3>1, Zenon DEF IInv, ClosedMarketsEmpty
  <2> QED BY <2>1, <2>2
<1> QED BY <1>13, <1>14, <1>15, <1>16, <1>17, <1>18 DEF IInv
(***************************************************************************)
(* A fill.  FilledBook is the book, and FilledTaker the order being        *)
(* matched, after n tokens of order i are traded for paid.                 *)
(***************************************************************************)
FilledBook(i, n, paid) == [book EXCEPT ![i].remaining = @ - n, ![i].got = @ + paid]
FilledTaker(n, paid)   == [taker EXCEPT !.remaining = @ - paid, !.got = @ + n]

FilledState(i, n, paid) ==
  IF FilledTaker(n, paid).remaining = 0
    THEN /\ book' = [FilledBook(i, n, paid) EXCEPT ![next] = FilledTaker(n, paid)]
         /\ taker' = NoOrder /\ todo' = {} /\ next' = next + 1
    ELSE /\ book' = FilledBook(i, n, paid)
         /\ taker' = FilledTaker(n, paid) /\ todo' = todo \ {i} /\ next' = next

\* The asserts of a fill hold.
LEMMA FillStep ==
  ASSUME FeesHaveOwners, IInv, taker # NoOrder, NEW i \in todo, Fill(i)
  PROVE  \E n, paid \in Nat \ {0} :
           /\ GoodOrder(book[i]) /\ n <= book[i].remaining /\ paid <= taker.remaining
           /\ book[i].desired * n <= paid * book[i].forsale
           /\ taker.desired * paid <= n * taker.forsale
           /\ FillRule(tally, cached, book[i].prop, taker.prop, book[i].addr, taker.addr, n, paid, tally', cached')
           /\ \A r \in Property : ~ (r > TMSC) => cached'[r] = cached[r]
           /\ alive' /\ FilledState(i, n, paid)
           /\ UNCHANGED <<allPairs, trading, scanning>>
\* Division.
<1>QuotientBelow.
      ASSUME NEW m \in Nat, NEW n \in Nat \ {0}
      PROVE  m \div n \in Nat /\ (m \div n) * n <= m
  OBVIOUS
\* The amounts of a fill.  What is paid for what can be bought is covered,
\* and not below the price of the order (x_Trade).
<1>FillAmounts.
      ASSUME NEW f \in Nat \ {0}, NEW d \in Nat \ {0}, NEW r \in Nat, NEW s \in Nat,
             NEW n, n = SmallerOf((r * f) \div d, s), n > 0
      PROVE  /\ n \in Nat \ {0} /\ n <= s
             /\ CeilDiv(n * d, f) \in Nat \ {0} /\ CeilDiv(n * d, f) <= r
             /\ d * n <= CeilDiv(n * d, f) * f
  <2> USE <1>FillAmounts
  <2> DEFINE q == (r * f) \div d
             x == n * d
  <2>0. r * f \in Nat
    OBVIOUS
  <2>1. q \in Nat /\ q * d <= r * f
    BY <2>0, <1>QuotientBelow
  <2> HIDE DEF q
  <2>2. n \in Nat \ {0} /\ n <= s /\ n <= q
    BY <2>1 DEF SmallerOf, q
  <2>3. x \in Nat /\ x > 0 /\ x = d * n
    BY <2>2
  <2>4. x <= r * f
    <3>1. n * d <= q * d
      BY <2>1, <2>2
    <3> QED BY <3>1, <2>1, <2>2
  <2> HIDE DEF x
  <2>5. CeilDiv(x, f) \in Nat /\ x <= CeilDiv(x, f) * f /\ CeilDiv(x, f) > 0
    BY <2>3, CeilDivFacts, Zenon
  <2>6. CeilDiv(x, f) <= r
    <3> DEFINE c == (x - 1) \div f
    <3>0. x - 1 \in Nat
      BY <2>3
    <3>1. c \in Nat /\ c * f <= x - 1
      BY <3>0, <1>QuotientBelow
    <3>2. CeilDiv(x, f) = 1 + c
      BY <2>3 DEF CeilDiv
    <3> HIDE DEF c
    <3>3. c * f < r * f
      BY <2>3, <2>4, <3>1
    <3>4. c < r
      BY <3>1, <3>3
    <3> QED BY <3>1, <3>2, <3>4
  <2> QED BY <2>2, <2>3, <2>5, <2>6 DEF x
<1>FeeBelow.
      ASSUME NEW n \in Nat \ {0}, NEW o
      PROVE  TradingFee(o, n) \in Nat /\ TradingFee(o, n) < n
  <2> USE <1>FeeBelow
  <2>1. FeeDivider \in Nat /\ FeeDivider >= 2
    BY MetaDExAssumption
  <2>2. n \div FeeDivider \in Nat /\ (n \div FeeDivider) * FeeDivider <= n
    BY <2>1, <1>QuotientBelow
  <2>3. n \div FeeDivider < n
    <3> DEFINE c == n \div FeeDivider
    <3> HIDE DEF c
    <3> SUFFICES c < n
      BY DEF c
    <3>1. c \in Nat /\ c * FeeDivider <= n
      BY <2>2 DEF c
    <3>2. c * 2 <= c * FeeDivider
      BY <2>1, <3>1
    <3> QED BY <3>1, <3>2, <2>1
  <2> QED BY <2>2, <2>3 DEF TradingFee
\* Someone owns the property whose owners get the fees.
<1>FeeReceivers.
      ASSUME FeesHaveOwners, IInv, NEW p \in Property, FeesActive, p > TMSC
      PROVE  FeeTarget(p) \in Property /\ \E a \in Addr : Holding(tally, a, FeeTarget(p)) > 0
  <2> USE <1>FeeReceivers
  <2> DEFINE q == FeeTarget(p)
  <2>1. q \in Property /\ Supply(q) > 0
    BY DEF FeesHaveOwners
  <2>2. ~ (q > TMSC)
    BY DEF FeeTarget, MSC, TMSC
  <2> HIDE DEF q
  <2>3. cached[q] = 0
    BY <2>1, <2>2 DEF IInv, FeesCharged
  <2>4. getTotalTokens(tally, q) + cached[q] = Supply(q)
    BY <2>1 DEF IInv, SupplyConserved
  <2>5. Sound(tally) /\ getTotalTokens(tally, q) \in Nat
    BY <2>1, InvFacts
  <2>6. getTotalTokens(tally, q) > 0
    BY <2>1, <2>3, <2>4, <2>5
  <2>7. ASSUME \A a \in Addr : ~ (Holding(tally, a, q) > 0)
        PROVE  FALSE
    <3> DEFINE f == [a \in Addr |-> Holding(tally, a, q)]
    <3>1. \A a \in Addr : f[a] = 0
      BY <2>1, <2>5, <2>7, HoldingNat
    <3>2. getTotalTokens(tally, q) = SumUpTo(f, NumAddr)
      BY DEF getTotalTokens
    <3> HIDE DEF f
    <3>3. SumUpTo(f, NumAddr) = 0
      BY <3>1, AddrFacts, SumOfZeros
    <3> QED BY <3>2, <3>3, <2>6
  <2> QED BY <2>1, <2>7 DEF q
<1> DEFINE o == book[i]
           n == CouldBuy(o, taker)
           paid == WouldPay(o, n)
           fee == TradingFee(o, n)
           F == IF HasFee(o) THEN AddFee(tally, cached, o.prop, DistributionThreshold(Supply(o.prop)), fee)
                ELSE [tally |-> tally, cached |-> cached, ok |-> TRUE]
           T1 == Moved(F.tally, taker.prop, paid, taker.addr, "BALANCE", o.addr, "BALANCE")
           T2 == Updated(T1, o.addr, o.prop, "METADEX_RESERVE", -n)
           V == Updated(T2, taker.addr, o.prop, "BALANCE", n - fee)
           asserted ==
             /\ FairPrice(o, taker, n, paid)
             /\ paid <= taker.remaining
             /\ F.ok
             /\ CanMove(F.tally, taker.prop, paid, taker.addr, "BALANCE", o.addr, "BALANCE")
             /\ CanUpdate(T1, o.addr, o.prop, "METADEX_RESERVE", -n)
             /\ CanUpdate(T2, taker.addr, o.prop, "BALANCE", n - fee)
<1>1. Executable(o, taker) /\ Exchange(i, n, paid, FairPrice(o, taker, n, paid))
  BY DEF Fill
<1>2. /\ alive' = asserted
      /\ asserted => tally' = V /\ cached' = F.cached /\ FilledState(i, n, paid)
      /\ UNCHANGED <<allPairs, trading, scanning>>
  BY <1>1, Zenon DEF Exchange, FilledState, FilledBook, FilledTaker
<1>3. i \in OrderId /\ o.remaining > 0 /\ o.prop = taker.des /\ o.des = taker.prop
  BY Zenon DEF IInv, AssertsHold, TypeOK, Open, TakerCovered
<1>4. GoodOrder(o) /\ GoodOrder(taker) /\ taker.remaining <= tally[taker.addr][taker.prop]["BALANCE"]
  BY <1>3, NoOrderFacts DEF IInv, Orders, TakerCovered
<1>5. n > 0 /\ WouldPay(o, n) * taker.desired <= taker.forsale * n
  BY <1>1 DEF Executable
<1>5a. n = SmallerOf((taker.remaining * o.forsale) \div o.desired, o.remaining) /\ paid = CeilDiv(n * o.desired, o.forsale)
  BY Zenon DEF CouldBuy, WouldPay
<1> HIDE DEF asserted, V, T2, T1, F, fee, paid, n, o
<1>6. /\ o.forsale \in Nat \ {0} /\ o.desired \in Nat \ {0} /\ o.remaining \in Nat
      /\ taker.remaining \in Nat /\ taker.forsale \in Nat /\ taker.desired \in Nat
      /\ o.addr \in Addr /\ o.prop \in Property /\ taker.addr \in Addr /\ taker.prop \in Property
      /\ o.prop # taker.prop
  BY <1>3, <1>4, OrderFacts DEF GoodOrder
<1>7. /\ n \in Nat \ {0} /\ n <= o.remaining /\ paid \in Nat \ {0} /\ paid <= taker.remaining
      /\ o.desired * n <= paid * o.forsale
  BY <1>5, <1>5a, <1>6, <1>FillAmounts, Zenon
<1>8. paid * taker.desired <= taker.forsale * n
  BY <1>5 DEF paid
<1>9. fee \in Nat /\ fee < n
  BY <1>7, <1>FeeBelow DEF fee
<1>10. /\ Sound(tally) /\ book \in [OrderId -> Order] /\ cached \in [Property -> Nat]
       /\ \A r \in Property : /\ cached[r] \in Nat /\ getTotalTokens(tally, r) \in Nat
                              /\ getTotalTokens(tally, r) + cached[r] <= MaxInt
  <2>1. cached \in [Property -> Amount]
    BY DEF IInv, AssertsHold, TypeOK
  <2> QED BY <2>1, InvFacts
<1>11. n <= tally[o.addr][o.prop]["METADEX_RESERVE"]
  <2>1. tally[o.addr][o.prop]["METADEX_RESERVE"] = Rem(book, o.addr, o.prop)
    BY <1>6, <1>10, RemainingOpen, Zenon DEF IInv, ReserveBacked
  <2>2. RemTerms(book, o.addr, o.prop)[i] = o.remaining
    BY <1>3 DEF RemTerms, o
  <2>3. RemTerms(book, o.addr, o.prop)[i] <= Rem(book, o.addr, o.prop) /\ Rem(book, o.addr, o.prop) \in Nat
    BY <1>3, <1>10, RemTermsNat, Zenon
  <2> QED BY <2>1, <2>2, <2>3, <1>6, <1>7, AtMost, Zenon
<1>12. paid <= tally[taker.addr][taker.prop]["BALANCE"]
  <2>1. tally[taker.addr][taker.prop]["BALANCE"] \in Nat
    BY <1>6, <1>10, RecordNat, HeldTallyTypes, Zenon
  <2> QED BY <2>1, <1>4, <1>6, <1>7, AtMost, Zenon
<1>13. F.ok /\ FeeRule(tally, cached, o.prop, fee, F.tally, F.cached)
  <2>1. CASE HasFee(o)
    <3>1. FeesActive /\ o.prop > TMSC
      BY <2>1 DEF HasFee
    <3>2. FeeTarget(o.prop) \in Property /\ \E a \in Addr : Holding(tally, a, FeeTarget(o.prop)) > 0
      BY <3>1, <1>6, <1>FeeReceivers, Zenon
    <3>3. ASSUME NEW a \in Addr PROVE tally[a][o.prop]["BALANCE"] + (cached[o.prop] + fee) <= MaxInt
      <4>1. tally[a][o.prop]["BALANCE"] + n <= getTotalTokens(tally, o.prop)
        BY <1>6, <1>7, <1>10, <1>11, TwoWithinTotal, Zenon
      <4>2. tally[a][o.prop]["BALANCE"] \in Nat
        BY <1>6, <1>10, RecordNat, HeldTallyTypes, Zenon
      <4>3. /\ cached[o.prop] \in Nat /\ getTotalTokens(tally, o.prop) \in Nat
            /\ getTotalTokens(tally, o.prop) + cached[o.prop] <= MaxInt
        BY <1>6, <1>10, Zenon
      <4> QED BY <4>1, <4>2, <4>3, <1>7, <1>9, TallyAssumption
    <3>4. F = AddFee(tally, cached, o.prop, DistributionThreshold(Supply(o.prop)), fee)
      BY <2>1 DEF F
    <3> QED BY <3>2, <3>3, <3>4, <1>6, <1>9, <1>10, FeeAdded, Zenon
  <2>2. CASE ~ HasFee(o)
    <3>1. F.tally = tally /\ F.cached = cached /\ F.ok
      BY <2>2 DEF F
    <3>2. fee = 0
      BY <2>2 DEF fee, TradingFee
    <3>3. \A x \in Addr, r \in Property, v \in TallyType : tally[x][r][v] >= tally[x][r][v]
      <4>1. \A x \in Addr, r \in Property, v \in TallyType : tally[x][r][v] \in Int64
        BY <1>10 DEF Sound, Ledger
      <4> QED BY <4>1, TallyAssumption DEF Int64, MinInt
    <3>4. \A r \in Property : getTotalTokens(tally, r) + cached[r]
                                = getTotalTokens(tally, r) + cached[r] + (IF r = o.prop THEN 0 ELSE 0)
      BY <1>10
    <3> QED BY <3>1, <3>2, <3>3, <3>4, <1>10, Zenon DEF FeeRule
  <2> QED BY <2>1, <2>2, Zenon
<1>14. /\ CanMove(F.tally, taker.prop, paid, taker.addr, "BALANCE", o.addr, "BALANCE")
       /\ CanUpdate(T1, o.addr, o.prop, "METADEX_RESERVE", -n)
       /\ CanUpdate(T2, taker.addr, o.prop, "BALANCE", n - fee)
       /\ FillRule(tally, cached, o.prop, taker.prop, o.addr, taker.addr, n, paid, V, F.cached)
  BY <1>6, <1>7, <1>9, <1>10, <1>11, <1>12, <1>13, Settled, ZenonT(40) DEF V, T2, T1
<1>15. asserted
  BY <1>7, <1>8, <1>13, <1>14, Zenon DEF asserted, FairPrice
<1>16. alive' /\ tally' = V /\ cached' = F.cached /\ FilledState(i, n, paid)
  BY <1>2, <1>15
<1>17. \A r \in Property : ~ (r > TMSC) => cached'[r] = cached[r]
  <2>1. CASE HasFee(o)
    BY <2>1, <1>13, <1>16, Zenon DEF HasFee, FeeRule
  <2>2. CASE ~ HasFee(o)
    BY <2>2, <1>16 DEF F
  <2> QED BY <2>1, <2>2
<1>18. taker.desired * paid <= n * taker.forsale
  BY <1>6, <1>7, <1>8, Commutes, Zenon
<1> QED BY <1>2, <1>4, <1>7, <1>14, <1>16, <1>17, <1>18, Zenon DEF o
\* The two orders of a fill afterwards.
LEMMA FilledOrders ==
  ASSUME IInv, taker # NoOrder, NEW i \in todo, NEW n \in Nat \ {0}, NEW paid \in Nat \ {0},
         GoodOrder(book[i]), n <= book[i].remaining, paid <= taker.remaining,
         book[i].desired * n <= paid * book[i].forsale, taker.desired * paid <= n * taker.forsale
  PROVE  LET o == FilledBook(i, n, paid)[i]
             t == FilledTaker(n, paid)
         IN  /\ GoodOrder(o) /\ GotPrice(o) /\ GoodOrder(t) /\ GotPrice(t)
             /\ o.addr = book[i].addr /\ o.prop = book[i].prop /\ o.des = book[i].des
             /\ o.remaining = book[i].remaining - n
             /\ t.addr = taker.addr /\ t.prop = taker.prop /\ t.des = taker.des
             /\ t.remaining = taker.remaining - paid
             /\ FilledBook(i, n, paid) \in [OrderId -> Order]
             /\ \A j \in OrderId : j # i => FilledBook(i, n, paid)[j] = book[j]
<1> DEFINE o == FilledBook(i, n, paid)[i]
           t == FilledTaker(n, paid)
<1>0. i \in OrderId /\ book \in [OrderId -> Order] /\ taker \in Order /\ book[i] \in Order
  BY DEF IInv, AssertsHold, TypeOK, Open
<1>1. GoodOrder(taker) /\ GotPrice(taker) /\ GotPrice(book[i])
  BY <1>0, Zenon DEF IInv, TakerCovered, Orders
<1>2. /\ book[i].remaining \in Nat /\ book[i].forsale \in Nat /\ book[i].desired \in Nat /\ book[i].got \in Nat
      /\ taker.remaining \in Nat /\ taker.forsale \in Nat /\ taker.desired \in Nat /\ taker.got \in Nat
      /\ book[i].remaining \in Amount /\ taker.remaining \in Amount
  BY <1>0, OrderFacts
<1>3. o = [book[i] EXCEPT !.remaining = @ - n, !.got = @ + paid]
  BY <1>0 DEF FilledBook
<1>4. \A j \in OrderId : j # i => FilledBook(i, n, paid)[j] = book[j]
  BY <1>0 DEF FilledBook
<1>5. /\ o.addr = book[i].addr /\ o.prop = book[i].prop /\ o.des = book[i].des
      /\ o.forsale = book[i].forsale /\ o.desired = book[i].desired
      /\ o.remaining = book[i].remaining - n /\ o.got = book[i].got + paid
  BY <1>0, <1>3 DEF Order
<1>6. /\ t.addr = taker.addr /\ t.prop = taker.prop /\ t.des = taker.des
      /\ t.forsale = taker.forsale /\ t.desired = taker.desired
      /\ t.remaining = taker.remaining - paid /\ t.got = taker.got + n
  BY <1>0 DEF Order, FilledTaker
<1>7. book[i].remaining - n \in Amount /\ taker.remaining - paid \in Amount
      /\ book[i].got + paid \in Nat /\ taker.got + n \in Nat
  BY <1>2, Adds, AmountLess, Zenon
<1>8. o \in Order
  BY <1>0, <1>3, <1>7, Zenon DEF Order
<1>9. t \in Order
  BY <1>0, <1>7, Zenon DEF Order, FilledTaker
<1>10. FilledBook(i, n, paid) \in [OrderId -> Order]
  <2>1. FilledBook(i, n, paid) = [book EXCEPT ![i] = o]
    BY <1>0, <1>3, Zenon DEF FilledBook
  <2> HIDE DEF o
  <2> QED BY <2>1, <1>0, <1>8
<1> HIDE DEF o, t
<1>11. GotPrice(o)
  BY <1>1, <1>2, <1>5, PriceStep, Zenon
<1>12. GotPrice(t)
  BY <1>1, <1>2, <1>6, PriceStep, Zenon
<1>13. GoodOrder(o)
  <2>1. o.remaining <= o.forsale
    BY <1>2, <1>5, LessAtMost, ZenonT(40) DEF GoodOrder
  <2> QED BY <2>1, <1>5, <1>8, Zenon DEF GoodOrder
<1>14. GoodOrder(t)
  <2>1. t.remaining <= t.forsale
    BY <1>1, <1>2, <1>6, LessAtMost, Zenon DEF GoodOrder
  <2> QED BY <2>1, <1>1, <1>6, <1>9, Zenon DEF GoodOrder
<1> QED BY <1>4, <1>5, <1>6, <1>10, <1>11, <1>12, <1>13, <1>14, Zenon DEF o, t

LEMMA FillHolds ==
  ASSUME FeesHaveOwners, IInv, taker # NoOrder, NEW i \in todo, Fill(i)
  PROVE  IInv'
<1>1. PICK n, paid \in Nat \ {0} :
           /\ GoodOrder(book[i]) /\ n <= book[i].remaining /\ paid <= taker.remaining
           /\ book[i].desired * n <= paid * book[i].forsale
           /\ taker.desired * paid <= n * taker.forsale
           /\ FillRule(tally, cached, book[i].prop, taker.prop, book[i].addr, taker.addr, n, paid, tally', cached')
           /\ \A r \in Property : ~ (r > TMSC) => cached'[r] = cached[r]
           /\ alive' /\ FilledState(i, n, paid)
           /\ UNCHANGED <<allPairs, trading, scanning>>
  BY FillStep, Zenon
<1>1a. allPairs' = allPairs /\ trading' = trading /\ scanning' = scanning
  BY <1>1, Zenon
<1> DEFINE B == FilledBook(i, n, paid)
           t == FilledTaker(n, paid)
<1>2. /\ GoodOrder(B[i]) /\ GotPrice(B[i]) /\ GoodOrder(t) /\ GotPrice(t)
      /\ B[i].addr = book[i].addr /\ B[i].prop = book[i].prop /\ B[i].des = book[i].des
      /\ B[i].remaining = book[i].remaining - n
      /\ t.addr = taker.addr /\ t.prop = taker.prop /\ t.des = taker.des
      /\ t.remaining = taker.remaining - paid
      /\ B \in [OrderId -> Order]
      /\ \A j \in OrderId : j # i => B[j] = book[j]
  BY <1>1, FilledOrders, Zenon
<1>3. IF t.remaining = 0
        THEN book' = [B EXCEPT ![next] = t] /\ taker' = NoOrder /\ todo' = {} /\ next' = next + 1
        ELSE book' = B /\ taker' = t /\ todo' = todo \ {i} /\ next' = next
  BY <1>1, Zenon DEF FilledState
<1> HIDE DEF B, t
<1>4. /\ i \in OrderId /\ i \in Open /\ book \in [OrderId -> Order] /\ taker \in Order
      /\ book[i].remaining \in Nat /\ taker.remaining \in Nat
  BY OrderFacts DEF IInv, AssertsHold, TypeOK, Open
<1>5. /\ next \in OrderId /\ ~ scanning /\ MarketOpen(taker) /\ GoodOrder(taker)
      /\ taker.remaining <= tally[taker.addr][taker.prop]["BALANCE"]
      /\ \A j \in todo : book[j].prop = taker.des /\ book[j].des = taker.prop
  BY Zenon DEF IInv, TakerCovered
<1>6. book[next] = NoOrder /\ next # i
  <2>1. book[next] = NoOrder
    <3>1. next >= next
      BY <1>5, OrderIds
    <3> QED BY <3>1, <1>5, Zenon DEF IInv, Orders
  <2> QED BY <2>1, <1>4, NoOrderFacts DEF Open
<1>7. t.remaining \in Nat /\ B[i].remaining \in Nat /\ t \in Order
  BY <1>2, OrderFacts, Zenon DEF GoodOrder
\* The book afterwards, whether or not the taker is filled.
<1>8. /\ book' \in [OrderId -> Order] /\ book'[i] = B[i]
      /\ \A j \in OrderId : j # i /\ j # next => book'[j] = book[j]
      /\ book'[next] = NoOrder \/ (book'[next] = t /\ next' = next + 1)
      /\ book'[next].remaining = 0
  <2>1. CASE t.remaining = 0
    BY <2>1, <1>2, <1>3, <1>4, <1>5, <1>6, <1>7, ZenonT(40)
  <2>2. CASE t.remaining # 0
    BY <2>2, <1>2, <1>3, <1>4, <1>5, <1>6, NoOrderFacts, ZenonT(40)
  <2> QED BY <2>1, <2>2, Zenon
<1>9. Sound(tally') /\ cached' \in [Property -> Amount]
  BY <1>1, Zenon DEF FillRule
<1>10. ReserveBacked'
  <2> SUFFICES ASSUME NEW x \in Addr, NEW r \in Property
               PROVE  tally'[x][r]["METADEX_RESERVE"] = Remaining(Open, x, r)'
    BY Zenon DEF ReserveBacked
  <2>1. Remaining(Open, x, r)' = Rem(book', x, r)
    BY <1>8, RemainingOpenNext, Zenon
  <2>2. Rem(B, x, r) = Rem(book, x, r) + (RemTerms(B, x, r)[i] - RemTerms(book, x, r)[i])
    <3>1. RemShift(book, B, i, x, r)
      BY <1>2, <1>4, RemChange, Zenon
    <3> QED BY <3>1, Zenon DEF RemShift
  <2>3. \A j \in OrderId : RemTerms(book', x, r)[j] = RemTerms(B, x, r)[j]
    <3> SUFFICES ASSUME NEW j \in OrderId PROVE RemTerms(book', x, r)[j] = RemTerms(B, x, r)[j]
      OBVIOUS
    <3>1. CASE j = next
      <4>1. B[next].remaining = 0
        BY <1>2, <1>5, <1>6, NoOrderFacts, Zenon
      <4> QED BY <3>1, <4>1, <1>8, Zenon DEF RemTerms
    <3>2. CASE j # next
      <4>1. book'[j] = B[j]
        BY <3>2, <1>2, <1>8, Zenon
      <4> QED BY <4>1, Zenon DEF RemTerms
    <3> QED BY <3>1, <3>2
  <2>4. Rem(book', x, r) = Rem(B, x, r)
    BY <2>3, OrderIds, SumEqual DEF Rem
  <2>5. /\ RemTerms(book, x, r)[i] = IF book[i].addr = x /\ book[i].prop = r THEN book[i].remaining ELSE 0
        /\ RemTerms(B, x, r)[i] = IF book[i].addr = x /\ book[i].prop = r THEN book[i].remaining - n ELSE 0
    BY <1>2, <1>4, Zenon DEF RemTerms
  <2>6. tally[x][r]["METADEX_RESERVE"] = Rem(book, x, r) /\ Rem(book, x, r) \in Nat
    BY <1>4, RemainingOpen, RemTermsNat, Zenon DEF IInv, ReserveBacked
  <2>7. tally'[x][r]["METADEX_RESERVE"]
          = tally[x][r]["METADEX_RESERVE"] - (IF x = book[i].addr /\ r = book[i].prop THEN n ELSE 0)
    BY <1>1, Zenon DEF FillRule
  <2>8. CASE x = book[i].addr /\ r = book[i].prop
    <3>1. RemTerms(book, x, r)[i] = book[i].remaining /\ RemTerms(B, x, r)[i] = book[i].remaining - n
      BY <2>5, <2>8, Zenon
    <3>2. tally'[x][r]["METADEX_RESERVE"] = tally[x][r]["METADEX_RESERVE"] - n
      BY <2>7, <2>8, Zenon
    <3>3. n \in Nat
      BY <1>1, Zenon
    <3>4. \A k \in Nat, m \in Nat : k + ((m - n) - m) = k - n
      BY <3>3
    <3> QED BY <3>1, <3>2, <3>4, <2>1, <2>2, <2>4, <2>6, <1>4, Zenon
  <2>9. CASE ~ (x = book[i].addr /\ r = book[i].prop)
    <3>1. RemTerms(book, x, r)[i] = 0 /\ RemTerms(B, x, r)[i] = 0
      BY <2>5, <2>9, Zenon
    <3>2. tally'[x][r]["METADEX_RESERVE"] = tally[x][r]["METADEX_RESERVE"] - 0
      BY <2>7, <2>9, Zenon
    <3>3. \A k \in Nat : k + (0 - 0) = k - 0
      OBVIOUS
    <3> QED BY <3>1, <3>2, <3>3, <2>1, <2>2, <2>4, <2>6, Zenon
  <2> QED BY <2>8, <2>9, Zenon
<1>11. Open' \subseteq Open /\ Open \ {i} \subseteq Open' /\ \A j \in Open' : j # next
       /\ book'[j].prop = book[j].prop /\ book'[j].des = book[j].des
  <2>1. \A j \in Open' : j \in OrderId /\ j # next
    BY <1>8 DEF Open
  <2>2. \A j \in Open' : j # i => book'[j] = book[j] /\ j \in Open
    BY <2>1, <1>8, Zenon DEF Open
  <2>3. book'[i].prop = book[i].prop /\ book'[i].des = book[i].des
    BY <1>2, <1>8, Zenon
  <2>4. ASSUME NEW j \in Open \ {i} PROVE j \in Open'
    <3>1. j # next
      BY <1>6, NoOrderFacts DEF Open
    <3> QED BY <3>1, <1>8, Zenon DEF Open
  <2> QED BY <2>1, <2>2, <2>3, <2>4, <1>4, Zenon
<1>12. AssertsHold'
  <2>1. /\ taker' \in Order /\ next' \in 1..(MaxOrders + 1) /\ todo' \subseteq Open'
    <3>1. todo \subseteq Open
      BY DEF IInv, AssertsHold, TypeOK
    <3>2. todo' \subseteq Open'
      BY <3>1, <1>3, <1>11, Zenon
    <3>3. taker' \in Order /\ next' \in 1..(MaxOrders + 1)
      <4>1. /\ taker' = NoOrder \/ taker' = t
            /\ next' = next + 1 \/ next' = next
        BY <1>3, Zenon
      <4>2. next \in 1..(MaxOrders + 1) /\ next + 1 \in 1..(MaxOrders + 1)
        BY <1>5, NextId, Zenon
      <4> QED BY <4>1, <4>2, <1>7, NoOrderFacts, Zenon
    <3> QED BY <3>2, <3>3, Zenon
  <2>2. allPairs' \in BOOLEAN /\ trading' \in BOOLEAN /\ scanning' \in BOOLEAN
    BY <1>1, Zenon DEF IInv, AssertsHold, TypeOK
  <2> QED BY <1>1, <1>8, <1>9, <2>1, <2>2, Zenon DEF AssertsHold, TypeOK, Sound
<1>13. SupplyConserved'
  BY <1>1, Zenon DEF IInv, SupplyConserved, FillRule
<1>14. FeesCharged'
  BY <1>1, Zenon DEF IInv, FeesCharged
<1>15. Orders'
  <2> SUFFICES ASSUME NEW j \in OrderId
               PROVE  /\ book'[j] = NoOrder \/ GoodOrder(book'[j])
                      /\ j >= next' => book'[j] = NoOrder
                      /\ GotPrice(book'[j])
    BY Zenon DEF Orders, GotPrice, GoodOrder
  <2>0. next' >= next /\ next \in Nat /\ next' \in Nat /\ j \in Nat /\ i < next
    <3>1. next \in Nat /\ j \in Nat /\ i \in Nat
      BY <1>4, <1>5, OrderIds
    <3>2. ~ (i >= next)
      BY <1>4, NoOrderFacts DEF IInv, Orders, Open
    <3> QED BY <3>1, <3>2, <1>3
  <2>1. CASE j = i
    <3>1. ~ (i >= next')
      BY <2>0, <1>4, OrderIds
    <3> QED BY <3>1, <2>1, <1>2, <1>8, Zenon
  <2>2. CASE j = next
    <3>1. next' = next + 1 => ~ (next >= next')
      BY <2>0
    <3> QED BY <3>1, <2>2, <1>2, <1>8, NoOrderFacts, Zenon
  <2>3. CASE j # i /\ j # next
    BY <2>0, <2>3, <1>8 DEF IInv, Orders
  <2> QED BY <2>1, <2>2, <2>3
<1>16. LoopState'
  <2>1. ~ scanning'
    BY <1>1a, <1>5, Zenon
  <2>2. taker' = NoOrder => todo' = {}
    BY <1>3, NoOrderFacts
  <2> QED BY <2>1, <2>2 DEF LoopState
<1>17. ClosedMarketsEmpty'
  BY <1>1a, <1>11, Zenon DEF IInv, ClosedMarketsEmpty
<1>18. TakerCovered'
  <2>1. CASE t.remaining = 0
    BY <2>1, <1>3, Zenon DEF TakerCovered
  <2>2. CASE t.remaining # 0
    <3>1. taker' = t /\ todo' = todo \ {i} /\ next' = next
      BY <2>2, <1>3
    <3>2. GoodOrder(taker)' /\ GotPrice(taker)'
      <4>1. GoodOrder(t) /\ GotPrice(t)
        BY <1>2, Zenon
      <4> QED BY <4>1, <3>1, Zenon DEF GoodOrder, GotPrice
    <3>3. MarketOpen(taker)'
      <4>1. t.prop = taker.prop /\ t.des = taker.des
        BY <1>2, Zenon
      <4> QED BY <4>1, <3>1, <1>1a, <1>5, Zenon DEF MarketOpen, Allowed
    <3>4. 0 < t.remaining /\ t.remaining <= tally'[t.addr][t.prop]["BALANCE"]
      <4>1. tally'[taker.addr][taker.prop]["BALANCE"] >= tally[taker.addr][taker.prop]["BALANCE"] - paid
        BY <1>1, Zenon DEF FillRule
      <4>2. taker.addr \in Addr /\ taker.prop \in Property
        BY <1>5, Zenon DEF GoodOrder
      <4>3. tally[taker.addr][taker.prop]["BALANCE"] \in Nat /\ tally'[taker.addr][taker.prop]["BALANCE"] \in Nat
        BY <4>2, <1>9, InvFacts, RecordNat, HeldTallyTypes, Zenon
      <4>4. t.addr = taker.addr /\ t.prop = taker.prop /\ t.remaining = taker.remaining - paid
        BY <1>2, Zenon
      <4>5. taker.remaining <= tally[taker.addr][taker.prop]["BALANCE"]
        BY <1>5, Zenon
      <4>6. \A v, w \in Nat : w >= v - paid /\ taker.remaining <= v => taker.remaining - paid <= w
        <5>1. paid \in Nat /\ taker.remaining \in Nat
          BY <1>1, <1>4, Zenon
        <5> QED BY <5>1
      <4>7. 0 < t.remaining
        BY <2>2, <1>7
      <4> QED BY <4>1, <4>3, <4>4, <4>5, <4>6, <4>7, Zenon
    <3>5. \A j \in todo' : book'[j].prop = taker'.des /\ book'[j].des = taker'.prop
      <4>1. \A j \in todo : book[j].prop = taker.des /\ book[j].des = taker.prop
        BY <1>5, Zenon
      <4>2. todo' \subseteq Open'
        BY <1>12 DEF AssertsHold, TypeOK
      <4>3. t.prop = taker.prop /\ t.des = taker.des
        BY <1>2, Zenon
      <4> QED BY <4>1, <4>2, <4>3, <3>1, <1>11, Zenon
    <3>6. next' \in OrderId /\ ~ scanning'
      BY <3>1, <1>1a, <1>5, Zenon
    <3> QED BY <3>1, <3>2, <3>3, <3>4, <3>5, <3>6, Zenon DEF TakerCovered
  <2> QED BY <2>1, <2>2
<1> QED BY <1>10, <1>12, <1>13, <1>14, <1>15, <1>16, <1>17, <1>18 DEF IInv
LEMMA InitHolds ==
  ASSUME Init
  PROVE  IInv
<1>1. /\ tally = [a \in Addr |-> [p \in Property |-> [t \in TallyType |->
                    IF t = "BALANCE" THEN InitBalance[a][p] ELSE 0]]]
      /\ book = [i \in OrderId |-> NoOrder] /\ taker = NoOrder /\ todo = {} /\ next = 1
      /\ cached = [p \in Property |-> 0]
      /\ allPairs = TRUE /\ trading = TRUE /\ scanning = FALSE /\ alive = TRUE
  BY DEF Init
<1>2. \A a \in Addr, p \in Property : InitBalance[a][p] \in Amount
  BY MetaDExAssumption
<1>3. \A a \in Addr, p \in Property, t \in TallyType :
        tally[a][p][t] = (IF t = "BALANCE" THEN InitBalance[a][p] ELSE 0)
  BY <1>1, Zenon
<1>4. 0 \in Int64 /\ 0 \in Amount /\ Amount \subseteq Int64 /\ Amount \subseteq Nat
  BY TallyAssumption DEF Int64, MinInt, Amount
<1>5. Sound(tally)
  <2>1. tally \in Ledger
    BY <1>1, <1>2, <1>4, Zenon DEF Ledger
  <2>2. NonNegative(tally)
    <3> SUFFICES ASSUME NEW a \in Addr, NEW p \in Property, NEW t \in TallyType PROVE tally[a][p][t] >= 0
      BY Zenon DEF NonNegative
    <3>1. InitBalance[a][p] \in Nat
      BY <1>2, <1>4, Zenon
    <3>2. InitBalance[a][p] >= 0 /\ 0 >= 0
      BY <3>1
    <3> QED BY <3>2, <1>3, Zenon
  <2> QED BY <2>1, <2>2 DEF Sound
<1>6. \A i \in OrderId : book[i] = NoOrder
  BY <1>1, Zenon
<1>7. book \in [OrderId -> Order] /\ Open = {}
  <2>1. book \in [OrderId -> Order]
    BY <1>1, NoOrderFacts, Zenon
  <2>2. Open = {}
    <3>1. ~ (0 > 0)
      OBVIOUS
    <3> QED BY <3>1, <1>6, NoOrderFacts, Zenon DEF Open
  <2> QED BY <2>1, <2>2
<1>8. AssertsHold
  <2>1. next \in 1..(MaxOrders + 1) /\ cached \in [Property -> Amount]
    BY <1>1, <1>4, OrderIds
  <2>2. taker \in Order /\ todo \subseteq Open
    BY <1>1, NoOrderFacts, Zenon
  <2> QED BY <1>1, <1>5, <1>7, <2>1, <2>2, Zenon DEF AssertsHold, TypeOK, Sound
<1>9. SupplyConserved
  <2> SUFFICES ASSUME NEW p \in Property PROVE getTotalTokens(tally, p) + cached[p] = Supply(p)
    BY DEF SupplyConserved
  <2> DEFINE f == [a \in Addr |-> Holding(tally, a, p)]
             g == [a \in Addr |-> InitBalance[a][p]]
  <2>1. ASSUME NEW a \in Addr PROVE Holding(tally, a, p) = InitBalance[a][p] /\ InitBalance[a][p] \in Int
    <3>1. /\ tally[a][p]["BALANCE"] = InitBalance[a][p] /\ tally[a][p]["SELLOFFER_RESERVE"] = 0
          /\ tally[a][p]["ACCEPT_RESERVE"] = 0 /\ tally[a][p]["METADEX_RESERVE"] = 0
      BY <1>3, HeldTallyTypes, Zenon
    <3>2. InitBalance[a][p] \in Nat
      BY <1>2, <1>4, Zenon
    <3> QED BY <3>1, <3>2 DEF Holding
  <2>2. \A a \in Addr : f[a] = g[a] /\ g[a] \in Int
    BY <2>1
  <2>3. getTotalTokens(tally, p) = SumUpTo(f, NumAddr) /\ Supply(p) = SumUpTo(g, NumAddr)
    BY DEF getTotalTokens, Supply
  <2> HIDE DEF f, g
  <2>4. SumUpTo(f, NumAddr) = SumUpTo(g, NumAddr) /\ SumUpTo(g, NumAddr) \in Int
    BY <2>2, AddrFacts, SumEqual, SumInt
  <2>5. cached[p] = 0
    BY <1>1
  <2> QED BY <2>3, <2>4, <2>5
<1>10. ReserveBacked
  <2> SUFFICES ASSUME NEW a \in Addr, NEW p \in Property
               PROVE  tally[a][p]["METADEX_RESERVE"] = Remaining(Open, a, p)
    BY DEF ReserveBacked
  <2>1. \A i \in OrderId : RemTerms(book, a, p)[i] = 0
    BY <1>6, NoOrderFacts DEF RemTerms
  <2>2. Rem(book, a, p) = 0
    BY <2>1, OrderIds, SumOfZeros DEF Rem
  <2>3. tally[a][p]["METADEX_RESERVE"] = 0
    BY <1>3, HeldTallyTypes, Zenon
  <2> QED BY <2>2, <2>3, <1>7, RemainingOpen, Zenon
<1>11. ClosedMarketsEmpty /\ TakerCovered /\ LoopState
  BY <1>1, <1>7, Zenon DEF ClosedMarketsEmpty, TakerCovered, LoopState
<1>12. Orders
  BY <1>6, NoOrderFacts, Zenon DEF Orders
<1>13. FeesCharged
  BY <1>1, Zenon DEF FeesCharged
<1> QED BY <1>8, <1>9, <1>10, <1>11, <1>12, <1>13 DEF IInv

LEMMA NextHolds ==
  ASSUME FeesHaveOwners, IInv, [Next]_vars
  PROVE  IInv'
<1>1. CASE Visit
  <2>1. PICK i \in OrderId : taker # NoOrder /\ IsNext(i) /\ (Skip(i) \/ Fill(i))
    BY <1>1 DEF Visit
  <2>2. i \in todo
    BY <2>1 DEF IsNext
  <2>3. CASE Skip(i)
    BY <2>1, <2>2, <2>3, SkipHolds
  <2>4. CASE Fill(i)
    BY <2>1, <2>2, <2>4, FillHolds
  <2> QED BY <2>1, <2>3, <2>4
<1>2. CASE Insert
  BY <1>2, InsertHolds
<1>3. ASSUME NEW r \in Trades,
             \/ \E n, d \in Amounts : \/ MetaDExTrade(r[1], r[2], n, r[3], d)
                                      \/ MetaDExCancelPrice(r[1], r[2], n, r[3], d)
             \/ MetaDExCancelPair(r[1], r[2], r[3])
      PROVE  IInv'
  <2>1. r[1] \in Addr /\ r[2] \in Property /\ r[3] \in Property /\ Amounts \subseteq Amount
    BY MetaDExAssumption
  <2>2. ASSUME NEW n \in Amounts, NEW d \in Amounts, MetaDExTrade(r[1], r[2], n, r[3], d)
        PROVE  IInv'
    BY <2>1, <2>2, MetaDExTradeHolds
  <2>3. ASSUME NEW n \in Amounts, NEW d \in Amounts, MetaDExCancelPrice(r[1], r[2], n, r[3], d)
        PROVE  IInv'
    <3> DEFINE R == {i \in OwnOrders(r[1], r[2]) : book[i].des = r[3] /\ book[i].desired * n = d * book[i].forsale}
    <3>1. Idle /\ Remove(R) /\ UNCHANGED <<taker, todo, next, cached, allPairs, trading, scanning>>
      BY <2>3, Zenon DEF MetaDExCancelPrice
    <3>2. R \subseteq Open
      BY DEF OwnOrders
    <3> HIDE DEF R
    <3> QED BY <3>1, <3>2, CancelHolds
  <2>4. CASE MetaDExCancelPair(r[1], r[2], r[3])
    <3> DEFINE R == {i \in OwnOrders(r[1], r[2]) : book[i].des = r[3]}
    <3>1. Idle /\ Remove(R) /\ UNCHANGED <<taker, todo, next, cached, allPairs, trading, scanning>>
      BY <2>4, Zenon DEF MetaDExCancelPair
    <3>2. R \subseteq Open
      BY Zenon DEF OwnOrders
    <3> HIDE DEF R
    <3> QED BY <3>1, <3>2, CancelHolds
  <2> QED BY <1>3, <2>2, <2>3, <2>4
<1>4. ASSUME NEW s \in Addr, NEW e \in {MSC, TMSC} \cap Property, MetaDExCancelEcosystem(s, e)
      PROVE  IInv'
  <2> DEFINE R == UNION {OwnOrders(s, p) : p \in {p \in Property : SameEcosystem(p, e)}}
  <2>1. Idle /\ Remove(R) /\ UNCHANGED <<taker, todo, next, cached, allPairs, trading, scanning>>
    BY <1>4, Zenon DEF MetaDExCancelEcosystem
  <2>2. R \subseteq Open
    BY DEF OwnOrders
  <2> HIDE DEF R
  <2> QED BY <2>1, <2>2, CancelHolds, Zenon
<1>5. CASE DeactivateMetaDEx
  BY <1>5, DeactivateMetaDExHolds
<1>6. CASE DeactivateAllPairs
  BY <1>6, DeactivateAllPairsHolds
<1>7. CASE Scan
  BY <1>7, ScanHolds
<1>8. CASE ScanDone
  BY <1>8, ScanDoneHolds
<1>9. CASE UNCHANGED vars
  <2>1. UNCHANGED <<tally, book, taker, todo, next, cached, allPairs, trading, scanning, alive>>
    BY <1>9 DEF vars
  <2>2. Open' = Open
    BY <2>1, Zenon DEF Open
  <2>3. LoopState' /\ ClosedMarketsEmpty'
    BY <2>1, <2>2, Zenon DEF IInv, LoopState, ClosedMarketsEmpty
  <2>4. TakerCovered'
    BY <2>1, Zenon DEF IInv, TakerCovered, GoodOrder, GotPrice, MarketOpen, Allowed
  <2>5. todo' \subseteq Open /\ taker' \in Order /\ allPairs' \in BOOLEAN /\ scanning' \in BOOLEAN
    BY <2>1, Zenon DEF IInv, AssertsHold, TypeOK
  <2> QED BY <2>1, <2>3, <2>4, <2>5, SameBookHolds, Zenon
<1> QED BY <1>1, <1>2, <1>3, <1>4, <1>5, <1>6, <1>7, <1>8, <1>9, Zenon DEF Next

LEMMA Invariance ==
  ASSUME FeesHaveOwners
  PROVE  Spec => []IInv
<1>1. Init => IInv
  BY InitHolds
<1>2. IInv /\ [Next]_vars => IInv'
  BY NextHolds
<1> QED BY <1>1, <1>2, PTL DEF Spec

(***************************************************************************)
(* No assert of the exchange fails and no amount overflows, in any order   *)
(* of trades, cancellations and shutdowns: neither in x_Trade, nor in the  *)
(* fee distribution it triggers, nor when orders are removed.              *)
(***************************************************************************)
THEOREM MetaDExAssertsHold ==
  ASSUME FeesHaveOwners
  PROVE  Spec => []AssertsHold
<1>1. IInv => AssertsHold
  BY DEF IInv
<1> QED BY <1>1, Invariance, PTL

\* No token appears or disappears in fills, fees, cancellations and shutdowns.
THEOREM MetaDExSupplyConserved ==
  ASSUME FeesHaveOwners
  PROVE  Spec => []SupplyConserved
<1>1. IInv => SupplyConserved
  BY DEF IInv
<1> QED BY <1>1, Invariance, PTL

\* METADEX_RESERVE is always what the open orders of the address have left.
THEOREM MetaDExReserveBacked ==
  ASSUME FeesHaveOwners
  PROVE  Spec => []ReserveBacked
<1>1. IInv => ReserveBacked
  BY DEF IInv
<1> QED BY <1>1, Invariance, PTL

\* Every order, as maker and as taker, gets at least its price in all its
\* fills, however these are rounded.
THEOREM MetaDExLimitKept ==
  ASSUME FeesHaveOwners
  PROVE  Spec => []LimitKept
<1>1. IInv => LimitKept
  <2> SUFFICES ASSUME IInv PROVE LimitKept
    OBVIOUS
  <2>1. \A i \in OrderId : GotPrice(book[i])
    BY Zenon DEF IInv, Orders
  <2>2. GotPrice(taker)
    BY NoOrderFacts, Zenon DEF IInv, TakerCovered
  <2> QED BY <2>1, <2>2, Zenon DEF LimitKept, GotPrice
<1> QED BY <1>1, Invariance, PTL

\* No open order is left in a market that was deactivated.
THEOREM MetaDExClosedMarketsEmpty ==
  ASSUME FeesHaveOwners
  PROVE  Spec => []ClosedMarketsEmpty
<1>1. IInv => ClosedMarketsEmpty
  BY DEF IInv
<1> QED BY <1>1, Invariance, PTL
==============================================================================
