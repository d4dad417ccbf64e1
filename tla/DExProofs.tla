------------------------------ MODULE DExProofs ------------------------------
(***************************************************************************)
(* Proofs about DEx, second part: the end of a block preserves the inductive *)
(* invariant; the theorems; and what a step of the exchange may do.        *)
(***************************************************************************)
EXTENDS DExOfferProofs

\* What expires is moved within the seller's own records.
LEMMA ReturnedInt ==
  ASSUME IInv, NEW s \in Addr, NEW p \in Property
  PROVE  ReturnedToOffer(s, p) \in Int /\ ReturnedToSeller(s, p) \in Int
<1> DEFINE f == [b \in Addr |-> ToOffer(accepts[s][p][b], offers[s][p])]
           g == [b \in Addr |-> ToSeller(accepts[s][p][b], offers[s][p])]
<1>1. \A b \in Addr : accepts[s][p][b].remaining \in Int
  BY DEF IInv, TypeOK, Accept
<1>2. \A b \in Addr : f[b] \in Int
  BY <1>1 DEF ToOffer
<1>3. \A b \in Addr : g[b] \in Int
  BY <1>1 DEF ToSeller
<1> HIDE DEF f, g
<1>4. SumUpTo(f, NumAddr) \in Int
  BY <1>2, SumInt, TallyAssumption DEF Addr
<1>5. SumUpTo(g, NumAddr) \in Int
  BY <1>3, SumInt, TallyAssumption DEF Addr
<1> QED BY <1>4, <1>5 DEF ReturnedToOffer, ReturnedToSeller, f, g

\* The records after expiry.
LEMMA AfterExpiryValue ==
  ASSUME NEW s \in Addr, NEW p \in Property, NEW t \in TallyType
  PROVE  AfterExpiry[s][p][t] =
           IF t = "ACCEPT_RESERVE" THEN tally[s][p][t] - ReturnedToOffer(s, p) - ReturnedToSeller(s, p)
           ELSE IF t = "SELLOFFER_RESERVE" THEN tally[s][p][t] + ReturnedToOffer(s, p)
           ELSE IF t = "BALANCE" THEN tally[s][p][t] + ReturnedToSeller(s, p)
           ELSE tally[s][p][t]
BY DEF AfterExpiry

\* The arithmetic of a holding after expiry.
LEMMA Regrouped ==
  ASSUME NEW i \in Int, NEW j \in Int, NEW k \in Int, NEW l \in Int, NEW m \in Int, NEW n \in Int
  PROVE  i + j + k + l = (i + n) + (j + m) + (k - m - n) + l
OBVIOUS

\* Expiry changes no holding.
LEMMA AfterExpiryHolding ==
  ASSUME IInv, NEW x \in Addr, NEW q \in Property
  PROVE  Holding(AfterExpiry, x, q) = Holding(tally, x, q)
<1>1. \A v \in HeldTypes : tally[x][q][v] \in Nat
  BY SupplyBound, RecordNat
<1>2. ReturnedToOffer(x, q) \in Int /\ ReturnedToSeller(x, q) \in Int
  BY ReturnedInt
<1>3. /\ AfterExpiry[x][q]["ACCEPT_RESERVE"] =
           tally[x][q]["ACCEPT_RESERVE"] - ReturnedToOffer(x, q) - ReturnedToSeller(x, q)
      /\ AfterExpiry[x][q]["SELLOFFER_RESERVE"] = tally[x][q]["SELLOFFER_RESERVE"] + ReturnedToOffer(x, q)
      /\ AfterExpiry[x][q]["BALANCE"] = tally[x][q]["BALANCE"] + ReturnedToSeller(x, q)
      /\ AfterExpiry[x][q]["METADEX_RESERVE"] = tally[x][q]["METADEX_RESERVE"]
  BY AfterExpiryValue, HeldTallyTypes
<1>4. /\ tally[x][q]["BALANCE"] \in Nat /\ tally[x][q]["SELLOFFER_RESERVE"] \in Nat
      /\ tally[x][q]["ACCEPT_RESERVE"] \in Nat /\ tally[x][q]["METADEX_RESERVE"] \in Nat
  BY <1>1, HeldTallyTypes
<1>5. /\ tally[x][q]["BALANCE"] \in Int /\ tally[x][q]["SELLOFFER_RESERVE"] \in Int
      /\ tally[x][q]["ACCEPT_RESERVE"] \in Int /\ tally[x][q]["METADEX_RESERVE"] \in Int
  BY <1>4
<1>6. Holding(tally, x, q) = (tally[x][q]["BALANCE"] + ReturnedToSeller(x, q))
        + (tally[x][q]["SELLOFFER_RESERVE"] + ReturnedToOffer(x, q))
        + (tally[x][q]["ACCEPT_RESERVE"] - ReturnedToOffer(x, q) - ReturnedToSeller(x, q))
        + tally[x][q]["METADEX_RESERVE"]
  <2> DEFINE i == tally[x][q]["BALANCE"]
             j == tally[x][q]["SELLOFFER_RESERVE"]
             k == tally[x][q]["ACCEPT_RESERVE"]
             l == tally[x][q]["METADEX_RESERVE"]
             m == ReturnedToOffer(x, q)
             n == ReturnedToSeller(x, q)
  <2>1. Holding(tally, x, q) = i + j + k + l
    BY Zenon DEF Holding
  <2>2. i \in Int /\ j \in Int /\ k \in Int /\ l \in Int /\ m \in Int /\ n \in Int
    BY <1>2, <1>5, Zenon
  <2> HIDE DEF i, j, k, l, m, n
  <2>3. i + j + k + l = (i + n) + (j + m) + (k - m - n) + l
    BY <2>2, Regrouped
  <2> QED BY <2>1, <2>3, Zenon DEF i, j, k, l, m, n
<1> QED BY <1>3, <1>6, Zenon DEF Holding

\* Expiry changes no total.
LEMMA AfterExpiryTotals ==
  ASSUME IInv
  PROVE  SameTotals(tally, AfterExpiry)
<1>1. \A x \in Addr, q \in Property : Holding(AfterExpiry, x, q) = Holding(tally, x, q)
  BY AfterExpiryHolding
<1>2. ASSUME NEW q \in Property
      PROVE  getTotalTokens(AfterExpiry, q) = getTotalTokens(tally, q)
  <2>1. [x \in Addr |-> Holding(AfterExpiry, x, q)] = [x \in Addr |-> Holding(tally, x, q)]
    BY <1>1
  <2> QED BY <2>1 DEF getTotalTokens
<1> QED BY <1>2 DEF SameTotals

\* One accept at the end of a block: a becomes a1.
OpenOrEmpty(a) == a.remaining \in Nat /\ IF a.txid # 0 THEN a.remaining > 0 ELSE a.remaining = 0

SplitByExpiry(a, a1, o) ==
  /\ ToOffer(a, o) \in Nat /\ ToSeller(a, o) \in Nat /\ a1.remaining \in Nat
  /\ a.remaining = (ToOffer(a, o) + ToSeller(a, o)) + a1.remaining
  /\ o.txid # 0 => /\ FromOffer(a, o) = ToOffer(a, o) + FromOffer(a1, o)
                   /\ FromOffer(a1, o) \in Nat
  /\ o.txid = 0 => ToOffer(a, o) = 0

\* What an accept holds is returned to the offer, returned to the seller, or still held.
LEMMA ExpiredPart ==
  ASSUME NEW a, NEW a1, NEW o, OpenOrEmpty(a), a1 = IF Expired(a) THEN NoAccept ELSE a
  PROVE  SplitByExpiry(a, a1, o)
<1> USE DEF OpenOrEmpty, SplitByExpiry
<1>1. CASE Expired(a)
  <2>1. a.txid # 0 /\ a.remaining > 0
    BY <1>1 DEF Expired
  <2>2. a1.remaining = 0 /\ a1.txid = 0
    BY <1>1 DEF NoAccept
  <2>3. CASE a.txid = o.txid
    <3>1. ToOffer(a, o) = a.remaining /\ ToSeller(a, o) = 0
      BY <1>1, <2>1, <2>3 DEF ToOffer, ToSeller, MadeFor
    <3>2. FromOffer(a, o) = a.remaining /\ FromOffer(a1, o) = 0 /\ o.txid # 0
      BY <2>1, <2>2, <2>3 DEF FromOffer
    <3> QED BY <2>2, <3>1, <3>2
  <2>4. CASE a.txid # o.txid
    <3>1. ToOffer(a, o) = 0 /\ ToSeller(a, o) = a.remaining
      BY <1>1, <2>1, <2>4 DEF ToOffer, ToSeller, MadeFor
    <3>2. FromOffer(a, o) = 0 /\ FromOffer(a1, o) = 0
      BY <2>2, <2>4 DEF FromOffer
    <3> QED BY <2>2, <3>1, <3>2
  <2> QED BY <2>3, <2>4
<1>2. CASE ~ Expired(a)
  <2>1. ToOffer(a, o) = 0 /\ ToSeller(a, o) = 0
    BY <1>2 DEF ToOffer, ToSeller, MadeFor
  <2>2. FromOffer(a, o) \in Nat /\ a1 = a
    BY <1>2 DEF FromOffer
  <2> QED BY <2>1, <2>2
<1> QED BY <1>1, <1>2

\* The accepts before a block's end are those after it and what was returned.
LEMMA ExpirySplit ==
  ASSUME IInv, ~ outOfRange, NEW s \in Addr, NEW p \in Property,
         UNCHANGED offers,
         accepts' = [x \in Addr |-> [q \in Property |-> [b \in Addr |->
                       IF Expired(accepts[x][q][b]) THEN NoAccept ELSE accepts[x][q][b]]]]
  PROVE  /\ Accepted(s, p) = ReturnedToOffer(s, p) + ReturnedToSeller(s, p) + Accepted(s, p)'
         /\ ReturnedToOffer(s, p) \in Nat /\ ReturnedToSeller(s, p) \in Nat
         /\ Accepted(s, p)' \in Nat
         /\ DEx_offerExists(s, p) =>
              /\ AcceptedFromOffer(s, p) = ReturnedToOffer(s, p) + AcceptedFromOffer(s, p)'
              /\ AcceptedFromOffer(s, p)' \in Int
         /\ ~ DEx_offerExists(s, p) => ReturnedToOffer(s, p) = 0
<1> DEFINE o  == offers[s][p]
           A(b) == accepts[s][p][b]
           B(b) == accepts'[s][p][b]
           r1 == [b \in Addr |-> ToOffer(accepts[s][p][b], offers[s][p])]
           r2 == [b \in Addr |-> ToSeller(accepts[s][p][b], offers[s][p])]
           r  == [b \in Addr |-> r1[b] + r2[b]]
           f  == [b \in Addr |-> accepts[s][p][b].remaining]
           g  == [b \in Addr |-> accepts'[s][p][b].remaining]
           u  == [b \in Addr |-> FromOffer(accepts[s][p][b], offers[s][p])]
           v  == [b \in Addr |-> FromOffer(accepts'[s][p][b], offers[s][p])]
<1>1. \A b \in Addr : /\ A(b).remaining \in Nat
                      /\ IF A(b).txid # 0 THEN A(b).remaining > 0 ELSE A(b).remaining = 0
  BY AcceptsBounded, Zenon DEF IInv, OpenAcceptHolds, DEx_acceptExists
<1>2. \A b \in Addr : B(b) = IF Expired(A(b)) THEN NoAccept ELSE A(b)
  OBVIOUS
<1> HIDE DEF A, B
<1>4. \A b \in Addr : /\ r1[b] = ToOffer(A(b), o) /\ r2[b] = ToSeller(A(b), o)
                      /\ r[b] = r1[b] + r2[b]
                      /\ f[b] = A(b).remaining /\ g[b] = B(b).remaining
                      /\ u[b] = FromOffer(A(b), o) /\ v[b] = FromOffer(B(b), o)
  BY DEF A, B
<1>5. /\ ReturnedToOffer(s, p) = SumUpTo(r1, NumAddr) /\ ReturnedToSeller(s, p) = SumUpTo(r2, NumAddr)
      /\ Accepted(s, p) = SumUpTo(f, NumAddr) /\ Accepted(s, p)' = SumUpTo(g, NumAddr)
      /\ AcceptedFromOffer(s, p) = SumUpTo(u, NumAddr) /\ AcceptedFromOffer(s, p)' = SumUpTo(v, NumAddr)
  BY DEF ReturnedToOffer, ReturnedToSeller, Accepted, AcceptedFromOffer
<1> HIDE DEF r1, r2, r, f, g, u, v, o
<1>6. NumAddr \in Nat /\ Addr = 1..NumAddr
  BY TallyAssumption DEF Addr
<1>7. \A b \in Addr : /\ r1[b] \in Nat /\ r2[b] \in Nat /\ g[b] \in Nat
                      /\ f[b] = (r1[b] + r2[b]) + g[b]
                      /\ o.txid # 0 => u[b] = r1[b] + v[b] /\ v[b] \in Nat
                      /\ o.txid = 0 => r1[b] = 0
  <2> TAKE b \in Addr
  <2>1. SplitByExpiry(A(b), B(b), o)
    BY <1>1, <1>2, ExpiredPart, Zenon DEF OpenOrEmpty
  <2>2. /\ r1[b] = ToOffer(A(b), o) /\ r2[b] = ToSeller(A(b), o)
        /\ f[b] = A(b).remaining /\ g[b] = B(b).remaining
        /\ u[b] = FromOffer(A(b), o) /\ v[b] = FromOffer(B(b), o)
    BY <1>4
  <2> QED BY <2>1, <2>2, Zenon DEF SplitByExpiry
<1>8. /\ SumUpTo(r, NumAddr) = SumUpTo(r1, NumAddr) + SumUpTo(r2, NumAddr)
      /\ SumUpTo(f, NumAddr) = SumUpTo(r, NumAddr) + SumUpTo(g, NumAddr)
  <2>1. \A b \in 1..NumAddr : r1[b] \in Int /\ r2[b] \in Int
    <3> TAKE b \in 1..NumAddr
    <3>1. r1[b] \in Nat /\ r2[b] \in Nat
      BY <1>6, <1>7
    <3> QED BY <3>1
  <2>2. \A b \in 1..NumAddr : r[b] = r1[b] + r2[b]
    BY <1>4, <1>6
  <2>3. \A b \in 1..NumAddr : r[b] \in Int /\ g[b] \in Int /\ f[b] = r[b] + g[b]
    <3> TAKE b \in 1..NumAddr
    <3>1. r1[b] \in Nat /\ r2[b] \in Nat /\ g[b] \in Nat /\ f[b] = (r1[b] + r2[b]) + g[b]
      BY <1>6, <1>7
    <3> QED BY SMTT(60), <2>2, <3>1
  <2>4. SumUpTo(r, NumAddr) = SumUpTo(r1, NumAddr) + SumUpTo(r2, NumAddr)
    BY <1>6, <2>1, <2>2, SumAdd
  <2>5. SumUpTo(f, NumAddr) = SumUpTo(r, NumAddr) + SumUpTo(g, NumAddr)
    BY <1>6, <2>3, SumAdd, Zenon
  <2> QED BY <2>4, <2>5
<1>9. SumUpTo(r1, NumAddr) \in Nat /\ SumUpTo(r2, NumAddr) \in Nat /\ SumUpTo(g, NumAddr) \in Nat
  <2>1. \A b \in 1..NumAddr : r1[b] \in Nat
    BY <1>6, <1>7
  <2>2. \A b \in 1..NumAddr : r2[b] \in Nat
    BY <1>6, <1>7
  <2>3. \A b \in 1..NumAddr : g[b] \in Nat
    BY <1>6, <1>7
  <2>4. SumUpTo(r1, NumAddr) \in Nat
    BY <1>6, <2>1, SumNat
  <2>5. SumUpTo(r2, NumAddr) \in Nat
    BY <1>6, <2>2, SumNat
  <2>6. SumUpTo(g, NumAddr) \in Nat
    BY <1>6, <2>3, SumNat
  <2> QED BY <2>4, <2>5, <2>6
<1>10. ASSUME o.txid # 0
       PROVE  SumUpTo(u, NumAddr) = SumUpTo(r1, NumAddr) + SumUpTo(v, NumAddr) /\ SumUpTo(v, NumAddr) \in Int
  <2>1. \A b \in 1..NumAddr : r1[b] \in Int /\ v[b] \in Int /\ u[b] = r1[b] + v[b]
    BY <1>6, <1>7, <1>10
  <2>2. \A b \in 1..NumAddr : v[b] \in Int
    BY <2>1
  <2>3. SumUpTo(u, NumAddr) = SumUpTo(r1, NumAddr) + SumUpTo(v, NumAddr)
    BY <1>6, <2>1, SumAdd
  <2>4. SumUpTo(v, NumAddr) \in Int
    BY <1>6, <2>2, SumInt
  <2> QED BY <2>3, <2>4
<1>11. ASSUME o.txid = 0
       PROVE  SumUpTo(r1, NumAddr) = 0
  <2>1. \A b \in 1..NumAddr : r1[b] = 0
    BY <1>6, <1>7, <1>11
  <2> QED BY <1>6, <2>1, SumOfZeros
<1>12. DEx_offerExists(s, p) <=> o.txid # 0
  BY DEF DEx_offerExists, o
<1> QED BY <1>5, <1>8, <1>9, <1>10, <1>11, <1>12

\* The award of Dev OMNI succeeds and raises the total of OMNI by what is new.
LEMMA AwardedGood ==
  ASSUME IInv, NEW T, Sound(T), SameTotals(tally, T), NEW devmsc \in 0..AllReward
  PROVE  LET A == Awarded(T, devmsc)
             e == IF devmsc > exodus_prev THEN devmsc ELSE exodus_prev
         IN  /\ Sound(A)
             /\ \A q \in Property : getTotalTokens(A, q) = InitialSupply(q) + (IF q = MSC THEN e ELSE 0)
             /\ \A x \in Addr, q \in Property :
                  /\ A[x][q]["ACCEPT_RESERVE"] = T[x][q]["ACCEPT_RESERVE"]
                  /\ A[x][q]["SELLOFFER_RESERVE"] = T[x][q]["SELLOFFER_RESERVE"]
<1> DEFINE A == Awarded(T, devmsc)
           e == IF devmsc > exodus_prev THEN devmsc ELSE exodus_prev
           n == devmsc - exodus_prev
<1>1. exodus_prev \in Nat /\ devmsc \in Nat /\ devmsc <= AllReward /\ AllReward \in Nat
  BY DExAssumption DEF IInv, TypeOK
<1>2. MSC \in Property /\ Exodus \in Addr
  BY DExAssumption
<1>3. \A q \in Property : InitialSupply(q) \in Int
  BY SupplyInt
<1>4. \A q \in Property : getTotalTokens(T, q) = InitialSupply(q) + (IF q = MSC THEN exodus_prev ELSE 0)
  BY DEF IInv, SupplyConserved, SameTotals
<1>5. CASE n > 0
  <2>1. T[Exodus][MSC]["BALANCE"] \in Nat /\ T[Exodus][MSC]["BALANCE"] <= getTotalTokens(T, MSC)
    <3>1. \A x \in Addr, v \in HeldTypes : T[x][MSC][v] \in Nat
      BY <1>2, RecordNat
    <3> QED BY <1>2, <3>1, RecordWithinTotal, HeldTallyTypes
  <2>2. InitialSupply(MSC) + AllReward <= MaxInt /\ getTotalTokens(T, MSC) = InitialSupply(MSC) + exodus_prev
    BY <1>2, <1>4, SupplyAssumption
  <2>3. InitialSupply(MSC) \in Int
    BY <1>2, <1>3
  <2>4. T[Exodus][MSC]["BALANCE"] + n \in Nat /\ T[Exodus][MSC]["BALANCE"] + n <= MaxInt
    BY SMTT(60), <1>1, <1>5, <2>1, <2>2, <2>3, TallyAssumption
  <2>5. CanUpdate(T, Exodus, MSC, "BALANCE", n)
    BY <1>5, <2>4, TallyAssumption DEF CanUpdate, isOverflow, Int64, MinInt
  <2>6. A = Updated(T, Exodus, MSC, "BALANCE", n)
    BY <1>5, <2>5 DEF Awarded
  <2>7. n \in Int /\ e = devmsc /\ exodus_prev + n = devmsc
    BY <1>1, <1>5
  <2> HIDE DEF n, e, A
  <2>8. Sound(A)
    BY <1>2, <2>5, <2>6, <2>7, UpdatedSound, HeldTallyTypes
  <2>9. ASSUME NEW q \in Property
        PROVE  getTotalTokens(A, q) = InitialSupply(q) + (IF q = MSC THEN e ELSE 0)
    <3>1. getTotalTokens(A, q) = getTotalTokens(T, q) + (IF q = MSC THEN n ELSE 0)
      BY <1>2, <2>6, <2>7, CreditedTotal
    <3>2. CASE q = MSC
      BY <1>1, <2>2, <2>3, <2>7, <3>1, <3>2
    <3>3. CASE q # MSC
      BY <1>3, <1>4, <3>1, <3>3
    <3> QED BY <3>2, <3>3
  <2>10. ASSUME NEW x \in Addr, NEW q \in Property
         PROVE  /\ A[x][q]["ACCEPT_RESERVE"] = T[x][q]["ACCEPT_RESERVE"]
                /\ A[x][q]["SELLOFFER_RESERVE"] = T[x][q]["SELLOFFER_RESERVE"]
    <3>1. \A v \in HeldTypes : /\ T[x][q][v] \in Int
            /\ A[x][q][v] = T[x][q][v] + (IF x = Exodus /\ q = MSC /\ v = "BALANCE" THEN n ELSE 0)
      BY SMTT(60), <1>2, <2>6, <2>7, UpdatedValue, HeldTallyTypes DEF Sound
    <3> QED BY SMTT(60), <3>1, HeldTallyTypes
  <2> QED BY <2>8, <2>9, <2>10 DEF A, e
<1>6. CASE ~ (n > 0)
  <2>1. A = T
    BY <1>6 DEF Awarded
  <2>2. e = exodus_prev
    BY <1>1, <1>6
  <2> HIDE DEF A, e
  <2> QED BY <1>4, <2>1, <2>2 DEF A, e
<1> QED BY <1>5, <1>6, Zenon

\* The end of a block preserves the invariant.
LEMMA BlockEndInv ==
  ASSUME IInv, NEW devmsc \in 0..AllReward, BlockEnd(devmsc)
  PROVE  IInv'
<1> DEFINE asserted == AfterExpiry \in Ledger /\ NonNegative(AfterExpiry)
           accepts1 == [s \in Addr |-> [p \in Property |-> [b \in Addr |->
                          IF Expired(accepts[s][p][b]) THEN NoAccept ELSE accepts[s][p][b]]]]
<1>1. /\ alive' = asserted /\ tally' = IF asserted THEN Awarded(AfterExpiry, devmsc) ELSE tally
      /\ accepts' = accepts1 /\ UNCHANGED <<offers, outOfRange>>
      /\ block' = block + 1 /\ block < MaxBlock
      /\ exodus_prev' = IF alive' /\ devmsc > exodus_prev THEN devmsc ELSE exodus_prev
  BY Zenon DEF BlockEnd, Commit
<1>2. accepts1 \in [Addr -> [Property -> [Addr -> Accept]]]
  <2>1. accepts \in [Addr -> [Property -> [Addr -> Accept]]] /\ NoAccept \in Accept
    BY RecordTypes, Zenon DEF IInv, TypeOK
  <2> QED BY <2>1
<1> HIDE DEF accepts1
<1>3. alive' \in BOOLEAN
  BY <1>1 DEF NonNegative
<1>4. block' \in 1..MaxBlock /\ exodus_prev' \in 0..AllReward
  BY <1>1, DExAssumption DEF IInv, TypeOK
<1>5. asserted <=> Sound(AfterExpiry)
  BY DEF Sound
<1> HIDE DEF asserted
<1>6. Sound(tally') /\ SupplyConserved'
  <2>1. CASE asserted
    <3>1. SameTotals(tally, AfterExpiry) /\ Sound(AfterExpiry)
      BY <1>5, <2>1, AfterExpiryTotals
    <3>2. tally' = Awarded(AfterExpiry, devmsc)
      BY <1>1, <2>1
    <3>3. exodus_prev' = IF devmsc > exodus_prev THEN devmsc ELSE exodus_prev
      BY <1>1, <2>1
    <3> QED BY <3>1, <3>2, <3>3, AwardedGood DEF SupplyConserved
  <2>2. CASE ~ asserted
    BY <1>1, <2>2, SupplyBound DEF IInv, SupplyConserved
  <2> QED BY <2>1, <2>2
<1>7. TypeOK'
  BY <1>1, <1>2, <1>3, <1>4, <1>6 DEF IInv, TypeOK, Sound
<1>8. CASE outOfRange
  BY <1>1, <1>6, <1>7, <1>8, Zenon DEF IInv, AssertsHold, OpenAcceptHolds, AcceptReserveBacked, OfferCovered
<1>9. CASE ~ outOfRange
  <2>1. \A s \in Addr, p \in Property :
          /\ tally[s][p]["ACCEPT_RESERVE"] = ReturnedToOffer(s, p) + ReturnedToSeller(s, p) + Accepted(s, p)'
          /\ ReturnedToOffer(s, p) \in Nat /\ ReturnedToSeller(s, p) \in Nat
          /\ Accepted(s, p)' \in Nat
          /\ DEx_offerExists(s, p) =>
               /\ AcceptedFromOffer(s, p) = ReturnedToOffer(s, p) + AcceptedFromOffer(s, p)'
               /\ AcceptedFromOffer(s, p)' \in Int
          /\ ~ DEx_offerExists(s, p) => ReturnedToOffer(s, p) = 0
    <3>1. \A s \in Addr, p \in Property : tally[s][p]["ACCEPT_RESERVE"] = Accepted(s, p)
      BY <1>9 DEF IInv, AcceptReserveBacked
    <3>2. accepts' = [x \in Addr |-> [q \in Property |-> [b \in Addr |->
                        IF Expired(accepts[x][q][b]) THEN NoAccept ELSE accepts[x][q][b]]]]
      BY <1>1 DEF accepts1
    <3>3. UNCHANGED offers
      BY <1>1
    <3> TAKE s \in Addr, p \in Property
    <3>4. /\ Accepted(s, p) = ReturnedToOffer(s, p) + ReturnedToSeller(s, p) + Accepted(s, p)'
          /\ ReturnedToOffer(s, p) \in Nat /\ ReturnedToSeller(s, p) \in Nat
          /\ Accepted(s, p)' \in Nat
          /\ DEx_offerExists(s, p) =>
               /\ AcceptedFromOffer(s, p) = ReturnedToOffer(s, p) + AcceptedFromOffer(s, p)'
               /\ AcceptedFromOffer(s, p)' \in Int
          /\ ~ DEx_offerExists(s, p) => ReturnedToOffer(s, p) = 0
      BY <1>9, <3>2, <3>3, ExpirySplit, Zenon
    <3> QED BY <3>1, <3>4, Zenon
  <2>2. \A s \in Addr, p \in Property :
          /\ AfterExpiry[s][p]["ACCEPT_RESERVE"] =
               tally[s][p]["ACCEPT_RESERVE"] - ReturnedToOffer(s, p) - ReturnedToSeller(s, p)
          /\ AfterExpiry[s][p]["SELLOFFER_RESERVE"] = tally[s][p]["SELLOFFER_RESERVE"] + ReturnedToOffer(s, p)
          /\ AfterExpiry[s][p]["BALANCE"] = tally[s][p]["BALANCE"] + ReturnedToSeller(s, p)
          /\ AfterExpiry[s][p]["METADEX_RESERVE"] = tally[s][p]["METADEX_RESERVE"]
    BY AfterExpiryValue, HeldTallyTypes
  <2>3. \A s \in Addr, p \in Property :
          /\ tally[s][p]["BALANCE"] \in Nat /\ tally[s][p]["SELLOFFER_RESERVE"] \in Nat
          /\ tally[s][p]["ACCEPT_RESERVE"] \in Nat /\ tally[s][p]["METADEX_RESERVE"] \in Nat
    BY SupplyBound, RecordNat, HeldTallyTypes
  <2>4. \A s \in Addr, p \in Property : AfterExpiry[s][p]["ACCEPT_RESERVE"] = Accepted(s, p)'
    <3> TAKE s \in Addr, p \in Property
    <3>1. \A i, j, k \in Nat : i + j + k - i - j = k
      OBVIOUS
    <3> QED BY SMTT(60), <2>1, <2>2, <3>1
  <2>5. asserted
    <3>1. \A s \in Addr, p \in Property, v \in HeldTypes : AfterExpiry[s][p][v] \in Nat
      BY SMTT(60), <2>1, <2>2, <2>3, <2>4 DEF HeldTypes
    <3>2. \A s \in Addr, p \in Property, v \in HeldTypes : AfterExpiry[s][p][v] \in Amount
      <4> TAKE s \in Addr, p \in Property, v \in HeldTypes
      <4>1. getTotalTokens(AfterExpiry, p) \in Nat /\ AfterExpiry[s][p][v] <= getTotalTokens(AfterExpiry, p)
        BY <3>1, RecordWithinTotal
      <4>2. getTotalTokens(AfterExpiry, p) <= MaxInt
        BY AfterExpiryTotals, SupplyBound DEF Bounded, SameTotals
      <4> QED BY <3>1, <4>1, <4>2, TallyAssumption DEF Amount
    <3>3. \A s \in Addr, p \in Property, v \in TallyType \ HeldTypes : AfterExpiry[s][p][v] = tally[s][p][v]
      <4> TAKE s \in Addr, p \in Property, v \in TallyType \ HeldTypes
      <4>1. v \in TallyType /\ v # "ACCEPT_RESERVE" /\ v # "SELLOFFER_RESERVE" /\ v # "BALANCE"
        BY DEF HeldTypes
      <4> QED BY <4>1, AfterExpiryValue, Zenon
    <3>4. Sound(tally)
      BY SupplyBound
    <3>5. \A s \in Addr, p \in Property, v \in TallyType :
            AfterExpiry[s][p][v] \in Int64 /\ (v # "PENDING" => AfterExpiry[s][p][v] >= 0)
      <4> TAKE s \in Addr, p \in Property, v \in TallyType
      <4>1. CASE v \in HeldTypes
        <5>1. AfterExpiry[s][p][v] \in Amount
          BY <3>2, <4>1
        <5> QED BY <5>1, TallyAssumption DEF Amount, Int64, MinInt
      <4>2. CASE v \notin HeldTypes
        BY <3>3, <3>4, <4>2 DEF Sound, Ledger, NonNegative
      <4> QED BY <4>1, <4>2
    <3>6. AfterExpiry \in Ledger
      <4>1. AfterExpiry = [s \in Addr |-> [p \in Property |-> [v \in TallyType |-> AfterExpiry[s][p][v]]]]
        BY DEF AfterExpiry
      <4> QED BY <3>5, <4>1 DEF Ledger
    <3> QED BY <3>5, <3>6 DEF asserted, NonNegative
  <2>6. \A s \in Addr, p \in Property :
          /\ tally'[s][p]["ACCEPT_RESERVE"] = Accepted(s, p)'
          /\ tally'[s][p]["SELLOFFER_RESERVE"] = tally[s][p]["SELLOFFER_RESERVE"] + ReturnedToOffer(s, p)
    <3>1. tally' = Awarded(AfterExpiry, devmsc) /\ Sound(AfterExpiry) /\ SameTotals(tally, AfterExpiry)
      BY <1>1, <1>5, <2>5, AfterExpiryTotals
    <3>2. \A s \in Addr, p \in Property :
            /\ tally'[s][p]["ACCEPT_RESERVE"] = AfterExpiry[s][p]["ACCEPT_RESERVE"]
            /\ tally'[s][p]["SELLOFFER_RESERVE"] = AfterExpiry[s][p]["SELLOFFER_RESERVE"]
      BY <3>1, AwardedGood
    <3> QED BY ZenonT(40), <2>2, <2>4, <3>2
  <2>7. AssertsHold'
    BY <1>1, <2>5 DEF AssertsHold
  <2>8. AcceptReserveBacked'
    BY <2>6 DEF AcceptReserveBacked
  <2>9. OpenAcceptHolds'
    <3>1. \A s \in Addr, p \in Property, b \in Addr :
            accepts'[s][p][b] = IF Expired(accepts[s][p][b]) THEN NoAccept ELSE accepts[s][p][b]
      BY <1>1, Zenon DEF accepts1
    <3>2. NoAccept.txid = 0 /\ NoAccept.remaining = 0
      BY DEF NoAccept
    <3> QED BY SMTT(60), <1>9, <3>1, <3>2 DEF IInv, OpenAcceptHolds, DEx_acceptExists
  <2>10. OfferCovered'
    <3> SUFFICES ASSUME NEW s \in Addr, NEW p \in Property
                 PROVE  IF DEx_offerExists(s, p)'
                        THEN tally'[s][p]["SELLOFFER_RESERVE"] + AcceptedFromOffer(s, p)' <= offers'[s][p].amount
                        ELSE tally'[s][p]["SELLOFFER_RESERVE"] = 0
      BY DEF OfferCovered
    <3>1. DEx_offerExists(s, p)' <=> DEx_offerExists(s, p)
      BY <1>1, Zenon DEF DEx_offerExists
    <3>2. IF DEx_offerExists(s, p)
          THEN tally[s][p]["SELLOFFER_RESERVE"] + AcceptedFromOffer(s, p) <= offers[s][p].amount
          ELSE tally[s][p]["SELLOFFER_RESERVE"] = 0
      BY <1>9, Zenon DEF IInv, OfferCovered
    <3>3. CASE DEx_offerExists(s, p)
      <4> DEFINE x == tally[s][p]["SELLOFFER_RESERVE"]
                 r == ReturnedToOffer(s, p)
                 k == AcceptedFromOffer(s, p)'
      <4>1. x \in Nat /\ r \in Nat /\ k \in Int /\ AcceptedFromOffer(s, p) = r + k
        BY <2>1, <2>3, <3>3, Zenon
      <4>2. x + AcceptedFromOffer(s, p) <= offers[s][p].amount
        BY <3>2, <3>3
      <4>3. tally'[s][p]["SELLOFFER_RESERVE"] = x + r
        BY <2>6
      <4>4. offers'[s][p].amount = offers[s][p].amount
        BY <1>1
      <4> HIDE DEF x, r, k
      <4>5. x + (r + k) = (x + r) + k
        BY <4>1
      <4>6. tally'[s][p]["SELLOFFER_RESERVE"] + k <= offers'[s][p].amount
        BY <4>1, <4>2, <4>3, <4>4, <4>5
      <4> QED BY <3>1, <3>3, <4>6, Zenon DEF k
    <3>4. CASE ~ DEx_offerExists(s, p)
      BY SMTT(60), <2>1, <2>6, <3>1, <3>2, <3>4
    <3> QED BY <3>3, <3>4, Zenon
  <2> QED BY <1>6, <1>7, <2>7, <2>8, <2>9, <2>10 DEF IInv
<1> QED BY <1>8, <1>9
------------------------------------------------------------------------------
(***************************************************************************)
(* The invariant is inductive, and the properties follow from it.          *)
(***************************************************************************)
LEMMA NextInv == IInv /\ [Next]_vars => IInv'
<1> SUFFICES ASSUME IInv, [Next]_vars PROVE IInv'
  OBVIOUS
<1>1. ASSUME NEW s \in Addr, NEW r \in Addr, NEW p \in Property, NEW n \in SendAmounts,
             SimpleSend(s, r, p, n)
      PROVE  IInv'
  BY <1>1, SimpleSendInv
<1>2. ASSUME NEW s \in Sellers, NEW p \in {MSC, TMSC}, NEW form \in Forms, NEW n \in OfferAmounts,
             NEW d \in Desired, NEW f \in MinFees, NEW w \in Windows, TradeOffer(s, p, form, n, d, f, w)
      PROVE  IInv'
  BY <1>2, TradeOfferInv
<1>3. ASSUME NEW b \in Buyers, NEW s \in Addr, NEW p \in {MSC, TMSC}, NEW n \in AcceptAmounts,
             NEW fee \in FeesPaid, AcceptOffer(b, s, p, n, fee)
      PROVE  IInv'
  BY <1>3, AcceptOfferInv
<1>4. ASSUME NEW b \in Buyers, NEW s \in Addr, NEW paid \in Payments, Payment(s, b, paid)
      PROVE  IInv'
  BY <1>4, PaymentInv
<1>5. ASSUME NEW devmsc \in 0..AllReward, BlockEnd(devmsc)
      PROVE  IInv'
  BY <1>5, BlockEndInv, Zenon
<1>6. CASE UNCHANGED vars
  BY <1>6, ZenonT(40) DEF vars, IInv, TypeOK, SupplyConserved, AssertsHold, OpenAcceptHolds, AcceptReserveBacked,
              OfferCovered, Accepted, AcceptedFromOffer, DEx_acceptExists, DEx_offerExists
<1> QED BY <1>1, <1>2, <1>3, <1>4, <1>5, <1>6 DEF Next

\* Every reachable state satisfies the inductive invariant.
THEOREM Inductive == Spec => []IInv
BY InitInv, NextInv, PTL DEF Spec

\* No handler leaves an amount that is negative or beyond int64_t, in any
\* record of the ledger, and offers and accepts are well formed.
THEOREM TypesCorrect == Spec => []TypeOK
<1>1. IInv => TypeOK
  BY DEF IInv
<1> QED BY Inductive, <1>1, PTL

\* Sends, offers, accepts, payments and expiries neither create nor lose
\* tokens; only calculate_and_update_devmsc creates them.
THEOREM SupplyIsConserved == Spec => []SupplyConserved
<1>1. IInv => SupplyConserved
  BY DEF IInv
<1> QED BY Inductive, <1>1, PTL

\* The asserts of dex.cpp on update_tally_map never fail, unless a price was
\* beyond int64_t.
THEOREM NoAssertFails == Spec => []AssertsHold
<1>1. IInv => AssertsHold
  BY DEF IInv
<1> QED BY Inductive, <1>1, PTL

\* ACCEPT_RESERVE of a seller is what the open accepts of the seller's offer
\* hold, whatever was accepted, paid for, expired or cancelled.
THEOREM AcceptsBacked == Spec => []AcceptReserveBacked
<1>1. IInv => AcceptReserveBacked
  BY DEF IInv
<1> QED BY Inductive, <1>1, PTL

\* An open accept holds something: DEx_payment and the expiry at the end of a
\* block erase an accept with its last token.
THEOREM OpenAcceptsHold == Spec => []OpenAcceptHolds
<1>1. IInv => OpenAcceptHolds
  BY DEF IInv
<1> QED BY Inductive, <1>1, PTL

\* SELLOFFER_RESERVE holds no more than the current offer has for sale, so
\* nothing of a replaced offer is sold at the price of the new one.
THEOREM OffersCovered == Spec => []OfferCovered
<1>1. IInv => OfferCovered
  BY DEF IInv
<1> QED BY Inductive, <1>1, PTL
------------------------------------------------------------------------------
(***************************************************************************)
(* Steps: payment windows are kept, accepts are honoured, and every step is *)
(* one of the token ledger.                                                *)
(***************************************************************************)
\* The steps that touch accepts: an accept of its slot is made, paid or
\* expired; all others are as before.
SettledTo(s, p, b, n) ==
  /\ \A x \in Addr, q \in Property, c \in Addr :
       ~ (x = s /\ q = p /\ c = b) => accepts'[x][q][c] = accepts[x][q][c]
  /\ n >= accepts[s][p][b].remaining => accepts'[s][p][b] = NoAccept
  /\ ~ (n >= accepts[s][p][b].remaining) =>
       /\ Terms(accepts'[s][p][b]) = Terms(accepts[s][p][b])
       /\ accepts'[s][p][b].remaining = accepts[s][p][b].remaining - n

LEMMA SettledAccept ==
  ASSUME IInv, NEW s \in Addr, NEW p \in Property, NEW b \in Addr, NEW n \in Int, Settle(s, p, b, n)
  PROVE  SettledTo(s, p, b, n)
<1>1. accepts \in [Addr -> [Property -> [Addr -> Accept]]]
  BY DEF IInv, TypeOK
<1> DEFINE a == accepts[s][p][b]
           a1 == Reduced(a, n)
<1>2. accepts' = [accepts EXCEPT ![s][p][b] = a1]
  BY DEF Settle
<1> HIDE DEF a1
<1>3. /\ accepts'[s][p][b] = a1
      /\ \A x \in Addr, q \in Property, c \in Addr :
           ~ (x = s /\ q = p /\ c = b) => accepts'[x][q][c] = accepts[x][q][c]
  BY <1>1, <1>2
<1>4. ~ (n >= a.remaining) => Terms(a1) = Terms(a) /\ a1.remaining = a.remaining - n
  <2>1. a \in Accept
    BY <1>1
  <2> HIDE DEF a
  <2> QED BY <2>1 DEF a1, Accept, Terms, Reduced
<1>5. n >= a.remaining => a1 = NoAccept
  BY DEF a1, Reduced
<1> QED BY <1>3, <1>4, <1>5, Zenon DEF SettledTo

\* The n of a payment that is not out of range.
LEMMA PaymentSettles ==
  ASSUME IInv, NEW b \in Buyers, NEW s \in Addr, NEW paid \in Payments, Payment(s, b, paid)
  PROVE  \/ alive' = FALSE /\ outOfRange' = TRUE /\ UNCHANGED <<tally, offers, accepts>>
         \/ \E p \in Property, n \in Int :
              /\ Settle(s, p, b, n) /\ n <= accepts[s][p][b].remaining
              /\ outOfRange' = TRUE \/ n >= 0 \/ n = accepts[s][p][b].remaining
<1> DEFINE p == PaidProperty(s, b)
           a == accepts[s][p][b]
           purchased == IF DexMath THEN calculateDExPurchase(a, paid) ELSE legacy_calculateDExPurchase(a, paid)
<1>1. p \in Property /\ b \in Addr
  BY DExAssumption DEF PaidProperty
<1>2. a \in Accept /\ a.remaining \in Int /\ a.desired # 0
  <2>1. a \in Accept
    BY <1>1 DEF IInv, TypeOK
  <2> QED BY <2>1, Zenon DEF Accept, Payment
<1>3. \/ Priceable(a, paid) /\ Settle(s, p, b, Lesser(purchased, a.remaining))
      \/ alive' = FALSE /\ outOfRange' = TRUE /\ UNCHANGED <<tally, offers, accepts>>
      \/ /\ ~ DexMath /\ outOfRange' = TRUE
         /\ \E n \in LegacyOutcome(purchased) : Settle(s, p, b, Lesser(n, a.remaining))
  BY Zenon DEF Payment
<1> HIDE DEF p, a, purchased
<1>4. CASE Priceable(a, paid) /\ Settle(s, p, b, Lesser(purchased, a.remaining))
  <2> DEFINE n == Lesser(purchased, a.remaining)
  <2>1. purchased \in Nat
    BY <1>2, <1>4, PurchaseNat DEF Priceable, purchased
  <2>2. n \in Int /\ n <= a.remaining /\ (n >= 0 \/ n = a.remaining)
    BY <1>2, <2>1 DEF Lesser
  <2>3. Settle(s, p, b, n)
    BY <1>4
  <2> HIDE DEF n
  <2> QED BY <1>1, <2>2, <2>3, Zenon DEF a
<1>5. CASE /\ ~ DexMath /\ outOfRange' = TRUE
           /\ \E n \in LegacyOutcome(purchased) : Settle(s, p, b, Lesser(n, a.remaining))
  <2>1. purchased \in Int
    BY <1>2, <1>5, PurchaseNat DEF purchased
  <2>2. LegacyOutcome(purchased) \subseteq Int64
    BY <2>1, SignedRange DEF LegacyOutcome
  <2>3. PICK m \in LegacyOutcome(purchased) : Settle(s, p, b, Lesser(m, a.remaining))
    BY <1>5
  <2> DEFINE n == Lesser(m, a.remaining)
  <2>4. n \in Int /\ n <= a.remaining
    BY <1>2, <2>2, TallyAssumption DEF Lesser, Int64, MinInt
  <2>5. Settle(s, p, b, n)
    BY <2>3
  <2> HIDE DEF n
  <2> QED BY <1>1, <1>5, <2>4, <2>5, Zenon DEF a
<1> QED BY <1>3, <1>4, <1>5, Zenon

\* The accept an accept transaction stores.
AcceptNew(s, p, b) ==
  /\ accepts[s][p][b].txid = 0
  /\ accepts'[s][p][b].block = block /\ accepts'[s][p][b].window = offers[s][p].window
  /\ \A x \in Addr, q \in Property, c \in Addr :
       ~ (x = s /\ q = p /\ c = b) => accepts'[x][q][c] = accepts[x][q][c]

LEMMA AcceptMade ==
  ASSUME IInv, NEW b \in Buyers, NEW s \in Addr, NEW p \in {MSC, TMSC}, NEW n \in AcceptAmounts,
         NEW fee \in FeesPaid, AcceptOffer(b, s, p, n, fee)
  PROVE  AcceptNew(s, p, b)
<1>1. accepts \in [Addr -> [Property -> [Addr -> Accept]]] /\ p \in Property /\ b \in Addr
  BY DExAssumption DEF IInv, TypeOK
<1>2. accepts[s][p][b].txid = 0
  BY Zenon DEF AcceptOffer, DEx_acceptExists
<1> DEFINE a == [txid |-> offers[s][p].txid, remaining |-> Lesser(n, tally[s][p]["SELLOFFER_RESERVE"]),
                 block |-> block, window |-> offers[s][p].window,
                 amount |-> offers[s][p].amount, desired |-> offers[s][p].desired]
<1>3. accepts' = [accepts EXCEPT ![s][p][b] = a]
  BY Zenon DEF AcceptOffer
<1>4. a.block = block /\ a.window = offers[s][p].window
  BY Zenon
<1> HIDE DEF a
<1>5. /\ accepts'[s][p][b] = a
      /\ \A x \in Addr, q \in Property, c \in Addr :
           ~ (x = s /\ q = p /\ c = b) => accepts'[x][q][c] = accepts[x][q][c]
  BY <1>1, <1>3
<1> QED BY <1>2, <1>4, <1>5, Zenon DEF AcceptNew

\* The accepts the end of a block leaves.
LEMMA BlockEndAccepts ==
  ASSUME NEW devmsc, BlockEnd(devmsc), NEW s \in Addr, NEW p \in Property, NEW b \in Addr
  PROVE  accepts'[s][p][b] = IF Expired(accepts[s][p][b]) THEN NoAccept ELSE accepts[s][p][b]
BY Zenon DEF BlockEnd
------------------------------------------------------------------------------
(***************************************************************************)
(* Payment windows.                                                        *)
(***************************************************************************)
WindowKept(a, now) == a.txid # 0 => now <= a.block + a.window

\* Every step keeps the payment windows.
LEMMA NextWindow == IInv /\ PaymentWindowKept /\ [Next]_vars => PaymentWindowKept'
<1> SUFFICES ASSUME IInv, PaymentWindowKept, [Next]_vars, NEW x \in Addr, NEW q \in Property, NEW c \in Addr
             PROVE  WindowKept(accepts'[x][q][c], block')
  BY Zenon DEF PaymentWindowKept, WindowKept, DEx_acceptExists
<1>1. WindowKept(accepts[x][q][c], block)
  BY Zenon DEF PaymentWindowKept, WindowKept, DEx_acceptExists
<1>2. accepts[x][q][c].block \in Nat /\ accepts[x][q][c].window \in Nat /\ block \in Nat
  <2>1. accepts[x][q][c] \in Accept /\ block \in 1..MaxBlock
    BY DEF IInv, TypeOK
  <2>2. block \in Nat
    BY <2>1, DExAssumption
  <2>3. \A a \in Accept : a.block \in Nat /\ a.window \in Nat
    BY DExAssumption DEF Accept
  <2> QED BY <2>1, <2>2, <2>3, Zenon
<1>3. NoAccept.txid = 0
  BY DEF NoAccept
<1>4. ASSUME UNCHANGED <<accepts, block>> PROVE WindowKept(accepts'[x][q][c], block')
  BY <1>1, <1>4
<1>5. ASSUME NEW b \in Buyers, NEW s \in Addr, NEW p \in {MSC, TMSC}, NEW n \in AcceptAmounts,
             NEW fee \in FeesPaid, AcceptOffer(b, s, p, n, fee)
      PROVE  WindowKept(accepts'[x][q][c], block')
  <2>1. block' = block
    BY <1>5, Zenon DEF AcceptOffer
  <2>2. CASE x = s /\ q = p /\ c = b
    <3>1. offers[s][p].window \in Nat
      <4>1. offers[s][p] \in Offer
        BY DExAssumption DEF IInv, TypeOK
      <4>2. \A o \in Offer : o.window \in 0..255
        BY Zenon DEF Offer
      <4>3. \A k \in 0..255 : k \in Nat
        OBVIOUS
      <4> QED BY <4>1, <4>2, <4>3, Zenon
    <3>2. accepts'[x][q][c].block = block /\ accepts'[x][q][c].window = offers[s][p].window
      <4>1. AcceptNew(s, p, b)
        BY <1>5, AcceptMade, Zenon
      <4> QED BY <4>1, <2>2, Zenon DEF AcceptNew
    <3> QED BY <1>2, <2>1, <3>1, <3>2 DEF WindowKept
  <2>3. CASE ~ (x = s /\ q = p /\ c = b)
    <3>1. AcceptNew(s, p, b)
      BY <1>5, AcceptMade, Zenon
    <3>2. accepts'[x][q][c] = accepts[x][q][c]
      BY <3>1, <2>3, Zenon DEF AcceptNew
    <3> QED BY <3>2, <1>1, <2>1, Zenon
  <2> QED BY <2>2, <2>3
<1>6. ASSUME NEW b \in Buyers, NEW s \in Addr, NEW paid \in Payments, Payment(s, b, paid)
      PROVE  WindowKept(accepts'[x][q][c], block')
  <2>1. block' = block /\ b \in Addr
    BY <1>6, DExAssumption, Zenon DEF Payment
  <2>2. CASE UNCHANGED accepts
    BY <1>4, <2>1, <2>2, Zenon
  <2>3. ASSUME NEW p \in Property, NEW n \in Int, Settle(s, p, b, n)
        PROVE  WindowKept(accepts'[x][q][c], block')
    <3>1. \/ accepts'[x][q][c] = accepts[x][q][c] \/ accepts'[x][q][c] = NoAccept
          \/ Terms(accepts'[x][q][c]) = Terms(accepts[x][q][c])
      <4>1. SettledTo(s, p, b, n)
        BY <2>1, <2>3, SettledAccept, Zenon
      <4> QED BY <4>1, ZenonT(40) DEF SettledTo
    <3>2. accepts'[x][q][c] = accepts[x][q][c] => WindowKept(accepts'[x][q][c], block')
      BY <1>1, <2>1, Zenon
    <3>3. accepts'[x][q][c] = NoAccept => WindowKept(accepts'[x][q][c], block')
      BY <1>3, Zenon DEF WindowKept
    <3>4. ASSUME Terms(accepts'[x][q][c]) = Terms(accepts[x][q][c])
          PROVE  WindowKept(accepts'[x][q][c], block')
      <4>1. /\ accepts'[x][q][c].txid = accepts[x][q][c].txid
            /\ accepts'[x][q][c].block = accepts[x][q][c].block
            /\ accepts'[x][q][c].window = accepts[x][q][c].window
        BY <3>4, Zenon DEF Terms
      <4> QED BY <1>1, <2>1, <4>1, Zenon DEF WindowKept
    <3> QED BY <3>1, <3>2, <3>3, <3>4, Zenon
  <2> QED BY <1>6, <2>2, <2>3, PaymentSettles, Zenon
<1>7. ASSUME NEW devmsc \in 0..AllReward, BlockEnd(devmsc)
      PROVE  WindowKept(accepts'[x][q][c], block')
  <2>1. block' = block + 1
    BY <1>7 DEF BlockEnd
  <2>2. accepts'[x][q][c] = IF Expired(accepts[x][q][c]) THEN NoAccept ELSE accepts[x][q][c]
    BY <1>7, BlockEndAccepts, Zenon
  <2>3. CASE Expired(accepts[x][q][c])
    BY <1>3, <2>2, <2>3 DEF WindowKept
  <2>4. CASE ~ Expired(accepts[x][q][c])
    <3>1. accepts'[x][q][c] = accepts[x][q][c]
      BY <2>2, <2>4, Zenon
    <3> DEFINE k == accepts[x][q][c].block
               w == accepts[x][q][c].window
    <3>2. k \in Int /\ w \in Int /\ block \in Int
      BY <1>2
    <3>3. accepts[x][q][c].txid # 0 => ~ (block - k >= w)
      BY <2>4, Zenon DEF Expired
    <3> HIDE DEF k, w
    <3>4. accepts[x][q][c].txid # 0 => block + 1 <= k + w
      BY <3>2, <3>3
    <3> QED BY <2>1, <3>1, <3>4, Zenon DEF WindowKept, k, w
  <2> QED BY <2>3, <2>4, Zenon
<1>8. CASE \E s, r \in Addr, p \in Property, n \in SendAmounts : SimpleSend(s, r, p, n)
  BY <1>4, <1>8, Zenon DEF SimpleSend
<1>9. CASE \E s \in Sellers, p \in {MSC, TMSC}, form \in Forms, n \in OfferAmounts,
              d \in Desired, f \in MinFees, w \in Windows : TradeOffer(s, p, form, n, d, f, w)
  <2>1. PICK s \in Sellers, p \in {MSC, TMSC}, form \in Forms, n \in OfferAmounts,
             d \in Desired, f \in MinFees, w \in Windows : TradeOffer(s, p, form, n, d, f, w)
    BY <1>9, Zenon
  <2>2. accepts' = accepts /\ block' = block
    BY <2>1, Zenon DEF TradeOffer
  <2> QED BY <2>2, <1>4, Zenon
<1>10. CASE UNCHANGED vars
  BY <1>4, <1>10, Zenon DEF vars
<1> QED BY <1>5, <1>6, <1>7, <1>8, <1>9, <1>10, Zenon DEF Next

\* There is no accept initially.
LEMMA InitWindow == Init => PaymentWindowKept
BY DEF Init, PaymentWindowKept, DEx_acceptExists, NoAccept

\* eraseExpiredAccepts, run at the end of every block, leaves no accept that
\* is past its payment window.
THEOREM WindowsAreKept == Spec => []PaymentWindowKept
BY Inductive, InitWindow, NextWindow, PTL DEF Spec
------------------------------------------------------------------------------
(***************************************************************************)
(* Accepts are honoured.                                                   *)
(***************************************************************************)
LEMMA StepHonours ==
  ASSUME IInv, [Next]_vars, ~ outOfRange', NEW x \in Addr, NEW q \in Property, NEW c \in Addr
  PROVE  Honoured(x, q, c)
<1> DEFINE a == accepts[x][q][c]
<1>1. a \in Accept /\ a.remaining \in Int /\ a.block \in Int /\ a.window \in Int /\ block \in Int
  <2>1. a \in Accept /\ block \in 1..MaxBlock
    BY DEF IInv, TypeOK
  <2>2. \A r \in Accept : r.remaining \in Int /\ r.block \in Int /\ r.window \in Int
    BY DExAssumption DEF Accept
  <2>3. block \in Int
    BY <2>1, DExAssumption
  <2> QED BY <2>1, <2>2, <2>3, Zenon
<1>2. ASSUME accepts'[x][q][c] = a PROVE Honoured(x, q, c)
  <2>1. a.remaining <= a.remaining
    BY <1>1
  <2> QED BY <1>2, <2>1, Zenon DEF Honoured
<1>3. ASSUME NEW b \in Buyers, NEW s \in Addr, NEW p \in {MSC, TMSC}, NEW n \in AcceptAmounts,
             NEW fee \in FeesPaid, AcceptOffer(b, s, p, n, fee)
      PROVE  Honoured(x, q, c)
  <2>1. CASE x = s /\ q = p /\ c = b
    <3>1. a.txid = 0
      <4>1. AcceptNew(s, p, b)
        BY <1>3, AcceptMade, Zenon
      <4> QED BY <4>1, <2>1, Zenon DEF AcceptNew
    <3> QED BY <3>1, Zenon DEF Honoured
  <2>2. CASE ~ (x = s /\ q = p /\ c = b)
    <3>1. AcceptNew(s, p, b)
      BY <1>3, AcceptMade, Zenon
    <3> QED BY <3>1, <1>2, <2>2, Zenon DEF AcceptNew
  <2> QED BY <2>1, <2>2
<1>4. ASSUME NEW b \in Buyers, NEW s \in Addr, NEW paid \in Payments, Payment(s, b, paid)
      PROVE  Honoured(x, q, c)
  <2>1. b \in Addr /\ ~ outOfRange /\ DEx_acceptExists(s, PaidProperty(s, b), b)
    <3>1. DEx_acceptExists(s, PaidProperty(s, b), b)
      BY <1>4, Zenon DEF Payment
    <3>2. ~ outOfRange
      BY <1>4, Zenon DEF Payment
    <3> QED BY <3>1, <3>2, DExAssumption, Zenon
  <2>2. PICK p \in Property, n \in Int :
          Settle(s, p, b, n) /\ n <= accepts[s][p][b].remaining /\ (n >= 0 \/ n = accepts[s][p][b].remaining)
    BY <1>4, PaymentSettles, Zenon
  <2>a. /\ \A y \in Addr, z \in Property, d \in Addr :
              ~ (y = s /\ z = p /\ d = b) => accepts'[y][z][d] = accepts[y][z][d]
        /\ n >= accepts[s][p][b].remaining => accepts'[s][p][b] = NoAccept
        /\ ~ (n >= accepts[s][p][b].remaining) =>
             /\ Terms(accepts'[s][p][b]) = Terms(accepts[s][p][b])
             /\ accepts'[s][p][b].remaining = accepts[s][p][b].remaining - n
    <3>1. SettledTo(s, p, b, n)
      BY <2>1, <2>2, SettledAccept, Zenon
    <3> QED BY <3>1, Zenon DEF SettledTo
  <2>3. CASE x = s /\ q = p /\ c = b
    <3>1. a.remaining \in Nat /\ a.remaining <= tally[s][p]["ACCEPT_RESERVE"]
      BY <2>1, <2>3, AcceptsBounded, Zenon
    <3>2. a.txid # 0 => a.remaining > 0
      BY <2>1, <2>3, Zenon DEF IInv, OpenAcceptHolds, DEx_acceptExists
    <3>3. CASE n >= a.remaining
      <4>1. n = a.remaining /\ accepts'[s][p][b] = NoAccept
        <5>1. n = a.remaining
          <6>1. n <= a.remaining
            BY <2>2, <2>3, Zenon
          <6> HIDE DEF a
          <6> QED BY <1>1, <3>3, <6>1
        <5>2. n >= accepts[s][p][b].remaining
          BY <2>3, <3>3, Zenon
        <5> QED BY <2>a, <5>1, <5>2, Zenon
      <4>2. ASSUME a.txid # 0 PROVE tally'[b][p]["BALANCE"] = tally[b][p]["BALANCE"] + n
        <5> DEFINE M == Moved(tally, p, n, s, "ACCEPT_RESERVE", b, "BALANCE")
        <5>1. n > 0 /\ n \in Nat \ {0} /\ n <= tally[s][p]["ACCEPT_RESERVE"]
          <6>1. \A k \in Nat : k > 0 => k \in Nat \ {0}
            OBVIOUS
          <6> QED BY <6>1, <3>1, <3>2, <4>1, <4>2, Zenon
        <5>2. Sound(tally) /\ Bounded(tally)
          BY SupplyBound
        <5>3. CanMove(tally, p, n, s, "ACCEPT_RESERVE", b, "BALANCE")
          BY <2>1, <5>1, <5>2, GoodMove, HeldTallyTypes, Zenon
        <5>4. tally' = M
          BY <2>2, <5>1, <5>3, Zenon DEF Settle, Commit
        <5>5. MoveRule(tally, M, p, n, s, "ACCEPT_RESERVE", b, "BALANCE")
          BY <2>1, <5>2, MovedHeld, HeldTallyTypes
        <5> HIDE DEF M
        <5>6. /\ tally[b][p]["BALANCE"] \in Int
              /\ M[b][p]["BALANCE"] = tally[b][p]["BALANCE"] - 0 + n
          BY <2>1, <5>5, HeldTallyTypes, Zenon DEF MoveRule
        <5> QED BY <5>4, <5>6
      <4> QED BY <2>3, <4>1, <4>2, Zenon DEF Honoured
    <3>4. CASE ~ (n >= a.remaining)
      <4>1. n >= 0
        BY <1>1, <2>2, <2>3, <3>4, Zenon
      <4>2. Terms(accepts'[s][p][b]) = Terms(a) /\ accepts'[s][p][b].remaining = a.remaining - n
        <5>1. ~ (n >= accepts[s][p][b].remaining)
          BY <2>3, <3>4, Zenon
        <5>2. a = accepts[s][p][b]
          BY <2>3, Zenon
        <5> HIDE DEF a
        <5> QED BY <2>a, <5>1, <5>2, Zenon
      <4>3. accepts'[s][p][b].remaining <= a.remaining
        <5> HIDE DEF a
        <5> QED BY <1>1, <4>1, <4>2
      <4> QED BY <2>3, <4>2, <4>3, Zenon DEF Honoured
    <3> QED BY <3>3, <3>4
  <2>4. CASE ~ (x = s /\ q = p /\ c = b)
    <3>1. accepts'[x][q][c] = accepts[x][q][c]
      BY <2>a, <2>4, Zenon
    <3> QED BY <1>2, <3>1, Zenon
  <2> QED BY <2>3, <2>4
<1>5. ASSUME NEW devmsc \in 0..AllReward, BlockEnd(devmsc)
      PROVE  Honoured(x, q, c)
  <2>1. CASE Expired(a)
    <3>1. ~ (block < a.block + a.window)
      BY <1>1, <2>1 DEF Expired
    <3> QED BY <3>1, Zenon DEF Honoured
  <2>2. CASE ~ Expired(a)
    BY <1>2, <1>5, <2>2, BlockEndAccepts, Zenon
  <2> QED BY <2>1, <2>2, Zenon
<1>6. CASE \E s, r \in Addr, p \in Property, n \in SendAmounts : SimpleSend(s, r, p, n)
  BY <1>2, <1>6, Zenon DEF SimpleSend
<1>7. CASE \E s \in Sellers, p \in {MSC, TMSC}, form \in Forms, n \in OfferAmounts,
              d \in Desired, f \in MinFees, w \in Windows : TradeOffer(s, p, form, n, d, f, w)
  <2>1. PICK s \in Sellers, p \in {MSC, TMSC}, form \in Forms, n \in OfferAmounts,
             d \in Desired, f \in MinFees, w \in Windows : TradeOffer(s, p, form, n, d, f, w)
    BY <1>7, Zenon
  <2>2. accepts' = accepts /\ block' = block
    BY <2>1, Zenon DEF TradeOffer
  <2> QED BY <2>2, <1>2, Zenon
<1>8. CASE UNCHANGED vars
  BY <1>2, <1>8 DEF vars
<1> QED BY <1>3, <1>4, <1>5, <1>6, <1>7, <1>8, Zenon DEF Next

\* Within its payment window an accept loses tokens only to its buyer, and
\* keeps the price it was made at, whatever becomes of the offer.
THEOREM AcceptsAreHonoured == Spec => AcceptHonoured
<1>1. IInv /\ [Next]_vars =>
        [~ outOfRange' => \A s \in Addr, p \in Property, b \in Addr : Honoured(s, p, b)]_vars
  BY StepHonours
<1> QED BY Inductive, <1>1, PTL DEF Spec, AcceptHonoured
------------------------------------------------------------------------------
(***************************************************************************)
(* The exchange implements the ledger.                                     *)
(***************************************************************************)
LEMMA HeldByValue ==
  ASSUME NEW T, NEW x \in Addr, NEW q \in Property
  PROVE  HeldBy(T)[x][q] = Holding(T, x, q)
BY DEF HeldBy

\* A move between two records of one address is not seen from outside.
LEMMA MovedInside ==
  ASSUME NEW T, Sound(T), NEW p \in Property, NEW n \in Int,
         NEW a \in Addr, NEW t \in HeldTypes, NEW u \in HeldTypes
  PROVE  HeldBy(Moved(T, p, n, a, t, a, u)) = HeldBy(T)
<1> DEFINE M == Moved(T, p, n, a, t, a, u)
<1>1. ASSUME NEW x \in Addr, NEW q \in Property PROVE Holding(M, x, q) = Holding(T, x, q)
  <2>1. Holding(T, x, q) \in Int
    BY HeldInt DEF Sound
  <2>2. Holding(M, x, q) = Holding(T, x, q) - (IF x = a /\ q = p THEN n ELSE 0) + (IF x = a /\ q = p THEN n ELSE 0)
    BY MovedHolding DEF Sound
  <2> HIDE DEF M
  <2> QED BY <2>1, <2>2
<1> QED BY <1>1 DEF HeldBy

\* The holdings after n tokens of p went from a to b.
Across(H, p, n, a, b) == [[H EXCEPT ![a][p] = @ - n] EXCEPT ![b][p] = @ + n]

\* A move between addresses is a transfer.
LEMMA MovedAcross ==
  ASSUME NEW T, Sound(T), NEW p \in Property, NEW n \in Int,
         NEW a \in Addr, NEW t \in HeldTypes, NEW b \in Addr, NEW u \in HeldTypes
  PROVE  HeldBy(Moved(T, p, n, a, t, b, u)) = Across(HeldBy(T), p, n, a, b)
<1> DEFINE M == Moved(T, p, n, a, t, b, u)
           H == HeldBy(T)
           K == [H EXCEPT ![a][p] = @ - n]
           G == [K EXCEPT ![b][p] = @ + n]
<1>1. \A x \in Addr, q \in Property :
        /\ Holding(T, x, q) \in Int
        /\ Holding(M, x, q) = Holding(T, x, q) - (IF x = a /\ q = p THEN n ELSE 0) + (IF x = b /\ q = p THEN n ELSE 0)
  BY HeldInt, MovedHolding DEF Sound
<1>2. H \in [Addr -> [Property -> Int]] /\ \A x \in Addr, q \in Property : H[x][q] = Holding(T, x, q)
  BY <1>1 DEF HeldBy
<1>3. HeldBy(M) = [x \in Addr |-> [q \in Property |-> Holding(M, x, q)]]
  BY DEF HeldBy
<1> HIDE DEF M, H
<1>4. /\ K \in [Addr -> [Property -> Int]]
      /\ \A x \in Addr, q \in Property : K[x][q] = H[x][q] - (IF x = a /\ q = p THEN n ELSE 0)
  BY <1>2
<1> HIDE DEF K
<1>5. /\ G \in [Addr -> [Property -> Int]]
      /\ \A x \in Addr, q \in Property : G[x][q] = K[x][q] + (IF x = b /\ q = p THEN n ELSE 0)
  BY <1>4
<1> HIDE DEF G
<1>6. G = [x \in Addr |-> [q \in Property |-> G[x][q]]]
  BY <1>5
<1>7. \A x \in Addr, q \in Property : G[x][q] = Holding(M, x, q)
  BY <1>1, <1>2, <1>4, <1>5
<1>8. HeldBy(M) = G
  BY <1>3, <1>6, <1>7
<1> QED BY <1>8, Zenon DEF M, G, K, H, Across

\* A transfer whose asserts hold is one of the ledger.
LEMMA MoveTransfers ==
  ASSUME NEW p \in Property, NEW n \in Nat \ {0}, NEW a \in Addr, NEW t \in HeldTypes, NEW b \in Addr,
         Sound(tally), CanMove(tally, p, n, a, t, b, "BALANCE"),
         tally' = Moved(tally, p, n, a, t, b, "BALANCE"), UNCHANGED exodus_prev
  PROVE  Abstract!Next
<1>1. n <= Holding(tally, a, p)
  <2>1. \A v \in HeldTypes : tally[a][p][v] \in Nat
    BY RecordNat, Zenon
  <2>2. n <= tally[a][p][t]
    <3>1. tally[a][p][t] + (-n) >= 0
      BY HeldTallyTypes, Zenon DEF CanMove, CanUpdate
    <3>2. \A k \in Nat : k + (-n) >= 0 => n <= k
      OBVIOUS
    <3> QED BY <2>1, <3>1, <3>2, Zenon
  <2>3. tally[a][p][t] <= Holding(tally, a, p)
    <3>1. /\ tally[a][p]["BALANCE"] \in Nat /\ tally[a][p]["SELLOFFER_RESERVE"] \in Nat
          /\ tally[a][p]["ACCEPT_RESERVE"] \in Nat /\ tally[a][p]["METADEX_RESERVE"] \in Nat
      BY <2>1, HeldTallyTypes, Zenon
    <3>2. t \in {"BALANCE", "SELLOFFER_RESERVE", "ACCEPT_RESERVE", "METADEX_RESERVE"}
      BY DEF HeldTypes
    <3>3. \A i, j, k, m \in Nat : LET h == i + j + k + m IN i <= h /\ j <= h /\ k <= h /\ m <= h
      OBVIOUS
    <3> QED BY <3>1, <3>2, <3>3, Zenon DEF Holding
  <2>4. Holding(tally, a, p) \in Int
    BY HeldInt DEF Sound
  <2>5. \A k \in Nat, h \in Int : n <= k /\ k <= h => n <= h
    OBVIOUS
  <2> QED BY <2>1, <2>2, <2>3, <2>4, <2>5, Zenon
<1>2. HeldBy(tally)[a][p] = Holding(tally, a, p) /\ Holding(tally, a, p) \in Int
  BY HeldByValue, HeldInt, Zenon DEF Sound
<1>3. n \in 1..HeldBy(tally)[a][p]
  <2>1. \A h \in Int : n <= h => n \in 1..h
    OBVIOUS
  <2> QED BY <2>1, <1>1, <1>2, Zenon
<1>4. HeldBy(tally)' = [[HeldBy(tally) EXCEPT ![a][p] = @ - n] EXCEPT ![b][p] = @ + n]
  <2>1. n \in Int /\ "BALANCE" \in HeldTypes
    BY HeldTallyTypes
  <2>2. HeldBy(tally') = Across(HeldBy(tally), p, n, a, b)
    BY <2>1, MovedAcross
  <2> QED BY <2>2, Zenon DEF HeldBy, Holding, Across
<1>5. Abstract!Transfer(a, b, p, n)
  BY <1>3, <1>4, Zenon DEF Abstract!Transfer
<1> QED BY <1>3, <1>5 DEF Abstract!Next, Addr

LedgerStep == Abstract!Next \/ UNCHANGED <<HeldBy(tally), exodus_prev>>

\* A step that changes no holding is a stutter of the abstract ledger.
LEMMA HeldKept ==
  ASSUME HeldBy(tally') = HeldBy(tally), UNCHANGED exodus_prev
  PROVE  LedgerStep
BY Zenon DEF LedgerStep, HeldBy, Holding

\* Initial states map to initial states.
LEMMA InitLedger == Init => Abstract!Init
<1> SUFFICES ASSUME Init PROVE Abstract!Init
  OBVIOUS
<1>1. \A a \in Addr, p \in Property : InitBalance[a][p] \in Nat
  BY DExAssumption, TallyAssumption DEF Amount
<1>2. \A a \in Addr, p \in Property : Holding(tally, a, p) = InitBalance[a][p]
  <2> TAKE a \in Addr, p \in Property
  <2>1. /\ tally[a][p]["BALANCE"] = InitBalance[a][p] /\ tally[a][p]["SELLOFFER_RESERVE"] = 0
        /\ tally[a][p]["ACCEPT_RESERVE"] = 0 /\ tally[a][p]["METADEX_RESERVE"] = 0
    BY HeldTallyTypes, Zenon DEF Init
  <2> QED BY <1>1, <2>1 DEF Holding
<1>3. InitBalance = [a \in Addr |-> [p \in Property |-> InitBalance[a][p]]]
  BY DExAssumption
<1>4. HeldBy(tally) = InitBalance
  BY <1>2, <1>3 DEF HeldBy
<1> QED BY <1>4 DEF Abstract!Init, Init

\* A send is a transfer.
LEMMA SimpleSendLedger ==
  ASSUME IInv, NEW s \in Addr, NEW r \in Addr, NEW p \in Property, NEW n \in SendAmounts,
         SimpleSend(s, r, p, n)
  PROVE  LedgerStep
<1>1. n \in Nat \ {0} /\ UNCHANGED exodus_prev
  BY DExAssumption, TallyAssumption DEF SimpleSend, Amount
<1>2. Sound(tally)
  BY SupplyBound
<1>3. CASE CanMove(tally, p, n, s, "BALANCE", r, "BALANCE")
  <2>1. tally' = Moved(tally, p, n, s, "BALANCE", r, "BALANCE")
    BY <1>3 DEF SimpleSend, Commit
  <2> QED BY <1>1, <1>2, <1>3, <2>1, MoveTransfers, HeldTallyTypes DEF LedgerStep
<1>4. CASE ~ CanMove(tally, p, n, s, "BALANCE", r, "BALANCE")
  <2>1. tally' = tally
    BY <1>4 DEF SimpleSend, Commit
  <2> QED BY <1>1, <2>1, HeldKept
<1> QED BY <1>3, <1>4

\* DEx_offerDestroy and DEx_offerCreate move tokens of the seller only.
LEMMA ReleasedHeld ==
  ASSUME NEW T, Sound(T), NEW s \in Addr, NEW p \in Property
  PROVE  HeldBy(Released(T, s, p)) = HeldBy(T)
<1> DEFINE n == T[s][p]["SELLOFFER_RESERVE"]
<1>1. n \in Int
  BY RecordNat, HeldTallyTypes
<1>2. HeldBy(Moved(T, p, n, s, "SELLOFFER_RESERVE", s, "BALANCE")) = HeldBy(T)
  BY <1>1, MovedInside, HeldTallyTypes
<1> QED BY <1>2, Zenon DEF Released

\* Reserving tokens for an offer changes no holding.
LEMMA OfferedHeld ==
  ASSUME NEW T, Sound(T), NEW s \in Addr, NEW p \in Property, NEW n \in Int
  PROVE  HeldBy(Offered(T, s, p, n)) = HeldBy(T)
<1> DEFINE m == Lesser(n, T[s][p]["BALANCE"])
<1>1. m \in Int
  BY RecordNat, HeldTallyTypes DEF Lesser
<1>2. HeldBy(Moved(T, p, m, s, "BALANCE", s, "SELLOFFER_RESERVE")) = HeldBy(T)
  BY <1>1, MovedInside, HeldTallyTypes
<1> QED BY <1>2, Zenon DEF Offered

\* A trade offer is invisible.
LEMMA TradeOfferLedger ==
  ASSUME IInv, NEW s \in Sellers, NEW p \in {MSC, TMSC}, NEW form \in Forms, NEW n \in OfferAmounts,
         NEW d \in Desired, NEW f \in MinFees, NEW w \in Windows, TradeOffer(s, p, form, n, d, f, w)
  PROVE  LedgerStep
<1>1. s \in Addr /\ p \in Property /\ n \in Int
  BY DExAssumption, TallyAssumption DEF Amount
<1>2. UNCHANGED exodus_prev
  BY DEF TradeOffer
<1> DEFINE R == Released(tally, s, p)
<1>3. \/ tally' = tally \/ tally' = R \/ tally' = Offered(tally, s, p, n) \/ tally' = Offered(R, s, p, n)
  BY Zenon DEF TradeOffer, OfferCreate, OfferUpdate, OfferDestroy, Commit
<1>4. Sound(tally) /\ Sound(R)
  BY <1>1, SupplyBound, ReleaseGood, Zenon DEF ReleaseRule
<1>5. HeldBy(R) = HeldBy(tally)
  BY <1>1, <1>4, ReleasedHeld
<1> HIDE DEF R
<1>6. HeldBy(Offered(tally, s, p, n)) = HeldBy(tally) /\ HeldBy(Offered(R, s, p, n)) = HeldBy(R)
  BY <1>1, <1>4, OfferedHeld
<1>7. HeldBy(tally') = HeldBy(tally)
  BY <1>3, <1>5, <1>6
<1> QED BY <1>2, <1>7, HeldKept

\* An accept is invisible.
LEMMA AcceptOfferLedger ==
  ASSUME IInv, NEW b \in Buyers, NEW s \in Addr, NEW p \in {MSC, TMSC}, NEW n \in AcceptAmounts,
         NEW fee \in FeesPaid, AcceptOffer(b, s, p, n, fee)
  PROVE  LedgerStep
<1> DEFINE m == Lesser(n, tally[s][p]["SELLOFFER_RESERVE"])
           M == Moved(tally, p, m, s, "SELLOFFER_RESERVE", s, "ACCEPT_RESERVE")
<1>1. p \in Property /\ n \in Int /\ Sound(tally)
  BY DExAssumption, TallyAssumption, SupplyBound DEF Amount
<1>2. m \in Int
  BY <1>1, RecordNat, HeldTallyTypes DEF Lesser
<1>3. (tally' = M \/ tally' = tally) /\ UNCHANGED exodus_prev
  BY Zenon DEF AcceptOffer, Commit
<1>4. HeldBy(M) = HeldBy(tally)
  <2>1. "SELLOFFER_RESERVE" \in HeldTypes /\ "ACCEPT_RESERVE" \in HeldTypes
    BY HeldTallyTypes
  <2> HIDE DEF m
  <2> QED BY <1>1, <1>2, <2>1, MovedInside
<1> HIDE DEF M
<1> QED BY <1>3, <1>4, HeldKept

\* A payment is a transfer from the seller to the buyer, or invisible.
LEMMA PaymentLedger ==
  ASSUME IInv, NEW b \in Buyers, NEW s \in Addr, NEW paid \in Payments, Payment(s, b, paid)
  PROVE  LedgerStep
<1>1. b \in Addr /\ UNCHANGED exodus_prev /\ Sound(tally)
  BY DExAssumption, SupplyBound, Zenon DEF Payment
<1>2. CASE tally' = tally
  BY <1>1, <1>2, HeldKept
<1>3. ASSUME NEW p \in Property, NEW n \in Int, Settle(s, p, b, n), tally' # tally
      PROVE  LedgerStep
  <2>1. n > 0 /\ CanMove(tally, p, n, s, "ACCEPT_RESERVE", b, "BALANCE")
        /\ tally' = Moved(tally, p, n, s, "ACCEPT_RESERVE", b, "BALANCE")
    BY <1>3, Zenon DEF Settle, Commit
  <2>2. n \in Nat \ {0}
    BY <2>1
  <2> QED BY <1>1, <2>1, <2>2, MoveTransfers, HeldTallyTypes DEF LedgerStep
<1> QED BY <1>2, <1>3, PaymentSettles, Zenon

\* A block's end awards the Dev OMNI; what expires stays with its seller.
LEMMA CreditedHeld ==
  ASSUME NEW T, Sound(T), NEW a \in Addr, NEW p \in Property, NEW n \in Int
  PROVE  HeldBy(Updated(T, a, p, "BALANCE", n)) = [HeldBy(T) EXCEPT ![a][p] = @ + n]
<1> DEFINE U == Updated(T, a, p, "BALANCE", n)
           H == HeldBy(T)
           G == [H EXCEPT ![a][p] = @ + n]
<1>1. \A x \in Addr, q \in Property :
        /\ Holding(T, x, q) \in Int
        /\ Holding(U, x, q) = Holding(T, x, q) + (IF x = a /\ q = p THEN n ELSE 0)
  BY CreditedHolding, HeldInt DEF Sound
<1>2. H \in [Addr -> [Property -> Int]] /\ \A x \in Addr, q \in Property : H[x][q] = Holding(T, x, q)
  BY <1>1 DEF HeldBy
<1>3. HeldBy(U) = [x \in Addr |-> [q \in Property |-> Holding(U, x, q)]]
  BY DEF HeldBy
<1> HIDE DEF U, H
<1>4. /\ G \in [Addr -> [Property -> Int]]
      /\ \A x \in Addr, q \in Property : G[x][q] = H[x][q] + (IF x = a /\ q = p THEN n ELSE 0)
  BY <1>2
<1> HIDE DEF G
<1>5. G = [x \in Addr |-> [q \in Property |-> G[x][q]]]
  BY <1>4
<1>6. \A x \in Addr, q \in Property : G[x][q] = Holding(U, x, q)
  BY <1>1, <1>2, <1>4
<1>7. HeldBy(U) = G
  BY <1>3, <1>5, <1>6
<1> QED BY <1>7, Zenon DEF U, G, H

\* The end of a block is an award, or invisible.
LEMMA BlockEndLedger ==
  ASSUME IInv, NEW devmsc \in 0..AllReward, BlockEnd(devmsc)
  PROVE  LedgerStep
<1> DEFINE n == devmsc - exodus_prev
<1>1. exodus_prev \in Nat /\ devmsc \in Nat /\ devmsc <= AllReward /\ AllReward \in Nat
  BY DExAssumption DEF IInv, TypeOK
<1>2. MSC \in Property /\ Exodus \in Addr
  BY DExAssumption
<1>3. HeldBy(AfterExpiry) = HeldBy(tally)
  BY AfterExpiryHolding DEF HeldBy
<1>4. CASE alive' = FALSE
  <2>1. tally' = tally /\ exodus_prev' = exodus_prev
    BY <1>4, Zenon DEF BlockEnd, Commit
  <2> QED BY <2>1, HeldKept
<1>5. CASE alive' # FALSE
  <2>1. /\ Sound(AfterExpiry) /\ tally' = Awarded(AfterExpiry, devmsc)
        /\ exodus_prev' = IF devmsc > exodus_prev THEN devmsc ELSE exodus_prev
    BY <1>5, Zenon DEF BlockEnd, Commit, Sound, NonNegative
  <2>2. CASE tally' = AfterExpiry
    <3>1. exodus_prev' = exodus_prev
      <4>1. SupplyConserved' /\ SupplyConserved
        BY BlockEndInv DEF IInv
      <4>2. getTotalTokens(tally', MSC) = getTotalTokens(tally, MSC)
        BY <1>2, <2>2, AfterExpiryTotals DEF SameTotals
      <4>3. InitialSupply(MSC) \in Int
        BY <1>2, SupplyInt
      <4>4. getTotalTokens(tally, MSC) = InitialSupply(MSC) + exodus_prev
            /\ getTotalTokens(tally', MSC) = InitialSupply(MSC) + exodus_prev'
        BY <1>2, <4>1, Zenon DEF SupplyConserved, getTotalTokens, Holding
      <4>5. exodus_prev' \in Int
        BY <1>1, <2>1
      <4> QED BY <1>1, <4>2, <4>3, <4>4, <4>5
    <3> QED BY <1>3, <2>2, <3>1, HeldKept
  <2>3. CASE tally' # AfterExpiry
    <3>1. n > 0 /\ tally' = Updated(AfterExpiry, Exodus, MSC, "BALANCE", n)
      BY <2>1, <2>3, Zenon DEF Awarded
    <3>2. n \in 1..AllReward /\ exodus_prev' = exodus_prev + n /\ exodus_prev + n <= AllReward
      BY <1>1, <2>1, <3>1
    <3>3. HeldBy(tally') = [HeldBy(tally) EXCEPT ![Exodus][MSC] = @ + n]
      <4>1. HeldBy(tally') = [HeldBy(AfterExpiry) EXCEPT ![Exodus][MSC] = @ + n]
        BY <1>2, <2>1, <3>1, <3>2, CreditedHeld
      <4> QED BY <1>3, <4>1
    <3> HIDE DEF n
    <3>4. HeldBy(tally)' = [HeldBy(tally) EXCEPT ![Exodus][MSC] = @ + n]
      BY <3>3, Zenon DEF HeldBy, Holding
    <3>5. Abstract!Award(n)
      BY <3>2, <3>4 DEF Abstract!Award
    <3> QED BY <3>2, <3>5 DEF LedgerStep, Abstract!Next
  <2> QED BY <2>2, <2>3
<1> QED BY <1>4, <1>5, Zenon

\* Every step maps to a step of the abstract ledger or a stutter.
LEMMA NextLedger == IInv /\ [Next]_vars => [Abstract!Next]_<<HeldBy(tally), exodus_prev>>
<1> SUFFICES ASSUME IInv, [Next]_vars PROVE LedgerStep
  BY DEF LedgerStep
<1>1. ASSUME NEW s \in Addr, NEW r \in Addr, NEW p \in Property, NEW n \in SendAmounts,
             SimpleSend(s, r, p, n)
      PROVE  LedgerStep
  BY <1>1, SimpleSendLedger
<1>2. ASSUME NEW s \in Sellers, NEW p \in {MSC, TMSC}, NEW form \in Forms, NEW n \in OfferAmounts,
             NEW d \in Desired, NEW f \in MinFees, NEW w \in Windows, TradeOffer(s, p, form, n, d, f, w)
      PROVE  LedgerStep
  BY <1>2, TradeOfferLedger, Zenon
<1>3. ASSUME NEW b \in Buyers, NEW s \in Addr, NEW p \in {MSC, TMSC}, NEW n \in AcceptAmounts,
             NEW fee \in FeesPaid, AcceptOffer(b, s, p, n, fee)
      PROVE  LedgerStep
  BY <1>3, AcceptOfferLedger
<1>4. ASSUME NEW b \in Buyers, NEW s \in Addr, NEW paid \in Payments, Payment(s, b, paid)
      PROVE  LedgerStep
  BY <1>4, PaymentLedger, Zenon
<1>5. ASSUME NEW devmsc \in 0..AllReward, BlockEnd(devmsc)
      PROVE  LedgerStep
  BY <1>5, BlockEndLedger
<1>6. CASE UNCHANGED vars
  BY <1>6, HeldKept DEF vars
<1> QED BY <1>1, <1>2, <1>3, <1>4, <1>5, <1>6, Zenon DEF Next

\* Every step of the exchange is, for what the addresses own, a transfer by
\* an owner, an award of Dev OMNI, or nothing.
THEOREM ExchangeIsLedger == Spec => ImplementsLedger
BY Inductive, InitLedger, NextLedger, PTL DEF Spec, ImplementsLedger, Abstract!Spec
==============================================================================
