--------------------------- MODULE DExOfferProofs ----------------------------
(***************************************************************************)
(* Proofs about DEx, for any number of addresses, any properties and any   *)
(* amounts, fees, windows and payments.  First part: arithmetic, moves     *)
(* between the records of the ledger, and that the initial states satisfy and *)
(* sends, offers, accepts and payments preserve the inductive invariant.   *)
(***************************************************************************)
EXTENDS DEx, TallyProofs

(***************************************************************************)
(* Arithmetic of prices.                                                   *)
(***************************************************************************)
LEMMA DivNat ==
  ASSUME NEW m \in Nat, NEW n \in Nat \ {0}
  PROVE  m \div n \in Nat
OBVIOUS

\* A product of naturals is natural (left to the solver once).
LEMMA ProductNat ==
  ASSUME NEW m \in Nat, NEW n \in Nat
  PROVE  m * n \in Nat
OBVIOUS

\* An int64_t read as a uint64_t is in the range of uint64_t.
LEMMA UnsignedRange ==
  ASSUME NEW n \in Int
  PROVE  Unsigned(n) \in 0..(2 * MaxInt + 1)
BY TallyAssumption DEF Unsigned

\* A value converted to int64_t is in its range.
LEMMA SignedRange ==
  ASSUME NEW n \in Int
  PROVE  Signed(n) \in Int64
<1>1. n + MaxInt + 1 \in Int
  BY TallyAssumption
<1> QED BY <1>1, UnsignedRange, TallyAssumption DEF Signed, Int64, MinInt

\* A price other than 0 stays other than 0 as a uint64_t, so it may divide.
LEMMA UnsignedNonzero ==
  ASSUME NEW n \in Int64, n # 0
  PROVE  Unsigned(n) \in Nat \ {0}
BY TallyAssumption DEF Unsigned, Int64, MinInt

\* DivideAndRoundUp yields a natural number.
LEMMA RoundUpNat ==
  ASSUME NEW m \in Nat, NEW n \in Nat \ {0}
  PROVE  DivideAndRoundUp(m, n) \in Nat
<1>1. CASE m = 0
  BY <1>1 DEF DivideAndRoundUp
<1>2. CASE m # 0
  <2>1. (m - 1) \div n \in Nat
    BY <1>2, DivNat
  <2> QED BY <1>2, <2>1 DEF DivideAndRoundUp
<1> QED BY <1>1, <1>2

\* Rounding half up yields a natural number.
LEMMA RoundHalfNat ==
  ASSUME NEW m \in Nat, NEW n \in Nat \ {0}
  PROVE  DivideAndRoundHalf(m, n) \in Nat
<1>1. 2 * m + n \in Nat /\ 2 * n \in Nat \ {0}
  OBVIOUS
<1> QED BY <1>1, DivNat DEF DivideAndRoundHalf

------------------------------------------------------------------------------
(***************************************************************************)
(* Moves on the ledger within a handler.                                   *)
(***************************************************************************)
\* All tokens of each property fit into an int64_t.
Bounded(T) == \A q \in Property : getTotalTokens(T, q) <= MaxInt

SameTotals(T, U) == \A q \in Property : getTotalTokens(U, q) = getTotalTokens(T, q)

\* The initial supply is an integer.
LEMMA SupplyInt ==
  ASSUME NEW q \in Property
  PROVE  InitialSupply(q) \in Int
<1>1. \A a \in Addr : InitBalance[a][q] \in Nat
  BY DExAssumption, TallyAssumption DEF Amount
<1> QED BY <1>1, SumInt, TallyAssumption DEF InitialSupply, Addr

\* Under IInv the ledger is sound and no total exceeds int64_t.
LEMMA SupplyBound ==
  ASSUME IInv
  PROVE  Bounded(tally) /\ Sound(tally)
<1>1. ASSUME NEW q \in Property PROVE getTotalTokens(tally, q) <= MaxInt
  <2>1. InitialSupply(q) \in Int
    BY SupplyInt
  <2>2. exodus_prev \in 0..AllReward /\ AllReward \in Nat
    BY DExAssumption DEF IInv, TypeOK
  <2>3. InitialSupply(q) + AllReward <= MaxInt
    BY SupplyAssumption
  <2>4. getTotalTokens(tally, q) = InitialSupply(q) + (IF q = MSC THEN exodus_prev ELSE 0)
    BY DEF IInv, SupplyConserved
  <2> QED BY <2>1, <2>2, <2>3, <2>4, TallyAssumption
<1> QED BY <1>1 DEF Bounded, Sound, IInv, TypeOK

\* A positive move of no more than a record holds passes both asserts, and
\* keeps the ledger sound, bounded, and its totals as they were.
LEMMA GoodMove ==
  ASSUME NEW T, Sound(T), Bounded(T), NEW p \in Property, NEW n \in Nat \ {0},
         NEW a \in Addr, NEW t \in HeldTypes, NEW b \in Addr, NEW u \in HeldTypes,
         n <= T[a][p][t]
  PROVE  LET M == Moved(T, p, n, a, t, b, u)
         IN  CanMove(T, p, n, a, t, b, u) /\ Sound(M) /\ Bounded(M) /\ SameTotals(T, M)
<1> DEFINE M == Moved(T, p, n, a, t, b, u)
<1>1. CanMove(T, p, n, a, t, b, u)
  BY CoveredMove DEF Bounded
<1>2. Sound(M)
  BY <1>1, MovedSound, HeldTallyTypes
<1>3. SameTotals(T, M)
  BY MovedTotal DEF SameTotals, Sound
<1>4. Bounded(M)
  BY <1>3 DEF SameTotals, Bounded
<1> QED BY <1>1, <1>2, <1>3, <1>4

\* Whether or not the asserts hold, a handler leaves a sound ledger with the
\* same totals.
LEMMA CommittedMove ==
  ASSUME IInv, NEW p \in Property, NEW n \in Int,
         NEW a \in Addr, NEW t \in HeldTypes, NEW b \in Addr, NEW u \in HeldTypes,
         Commit(CanMove(tally, p, n, a, t, b, u), Moved(tally, p, n, a, t, b, u))
  PROVE  Sound(tally') /\ SameTotals(tally, tally') /\ alive' \in BOOLEAN
<1>1. Sound(tally)
  BY SupplyBound
<1>2. CASE CanMove(tally, p, n, a, t, b, u)
  <2>1. tally' = Moved(tally, p, n, a, t, b, u)
    BY <1>2 DEF Commit
  <2>2. Sound(tally')
    BY <1>1, <1>2, <2>1, MovedSound, HeldTallyTypes
  <2>3. SameTotals(tally, tally')
    BY <1>1, <2>1, MovedTotal DEF SameTotals, Sound
  <2> QED BY <2>2, <2>3, Zenon DEF Commit, CanMove, CanUpdate, isOverflow
<1>3. CASE ~ CanMove(tally, p, n, a, t, b, u)
  BY <1>1, <1>3, Zenon DEF Commit, SameTotals, CanMove, CanUpdate, isOverflow
<1> QED BY <1>2, <1>3

\* How ledger R differs from T once the offer of s is destroyed.
ReleaseRule(T, R, s, p) ==
  /\ Sound(R) /\ Bounded(R) /\ SameTotals(T, R)
  /\ \A x \in Addr, q \in Property :
       /\ R[x][q]["ACCEPT_RESERVE"] = T[x][q]["ACCEPT_RESERVE"]
       /\ R[x][q]["SELLOFFER_RESERVE"] = IF x = s /\ q = p THEN 0 ELSE T[x][q]["SELLOFFER_RESERVE"]

\* DEx_offerDestroy: its asserts hold, and SELLOFFER_RESERVE is empty after it.
LEMMA ReleaseGood ==
  ASSUME NEW T, Sound(T), Bounded(T), NEW s \in Addr, NEW p \in Property
  PROVE  CanRelease(T, s, p) /\ ReleaseRule(T, Released(T, s, p), s, p)
<1> DEFINE R == Released(T, s, p)
           n == T[s][p]["SELLOFFER_RESERVE"]
<1>1. n \in Nat
  BY RecordNat, HeldTallyTypes
<1>2. CASE n = 0
  BY <1>1, <1>2 DEF Released, CanRelease, SameTotals, ReleaseRule
<1>3. CASE n > 0
  <2>1. R = Moved(T, p, n, s, "SELLOFFER_RESERVE", s, "BALANCE")
    BY <1>3 DEF Released
  <2>2. CanRelease(T, s, p) /\ Sound(R) /\ Bounded(R) /\ SameTotals(T, R)
    BY <1>1, <1>3, <2>1, GoodMove, HeldTallyTypes DEF CanRelease
  <2>3. ASSUME NEW x \in Addr, NEW q \in Property
        PROVE  /\ R[x][q]["ACCEPT_RESERVE"] = T[x][q]["ACCEPT_RESERVE"]
               /\ R[x][q]["SELLOFFER_RESERVE"] = IF x = s /\ q = p THEN 0 ELSE T[x][q]["SELLOFFER_RESERVE"]
    <3>1. MoveRule(T, R, p, n, s, "SELLOFFER_RESERVE", s, "BALANCE")
      BY <1>1, <2>1, MovedHeld, HeldTallyTypes
    <3> HIDE DEF R
    <3> QED BY <1>1, <3>1, HeldTallyTypes DEF MoveRule
  <2> QED BY <2>2, <2>3 DEF ReleaseRule
<1> QED BY <1>1, <1>2, <1>3

\* DEx_offerCreate: its asserts hold, and it adds what it offers to SELLOFFER_RESERVE.
LEMMA OfferGood ==
  ASSUME NEW T, Sound(T), Bounded(T), NEW s \in Addr, NEW p \in Property, NEW n \in Nat,
         Lesser(n, T[s][p]["BALANCE"]) > 0
  PROVE  LET R == Offered(T, s, p, n)
             m == Lesser(n, T[s][p]["BALANCE"])
         IN  /\ CanOffer(T, s, p, n) /\ Sound(R) /\ Bounded(R) /\ SameTotals(T, R)
             /\ m \in Amount
             /\ \A x \in Addr, q \in Property :
                  /\ R[x][q]["ACCEPT_RESERVE"] = T[x][q]["ACCEPT_RESERVE"]
                  /\ R[x][q]["SELLOFFER_RESERVE"] = T[x][q]["SELLOFFER_RESERVE"] + IF x = s /\ q = p THEN m ELSE 0
<1> DEFINE R == Offered(T, s, p, n)
           m == Lesser(n, T[s][p]["BALANCE"])
<1>1. T[s][p]["BALANCE"] \in Nat /\ T[s][p]["BALANCE"] \in Amount
  BY RecordNat, HeldTallyTypes
<1>2. m \in Nat \ {0} /\ m <= T[s][p]["BALANCE"] /\ m \in Amount
  BY <1>1, TallyAssumption DEF Lesser, Amount
<1>3. R = Moved(T, p, m, s, "BALANCE", s, "SELLOFFER_RESERVE")
  BY DEF Offered
<1> HIDE DEF m
<1>4. CanOffer(T, s, p, n) /\ Sound(R) /\ Bounded(R) /\ SameTotals(T, R)
  BY <1>2, <1>3, GoodMove, HeldTallyTypes DEF CanOffer, m
<1>5. ASSUME NEW x \in Addr, NEW q \in Property
      PROVE  /\ R[x][q]["ACCEPT_RESERVE"] = T[x][q]["ACCEPT_RESERVE"]
             /\ R[x][q]["SELLOFFER_RESERVE"] = T[x][q]["SELLOFFER_RESERVE"] + IF x = s /\ q = p THEN m ELSE 0
  <2>1. MoveRule(T, R, p, m, s, "BALANCE", s, "SELLOFFER_RESERVE")
    BY <1>2, <1>3, MovedHeld, HeldTallyTypes
  <2> HIDE DEF R
  <2> QED BY <1>2, <2>1, HeldTallyTypes DEF MoveRule
<1> QED BY <1>2, <1>4, <1>5, Zenon DEF m
------------------------------------------------------------------------------
(***************************************************************************)
(* The inductive invariant holds initially.                                *)
(***************************************************************************)
LEMMA RecordTypes == NoOffer \in Offer /\ NoAccept \in Accept
BY TallyAssumption, DExAssumption DEF NoOffer, NoAccept, Offer, Accept, Amount, Int64, MinInt

\* The initial states satisfy the invariant.
LEMMA InitInv == Init => IInv
<1> SUFFICES ASSUME Init PROVE IInv
  OBVIOUS
<1>1. \A a \in Addr, p \in Property : InitBalance[a][p] \in Int64 /\ InitBalance[a][p] \in Nat
  BY DExAssumption, TallyAssumption DEF Amount, Int64, MinInt
<1>2. \A a \in Addr, p \in Property, t \in TallyType :
        tally[a][p][t] = IF t = "BALANCE" THEN InitBalance[a][p] ELSE 0
  BY DEF Init
<1>3. 0 \in Int64 /\ 0 \in Amount
  BY TallyAssumption DEF Int64, MinInt, Amount
<1>4. tally \in Ledger
  BY <1>1, <1>3 DEF Init, Ledger
<1>5. NonNegative(tally)
  BY <1>1, <1>2 DEF NonNegative
<1>6. TypeOK
  <2>1. offers \in [Addr -> [Property -> Offer]]
    BY RecordTypes DEF Init
  <2>2. accepts \in [Addr -> [Property -> [Addr -> Accept]]]
    BY RecordTypes DEF Init
  <2>3. block \in 1..MaxBlock /\ exodus_prev \in 0..AllReward
    BY DExAssumption DEF Init
  <2> QED BY <1>4, <1>5, <2>1, <2>2, <2>3, Zenon DEF TypeOK, Init
<1>7. SupplyConserved
  <2> SUFFICES ASSUME NEW p \in Property
               PROVE  getTotalTokens(tally, p) = InitialSupply(p) + (IF p = MSC THEN exodus_prev ELSE 0)
    BY DEF SupplyConserved
  <2> DEFINE f == [a \in Addr |-> Holding(tally, a, p)]
             g == [a \in Addr |-> InitBalance[a][p]]
  <2>1. \A a \in Addr : Holding(tally, a, p) = InitBalance[a][p]
    BY <1>1, <1>2, HeldTallyTypes DEF Holding
  <2>2. \A a \in 1..NumAddr : f[a] = g[a] /\ g[a] \in Int
    BY <1>1, <2>1 DEF Addr
  <2> HIDE DEF f, g
  <2>3. SumUpTo(f, NumAddr) = SumUpTo(g, NumAddr) /\ SumUpTo(g, NumAddr) \in Int
    BY <2>2, SumEqual, SumInt, TallyAssumption
  <2> QED BY <2>3 DEF f, g, getTotalTokens, InitialSupply, Init
<1>8. AssertsHold
  BY DEF AssertsHold, Init
<1>9. \A s \in Addr, p \in Property, b \in Addr : accepts[s][p][b] = NoAccept
  BY DEF Init
<1>10. OpenAcceptHolds
  BY <1>9 DEF OpenAcceptHolds, DEx_acceptExists, NoAccept
<1>11. AcceptReserveBacked
  <2> SUFFICES ASSUME NEW s \in Addr, NEW p \in Property
               PROVE  tally[s][p]["ACCEPT_RESERVE"] = Accepted(s, p)
    BY DEF AcceptReserveBacked
  <2> DEFINE f == [b \in Addr |-> accepts[s][p][b].remaining]
  <2>1. \A b \in 1..NumAddr : f[b] = 0
    BY <1>9 DEF Addr, NoAccept
  <2> HIDE DEF f
  <2>2. SumUpTo(f, NumAddr) = 0
    BY <2>1, SumOfZeros, TallyAssumption
  <2> QED BY <1>2, <2>2, HeldTallyTypes DEF f, Accepted
<1>12. OfferCovered
  <2>1. \A s \in Addr, p \in Property : offers[s][p].txid = 0
    BY DEF Init, NoOffer
  <2> QED BY <1>2, <2>1, HeldTallyTypes, Zenon DEF OfferCovered, DEx_offerExists
<1> QED BY <1>6, <1>7, <1>8, <1>10, <1>11, <1>12 DEF IInv

(***************************************************************************)
(* Totals and the invariants on accepts and offers carry over when nothing *)
(* they depend on changes.                                                 *)
(***************************************************************************)
LEMMA SupplyKept ==
  ASSUME IInv, SameTotals(tally, tally'), UNCHANGED exodus_prev
  PROVE  SupplyConserved'
BY DEF IInv, SupplyConserved, SameTotals

\* The sum of the accepts depends on the accepts only.
LEMMA AcceptsKept ==
  ASSUME IInv, UNCHANGED <<accepts, outOfRange>>,
         \A x \in Addr, q \in Property : tally'[x][q]["ACCEPT_RESERVE"] = tally[x][q]["ACCEPT_RESERVE"]
  PROVE  OpenAcceptHolds' /\ AcceptReserveBacked'
BY ZenonT(40) DEF IInv, OpenAcceptHolds, AcceptReserveBacked, Accepted, DEx_acceptExists

\* A step that leaves offers, accepts and SELLOFFER_RESERVE alone keeps offers covered.
LEMMA OffersKept ==
  ASSUME IInv, UNCHANGED <<offers, accepts, outOfRange>>,
         \A x \in Addr, q \in Property : tally'[x][q]["SELLOFFER_RESERVE"] = tally[x][q]["SELLOFFER_RESERVE"]
  PROVE  OfferCovered'
<1>1. \A x \in Addr, q \in Property :
        /\ AcceptedFromOffer(x, q)' = AcceptedFromOffer(x, q)
        /\ DEx_offerExists(x, q)' = DEx_offerExists(x, q)
  BY DEF AcceptedFromOffer, DEx_offerExists
<1> QED BY <1>1 DEF IInv, OfferCovered

(***************************************************************************)
(* Each action preserves the invariant.                                    *)
(***************************************************************************)
LEMMA SimpleSendInv ==
  ASSUME IInv, NEW s \in Addr, NEW r \in Addr, NEW p \in Property, NEW n \in SendAmounts,
         SimpleSend(s, r, p, n)
  PROVE  IInv'
<1>1. n \in Nat \ {0} /\ n <= tally[s][p]["BALANCE"]
  <2>1. n \in Nat /\ tally[s][p]["BALANCE"] \in Nat
    BY DExAssumption, RecordNat, SupplyBound, HeldTallyTypes DEF Amount
  <2> QED BY <2>1 DEF SimpleSend
<1> DEFINE M == Moved(tally, p, n, s, "BALANCE", r, "BALANCE")
<1>2. CanMove(tally, p, n, s, "BALANCE", r, "BALANCE") /\ Sound(M) /\ SameTotals(tally, M)
  BY <1>1, GoodMove, SupplyBound, HeldTallyTypes
<1>3. alive' = TRUE /\ tally' = M
  BY <1>2, Zenon DEF SimpleSend, Commit
<1>4. \A x \in Addr, q \in Property :
        /\ tally'[x][q]["ACCEPT_RESERVE"] = tally[x][q]["ACCEPT_RESERVE"]
        /\ tally'[x][q]["SELLOFFER_RESERVE"] = tally[x][q]["SELLOFFER_RESERVE"]
  <2>1. MoveRule(tally, M, p, n, s, "BALANCE", r, "BALANCE")
    BY <1>1, MovedHeld, HeldTallyTypes, SupplyBound
  <2> HIDE DEF M
  <2> QED BY <1>3, <2>1, HeldTallyTypes DEF MoveRule
<1>5. UNCHANGED <<offers, accepts, block, exodus_prev, outOfRange>>
  BY DEF SimpleSend
<1>6. TypeOK'
  BY <1>2, <1>3, <1>5 DEF IInv, TypeOK, Sound
<1>7. SupplyConserved' /\ AssertsHold' /\ OpenAcceptHolds' /\ AcceptReserveBacked'
  BY <1>2, <1>3, <1>4, <1>5, SupplyKept, AcceptsKept, Zenon DEF AssertsHold
<1>8. OfferCovered'
  BY <1>4, <1>5, OffersKept, Zenon
<1> QED BY <1>6, <1>7, <1>8 DEF IInv

\* DEx_offerCreate stores a record of the right type.
LEMMA OfferRecordType ==
  ASSUME NEW T, Sound(T), NEW s \in Addr, NEW p \in Property, NEW n \in OfferAmounts,
         NEW d \in Desired, NEW f \in MinFees, NEW w \in Windows, NEW h \in 1..MaxTxid,
         Lesser(n, T[s][p]["BALANCE"]) > 0
  PROVE  OfferRecord(T, s, p, n, d, f, w, h) \in Offer
<1> DEFINE available == T[s][p]["BALANCE"]
           desired == IF n > available THEN legacy_calculateDesiredBTC(n, d, available) ELSE d
<1>1. available \in Nat /\ available \in Amount /\ n \in Nat /\ n \in Amount
  BY RecordNat, HeldTallyTypes, DExAssumption DEF Amount
<1>2. d \in Int64 /\ d \in Int
  BY DExAssumption, TallyAssumption DEF Int64, MinInt
<1> HIDE DEF available
<1>3. desired \in Int64
  <2>1. CASE n > available
    <3>1. n \in Nat \ {0}
      BY <1>1, <2>1
    <3>2. Unsigned(d) \in Nat
      BY <1>2, UnsignedRange, TallyAssumption
    <3>3. Unsigned(d) * available \in Nat
      BY <1>1, <3>2, ProductNat
    <3>4. Unsigned(Unsigned(d) * available) \in Nat
      BY <3>3, UnsignedRange, TallyAssumption
    <3>5. DivideAndRoundHalf(Unsigned(Unsigned(d) * available), n) \in Nat
      BY <3>1, <3>4, RoundHalfNat
    <3> QED BY <2>1, <3>5, SignedRange DEF legacy_calculateDesiredBTC
  <2> QED BY <1>2, <2>1
<1>4. Lesser(n, available) \in Amount
  BY <1>1 DEF Lesser
<1>5. f \in Amount /\ w \in 0..255 /\ h \in 0..MaxTxid
  BY DExAssumption
<1> HIDE DEF desired
<1>6. OfferRecord(T, s, p, n, d, f, w, h) =
        [txid |-> h, amount |-> Lesser(n, available), desired |-> desired, minFee |-> f, window |-> w]
  BY Zenon DEF OfferRecord, available, desired
<1> QED BY <1>3, <1>4, <1>5, <1>6 DEF Offer

\* A new hash is that of no offer and no accept.
LEMMA NewTxidUnused ==
  ASSUME NEW h, NewTxid(h), NEW s \in Addr, NEW p \in Property, NEW b \in Addr
  PROVE  accepts[s][p][b].txid # h
BY DEF NewTxid, TxidInUse

\* Ledger T differs from tally in the balances only, except that the seller
\* has nothing left on sale.
Cleared(T, s, p) ==
  \A x \in Addr, q \in Property :
     /\ T[x][q]["ACCEPT_RESERVE"] = tally[x][q]["ACCEPT_RESERVE"]
     /\ ~ outOfRange => T[x][q]["SELLOFFER_RESERVE"] =
                          IF x = s /\ q = p THEN 0 ELSE tally[x][q]["SELLOFFER_RESERVE"]

\* A new offer is covered: no accept can have been made for it.
LEMMA OfferPlaced ==
  ASSUME IInv, NEW s \in Addr, NEW p \in Property, NEW n \in OfferAmounts,
         NEW d \in Desired, NEW f \in MinFees, NEW w \in Windows,
         NEW h \in 1..MaxTxid, NewTxid(h),
         NEW T, Sound(T), Bounded(T), SameTotals(tally, T),
         OfferValid(T, s, p, n, d, w), Cleared(T, s, p),
         CanOffer(T, s, p, n) => alive' = TRUE /\ tally' = Offered(T, s, p, n),
         offers' = [offers EXCEPT ![s][p] = OfferRecord(T, s, p, n, d, f, w, h)],
         UNCHANGED <<accepts, block, exodus_prev, outOfRange>>
  PROVE  IInv'
<1> DEFINE R == Offered(T, s, p, n)
           m == Lesser(n, T[s][p]["BALANCE"])
           rec == OfferRecord(T, s, p, n, d, f, w, h)
<1>1. m > 0 /\ n \in Nat
  BY DExAssumption DEF OfferValid, Amount
<1>2. /\ CanOffer(T, s, p, n) /\ Sound(R) /\ SameTotals(T, R) /\ m \in Amount
      /\ \A x \in Addr, q \in Property :
           /\ R[x][q]["ACCEPT_RESERVE"] = T[x][q]["ACCEPT_RESERVE"]
           /\ R[x][q]["SELLOFFER_RESERVE"] = T[x][q]["SELLOFFER_RESERVE"] + IF x = s /\ q = p THEN m ELSE 0
  BY <1>1, OfferGood
<1>3. alive' = TRUE /\ tally' = R
  BY <1>2, Zenon
<1>4. rec \in Offer /\ rec.amount = m /\ rec.txid = h
  BY <1>1, OfferRecordType, Zenon DEF OfferRecord
<1> HIDE DEF R, m, rec
<1>5. offers \in [Addr -> [Property -> Offer]]
  BY DEF IInv, TypeOK
<1>6. /\ offers' \in [Addr -> [Property -> Offer]]
      /\ offers'[s][p] = rec
      /\ \A x \in Addr, q \in Property : ~ (x = s /\ q = p) => offers'[x][q] = offers[x][q]
  BY <1>4, <1>5, Zenon DEF rec
<1>7. TypeOK'
  BY <1>2, <1>3, <1>6, Zenon DEF IInv, TypeOK, Sound
<1>8. SupplyConserved' /\ AssertsHold' /\ OpenAcceptHolds' /\ AcceptReserveBacked'
  <2>1. SameTotals(tally, tally')
    BY <1>2, <1>3, Zenon DEF SameTotals
  <2> QED BY <1>2, <1>3, <2>1, SupplyKept, AcceptsKept DEF AssertsHold, Cleared
<1>9. OfferCovered'
  <2> SUFFICES ASSUME ~ outOfRange, NEW x \in Addr, NEW q \in Property
               PROVE  IF DEx_offerExists(x, q)'
                      THEN tally'[x][q]["SELLOFFER_RESERVE"] + AcceptedFromOffer(x, q)' <= offers'[x][q].amount
                      ELSE tally'[x][q]["SELLOFFER_RESERVE"] = 0
    BY DEF OfferCovered
  <2>1. CASE x = s /\ q = p
    <3> DEFINE g == [b \in Addr |-> FromOffer(accepts[s][p][b], rec)]
    <3>1. AcceptedFromOffer(s, p)' = SumUpTo(g, NumAddr)
      <4>1. accepts' = accepts /\ offers'[s][p] = rec
        BY <1>6
      <4> QED BY <4>1 DEF AcceptedFromOffer
    <3>2. \A b \in 1..NumAddr : g[b] = 0
      BY <1>4, NewTxidUnused DEF Addr, FromOffer
    <3> HIDE DEF g
    <3>3. AcceptedFromOffer(s, p)' = 0
      BY <3>1, <3>2, SumOfZeros, TallyAssumption
    <3>4. tally'[s][p]["SELLOFFER_RESERVE"] = m /\ m \in Nat
      <4>1. T[s][p]["SELLOFFER_RESERVE"] = 0
        BY DEF Cleared
      <4>2. R[s][p]["SELLOFFER_RESERVE"] = T[s][p]["SELLOFFER_RESERVE"] + m
        BY <1>2, Zenon
      <4>3. m \in Nat
        BY <1>2, TallyAssumption DEF Amount
      <4>4. tally'[s][p]["SELLOFFER_RESERVE"] = 0 + m
        BY <1>3, <4>1, <4>2, Zenon
      <4> QED BY <4>3, <4>4
    <3>5. tally'[s][p]["SELLOFFER_RESERVE"] + AcceptedFromOffer(s, p)' <= m
      BY <3>3, <3>4
    <3>6. offers'[s][p].amount = m /\ DEx_offerExists(s, p)'
      <4>1. h # 0
        OBVIOUS
      <4> QED BY <1>4, <1>6, <4>1, Zenon DEF DEx_offerExists
    <3> QED BY <2>1, <3>5, <3>6, Zenon
  <2>2. CASE ~ (x = s /\ q = p)
    <3>1. tally[x][q]["SELLOFFER_RESERVE"] \in Nat
      BY RecordNat, SupplyBound, HeldTallyTypes
    <3>2. tally'[x][q]["SELLOFFER_RESERVE"] = tally[x][q]["SELLOFFER_RESERVE"]
      BY <1>2, <1>3, <2>2, <3>1 DEF Cleared
    <3>3. AcceptedFromOffer(x, q)' = AcceptedFromOffer(x, q) /\ DEx_offerExists(x, q)' = DEx_offerExists(x, q)
      <4>1. accepts' = accepts /\ offers'[x][q] = offers[x][q]
        BY <1>6, <2>2
      <4> QED BY <4>1 DEF AcceptedFromOffer, DEx_offerExists
    <3> QED BY <1>6, <2>2, <3>2, <3>3, Zenon DEF IInv, OfferCovered
  <2> QED BY <2>1, <2>2, Zenon
<1> QED BY <1>7, <1>8, <1>9 DEF IInv

\* A cancelled offer leaves nothing in SELLOFFER_RESERVE; IInv is kept.
LEMMA OfferDropped ==
  ASSUME IInv, NEW s \in Addr, NEW p \in Property, OfferDestroy(s, p),
         UNCHANGED <<accepts, block, exodus_prev, outOfRange>>
  PROVE  IInv'
<1> DEFINE R == Released(tally, s, p)
<1>1. /\ CanRelease(tally, s, p) /\ Sound(R) /\ SameTotals(tally, R)
      /\ \A x \in Addr, q \in Property :
           /\ R[x][q]["ACCEPT_RESERVE"] = tally[x][q]["ACCEPT_RESERVE"]
           /\ R[x][q]["SELLOFFER_RESERVE"] = IF x = s /\ q = p THEN 0 ELSE tally[x][q]["SELLOFFER_RESERVE"]
  <2>1. CanRelease(tally, s, p) /\ ReleaseRule(tally, R, s, p)
    BY SupplyBound, ReleaseGood, Zenon
  <2> QED BY <2>1, Zenon DEF ReleaseRule
<1>2. alive' = TRUE /\ tally' = R
  BY <1>1 DEF OfferDestroy, Commit
<1> HIDE DEF R
<1>3. offers \in [Addr -> [Property -> Offer]]
  BY DEF IInv, TypeOK
<1>4. /\ offers' \in [Addr -> [Property -> Offer]]
      /\ offers'[s][p].txid = 0
      /\ \A x \in Addr, q \in Property : ~ (x = s /\ q = p) => offers'[x][q] = offers[x][q]
  <2>1. offers' = [offers EXCEPT ![s][p] = NoOffer]
    BY DEF OfferDestroy
  <2> QED BY <1>3, <2>1, RecordTypes DEF NoOffer
<1>5. TypeOK'
  BY <1>1, <1>2, <1>4, Zenon DEF IInv, TypeOK, Sound
<1>6. SupplyConserved' /\ AssertsHold' /\ OpenAcceptHolds' /\ AcceptReserveBacked'
  BY <1>1, <1>2, SupplyKept, AcceptsKept DEF AssertsHold
<1>7. OfferCovered'
  <2> SUFFICES ASSUME ~ outOfRange, NEW x \in Addr, NEW q \in Property
               PROVE  IF DEx_offerExists(x, q)'
                      THEN tally'[x][q]["SELLOFFER_RESERVE"] + AcceptedFromOffer(x, q)' <= offers'[x][q].amount
                      ELSE tally'[x][q]["SELLOFFER_RESERVE"] = 0
    BY DEF OfferCovered
  <2>1. CASE x = s /\ q = p
    <3>1. ~ DEx_offerExists(x, q)'
      BY <1>4, <2>1 DEF DEx_offerExists
    <3>2. tally'[x][q]["SELLOFFER_RESERVE"] = 0
      BY <1>1, <1>2, <2>1, Zenon
    <3> QED BY <3>1, <3>2, Zenon
  <2>2. CASE ~ (x = s /\ q = p)
    <3>1. AcceptedFromOffer(x, q)' = AcceptedFromOffer(x, q) /\ DEx_offerExists(x, q)' = DEx_offerExists(x, q)
      <4>1. accepts' = accepts /\ offers'[x][q] = offers[x][q]
        BY <1>4, <2>2
      <4> QED BY <4>1, Zenon DEF AcceptedFromOffer, DEx_offerExists
    <3>2. tally'[x][q]["SELLOFFER_RESERVE"] = tally[x][q]["SELLOFFER_RESERVE"] /\ offers'[x][q] = offers[x][q]
      BY <1>1, <1>2, <1>4, <2>2, Zenon
    <3> QED BY <3>1, <3>2, Zenon DEF IInv, OfferCovered
  <2> QED BY <2>1, <2>2, Zenon
<1> QED BY <1>5, <1>6, <1>7 DEF IInv

\* A trade offer, in each of its forms, preserves the invariant.
LEMMA TradeOfferInv ==
  ASSUME IInv, NEW s \in Sellers, NEW p \in {MSC, TMSC}, NEW form \in Forms, NEW n \in OfferAmounts,
         NEW d \in Desired, NEW f \in MinFees, NEW w \in Windows, TradeOffer(s, p, form, n, d, f, w)
  PROVE  IInv'
<1>1. s \in Addr /\ p \in Property
  BY DExAssumption
<1>2. UNCHANGED <<accepts, block, exodus_prev, outOfRange>>
  BY DEF TradeOffer
<1> DEFINE op == Operation(s, p, form, n)
<1>3. PICK h \in 1..MaxTxid :
        /\ NewTxid(h)
        /\ op = "NEW" <=> ~ DEx_offerExists(s, p)
        /\ \/ op = "NEW"    /\ OfferCreate(s, p, n, d, f, w, h)
           \/ op = "UPDATE" /\ OfferUpdate(s, p, n, d, f, w, h)
           \/ op = "CANCEL" /\ OfferDestroy(s, p)
  BY DEF TradeOffer
<1> HIDE DEF op
<1>4. Sound(tally) /\ Bounded(tally)
  BY SupplyBound
<1>5. CASE op = "NEW" /\ OfferCreate(s, p, n, d, f, w, h)
  <2>1. Cleared(tally, s, p)
    BY <1>1, <1>3, <1>5, Zenon DEF IInv, OfferCovered, Cleared
  <2>2. SameTotals(tally, tally)
    BY DEF SameTotals
  <2>3. /\ OfferValid(tally, s, p, n, d, w)
        /\ CanOffer(tally, s, p, n) => alive' = TRUE /\ tally' = Offered(tally, s, p, n)
        /\ offers' = [offers EXCEPT ![s][p] = OfferRecord(tally, s, p, n, d, f, w, h)]
    BY <1>5 DEF OfferCreate, Commit
  <2> QED BY <1>1, <1>2, <1>3, <1>4, <2>1, <2>2, <2>3, OfferPlaced, Zenon
<1>6. CASE op = "UPDATE" /\ OfferUpdate(s, p, n, d, f, w, h)
  <2> DEFINE R == Released(tally, s, p)
  <2>1. /\ CanRelease(tally, s, p) /\ Sound(R) /\ Bounded(R) /\ SameTotals(tally, R)
        /\ \A x \in Addr, q \in Property :
             /\ R[x][q]["ACCEPT_RESERVE"] = tally[x][q]["ACCEPT_RESERVE"]
             /\ R[x][q]["SELLOFFER_RESERVE"] = IF x = s /\ q = p THEN 0 ELSE tally[x][q]["SELLOFFER_RESERVE"]
    <3>1. CanRelease(tally, s, p) /\ ReleaseRule(tally, R, s, p)
      BY <1>1, <1>4, ReleaseGood, Zenon
    <3> QED BY <3>1, Zenon DEF ReleaseRule
  <2>2. CASE OfferValid(R, s, p, n, d, w)
    <3>1. /\ CanOffer(R, s, p, n) => alive' = TRUE /\ tally' = Offered(R, s, p, n)
          /\ offers' = [offers EXCEPT ![s][p] = OfferRecord(R, s, p, n, d, f, w, h)]
      BY <1>6, <2>1, <2>2, ZenonT(40) DEF OfferUpdate, Commit
    <3>2. Cleared(R, s, p)
      BY <2>1, Zenon DEF Cleared
    <3> HIDE DEF R
    <3> QED BY <1>1, <1>2, <1>3, <2>1, <2>2, <3>1, <3>2, OfferPlaced, Zenon
  <2>3. CASE ~ OfferValid(R, s, p, n, d, w)
    BY <1>1, <1>2, <1>6, <2>3, OfferDropped DEF OfferUpdate
  <2> QED BY <2>2, <2>3, ZenonT(40)
<1>7. CASE op = "CANCEL" /\ OfferDestroy(s, p)
  BY <1>1, <1>2, <1>7, OfferDropped
<1> QED BY <1>3, <1>5, <1>6, <1>7
------------------------------------------------------------------------------
(***************************************************************************)
(* Accepts and payments.                                                   *)
(***************************************************************************)
\* What the accepts hold are naturals, and none holds more than ACCEPT_RESERVE.
LEMMA AcceptsBounded ==
  ASSUME IInv, ~ outOfRange, NEW s \in Addr, NEW p \in Property, NEW b \in Addr
  PROVE  /\ accepts[s][p][b].remaining \in Nat
         /\ accepts[s][p][b].remaining <= tally[s][p]["ACCEPT_RESERVE"]
<1> DEFINE f == [c \in Addr |-> accepts[s][p][c].remaining]
<1>1. \A c \in Addr : accepts[s][p][c].remaining \in Nat
  <2> TAKE c \in Addr
  <2>1. accepts[s][p][c] \in Accept
    BY DEF IInv, TypeOK
  <2>2. accepts[s][p][c].remaining \in Int
    BY <2>1, Zenon DEF Accept
  <2> QED BY <2>2 DEF IInv, OpenAcceptHolds
<1>2. \A c \in 1..NumAddr : f[c] \in Nat
  BY <1>1 DEF Addr
<1>3. tally[s][p]["ACCEPT_RESERVE"] = SumUpTo(f, NumAddr)
  BY DEF IInv, AcceptReserveBacked, Accepted
<1>4. f[b] = accepts[s][p][b].remaining
  OBVIOUS
<1> HIDE DEF f
<1>5. f[b] <= SumUpTo(f, NumAddr)
  BY <1>2, SumNat, TallyAssumption DEF Addr
<1> QED BY <1>1, <1>3, <1>4, <1>5

\* What is accepted moves from the offer to the accepts.
LEMMA NatIsInt == \A k \in Nat : k \in Int
OBVIOUS
LEMMA MinusNothing == \A k \in Nat : k - 0 = k
OBVIOUS
LEMMA Reserved == \A m, k, r \in Int : (m - r) + (k + (r - 0)) = m + k
OBVIOUS

\* What an offer still holds and what was accepted from it stay covered when an
\* accept shrinks.
LEMMA ShrinkCovered ==
  ASSUME NEW k \in Int, NEW m \in Int, NEW u \in Int, NEW v \in Int, NEW amount \in Int,
         u <= v, k + m <= amount
  PROVE  k + (m + (u - v)) <= amount
  OBVIOUS

\* One accept changes from holding old to holding new tokens: the sums follow.
LEMMA AcceptChanged ==
  ASSUME IInv, ~ outOfRange, NEW s \in Addr, NEW p \in Property, NEW b \in Addr, NEW a,
         a.remaining \in Nat,
         accepts' = [accepts EXCEPT ![s][p][b] = a]
  PROVE  /\ Accepted(s, p)' = Accepted(s, p) + (a.remaining - accepts[s][p][b].remaining)
         /\ Accepted(s, p) \in Int
         /\ \A x \in Addr, q \in Property : ~ (x = s /\ q = p) => Accepted(x, q)' = Accepted(x, q)
<1> DEFINE f == [c \in Addr |-> accepts[s][p][c].remaining]
           g == [c \in Addr |-> accepts'[s][p][c].remaining]
<1>1. accepts \in [Addr -> [Property -> [Addr -> Accept]]]
  BY DEF IInv, TypeOK
<1>2. /\ accepts'[s][p][b] = a
      /\ \A c \in Addr : c # b => accepts'[s][p][c] = accepts[s][p][c]
      /\ \A x \in Addr, q \in Property : ~ (x = s /\ q = p) => accepts'[x][q] = accepts[x][q]
  BY <1>1
<1>3. \A c \in 1..NumAddr : f[c] \in Int /\ g[c] \in Int
  BY <1>2, AcceptsBounded DEF Addr
<1>4. \A c \in 1..NumAddr : c # b => g[c] = f[c]
  BY <1>2 DEF Addr
<1>5. f[b] = accepts[s][p][b].remaining /\ g[b] = a.remaining
  BY <1>2
<1>6. Accepted(s, p) = SumUpTo(f, NumAddr) /\ Accepted(s, p)' = SumUpTo(g, NumAddr)
  BY DEF Accepted
<1> HIDE DEF f, g
<1>7. SumUpTo(g, NumAddr) = SumUpTo(f, NumAddr) + (g[b] - f[b]) /\ SumUpTo(f, NumAddr) \in Int
  <2>1. NumAddr \in Nat /\ b \in 1..NumAddr
    BY TallyAssumption DEF Addr
  <2>2. SumUpTo(g, NumAddr) = SumUpTo(f, NumAddr) + (g[b] - f[b])
    BY <1>3, <1>4, <2>1, SumChange, Zenon
  <2>3. SumUpTo(f, NumAddr) \in Int
    BY <1>3, <2>1, SumInt
  <2> QED BY <2>2, <2>3
<1>8. \A x \in Addr, q \in Property : ~ (x = s /\ q = p) => Accepted(x, q)' = Accepted(x, q)
  BY <1>2 DEF Accepted
<1> QED BY <1>5, <1>6, <1>7, <1>8

\* How one accept changes what was accepted from an offer.
LEMMA AcceptedFromOfferChanged ==
  ASSUME IInv, ~ outOfRange, NEW s \in Addr, NEW p \in Property, NEW b \in Addr, NEW a,
         a.remaining \in Nat, UNCHANGED offers,
         accepts' = [accepts EXCEPT ![s][p][b] = a]
  PROVE  /\ AcceptedFromOffer(s, p)' = AcceptedFromOffer(s, p)
              + (FromOffer(a, offers[s][p]) - FromOffer(accepts[s][p][b], offers[s][p]))
         /\ AcceptedFromOffer(s, p) \in Int
         /\ \A x \in Addr, q \in Property :
              ~ (x = s /\ q = p) => AcceptedFromOffer(x, q)' = AcceptedFromOffer(x, q)
<1> DEFINE f == [c \in Addr |-> FromOffer(accepts[s][p][c], offers[s][p])]
           g == [c \in Addr |-> FromOffer(accepts'[s][p][c], offers'[s][p])]
<1>1. accepts \in [Addr -> [Property -> [Addr -> Accept]]]
  BY DEF IInv, TypeOK
<1>2. /\ accepts'[s][p][b] = a
      /\ \A c \in Addr : c # b => accepts'[s][p][c] = accepts[s][p][c]
      /\ \A x \in Addr, q \in Property : ~ (x = s /\ q = p) => accepts'[x][q] = accepts[x][q]
  BY <1>1
<1>3. \A c \in 1..NumAddr : f[c] \in Int /\ g[c] \in Int
  BY <1>2, AcceptsBounded DEF Addr, FromOffer
<1>4. \A c \in 1..NumAddr : c # b => g[c] = f[c]
  BY <1>2 DEF Addr
<1>5. f[b] = FromOffer(accepts[s][p][b], offers[s][p]) /\ g[b] = FromOffer(a, offers[s][p])
  BY <1>2
<1>6. AcceptedFromOffer(s, p) = SumUpTo(f, NumAddr) /\ AcceptedFromOffer(s, p)' = SumUpTo(g, NumAddr)
  BY DEF AcceptedFromOffer
<1> HIDE DEF f, g
<1>7. SumUpTo(g, NumAddr) = SumUpTo(f, NumAddr) + (g[b] - f[b]) /\ SumUpTo(f, NumAddr) \in Int
  <2>1. NumAddr \in Nat /\ b \in 1..NumAddr
    BY TallyAssumption DEF Addr
  <2>2. SumUpTo(g, NumAddr) = SumUpTo(f, NumAddr) + (g[b] - f[b])
    BY <1>3, <1>4, <2>1, SumChange, ZenonT(40)
  <2>3. SumUpTo(f, NumAddr) \in Int
    BY <1>3, <2>1, SumInt
  <2> QED BY <2>2, <2>3
<1>8. \A x \in Addr, q \in Property :
        ~ (x = s /\ q = p) => AcceptedFromOffer(x, q)' = AcceptedFromOffer(x, q)
  BY <1>2 DEF AcceptedFromOffer
<1> QED BY <1>5, <1>6, <1>7, <1>8

\* An accept preserves the invariant.
LEMMA AcceptOfferInv ==
  ASSUME IInv, NEW b \in Buyers, NEW s \in Addr, NEW p \in {MSC, TMSC}, NEW n \in AcceptAmounts,
         NEW fee \in FeesPaid, AcceptOffer(b, s, p, n, fee)
  PROVE  IInv'
<1> DEFINE offer == offers[s][p]
           r == Lesser(n, tally[s][p]["SELLOFFER_RESERVE"])
           a == [txid |-> offer.txid, remaining |-> r, block |-> block, window |-> offer.window,
                 amount |-> offer.amount, desired |-> offer.desired]
           M == Moved(tally, p, r, s, "SELLOFFER_RESERVE", s, "ACCEPT_RESERVE")
<1>1. p \in Property /\ b \in Addr /\ n \in Nat
  BY DExAssumption DEF Amount
<1>2. /\ tally[s][p]["SELLOFFER_RESERVE"] \in Nat /\ tally[s][p]["ACCEPT_RESERVE"] \in Nat
      /\ Sound(tally) /\ Bounded(tally)
  BY <1>1, RecordNat, SupplyBound, HeldTallyTypes
<1>3. r \in Nat \ {0} /\ r <= tally[s][p]["SELLOFFER_RESERVE"]
  <2>1. n > 0 /\ r > 0
    BY Zenon DEF AcceptOffer
  <2> QED BY <2>1, <1>1, <1>2 DEF Lesser
<1> HIDE DEF r
<1>4. CanMove(tally, p, r, s, "SELLOFFER_RESERVE", s, "ACCEPT_RESERVE") /\ Sound(M) /\ SameTotals(tally, M)
  BY <1>1, <1>2, <1>3, GoodMove, HeldTallyTypes, Zenon
<1>5. alive' = TRUE /\ tally' = M
  BY <1>4, Zenon DEF AcceptOffer, Commit, r
<1>6. UNCHANGED <<offers, block, exodus_prev, outOfRange>> /\ accepts' = [accepts EXCEPT ![s][p][b] = a]
  BY Zenon DEF AcceptOffer, r
<1>7. \A x \in Addr, q \in Property :
        /\ tally'[x][q]["ACCEPT_RESERVE"] = tally[x][q]["ACCEPT_RESERVE"] + IF x = s /\ q = p THEN r ELSE 0
        /\ tally'[x][q]["SELLOFFER_RESERVE"] = tally[x][q]["SELLOFFER_RESERVE"] - IF x = s /\ q = p THEN r ELSE 0
  <2>1. MoveRule(tally, M, p, r, s, "SELLOFFER_RESERVE", s, "ACCEPT_RESERVE")
    <3>1. r \in Int
      BY <1>3
    <3> QED BY <3>1, <1>1, <1>2, MovedHeld, HeldTallyTypes, Zenon
  <2> HIDE DEF M
  <2>2. ASSUME NEW x \in Addr, NEW q \in Property
        PROVE  /\ M[x][q]["ACCEPT_RESERVE"] = tally[x][q]["ACCEPT_RESERVE"] + IF x = s /\ q = p THEN r ELSE 0
               /\ M[x][q]["SELLOFFER_RESERVE"] = tally[x][q]["SELLOFFER_RESERVE"] - IF x = s /\ q = p THEN r ELSE 0
    <3>1. tally[x][q]["ACCEPT_RESERVE"] \in Nat /\ tally[x][q]["SELLOFFER_RESERVE"] \in Nat
      BY <1>2, RecordNat, HeldTallyTypes, Zenon
    <3>2. /\ M[x][q]["ACCEPT_RESERVE"] = tally[x][q]["ACCEPT_RESERVE"]
               - (IF x = s /\ q = p /\ "ACCEPT_RESERVE" = "SELLOFFER_RESERVE" THEN r ELSE 0)
               + (IF x = s /\ q = p /\ "ACCEPT_RESERVE" = "ACCEPT_RESERVE" THEN r ELSE 0)
          /\ M[x][q]["SELLOFFER_RESERVE"] = tally[x][q]["SELLOFFER_RESERVE"]
               - (IF x = s /\ q = p /\ "SELLOFFER_RESERVE" = "SELLOFFER_RESERVE" THEN r ELSE 0)
               + (IF x = s /\ q = p /\ "SELLOFFER_RESERVE" = "ACCEPT_RESERVE" THEN r ELSE 0)
      BY <2>1, HeldTallyTypes, ZenonT(40) DEF MoveRule
    <3> HIDE DEF r
    <3> QED BY <1>3, <3>1, <3>2
  <2> QED BY <1>5, <2>2, ZenonT(40)
<1>8. offer \in Offer /\ offer.txid # 0 /\ accepts[s][p][b].txid = 0
  BY <1>1, Zenon DEF IInv, TypeOK, AcceptOffer, DEx_offerExists, DEx_acceptExists
<1>9. a \in Accept
  <2>1. /\ offer.txid \in 0..MaxTxid /\ offer.window \in 0..255
        /\ offer.amount \in Amount /\ offer.desired \in Int64
    BY <1>8, Zenon DEF Offer
  <2>2. block \in 0..MaxBlock
    BY DEF IInv, TypeOK
  <2>3. r \in Int
    BY <1>3
  <2> HIDE DEF offer
  <2> QED BY <2>1, <2>2, <2>3, Zenon DEF Accept
<1>10. a.remaining = r /\ a.txid = offer.txid
  OBVIOUS
<1> HIDE DEF a, M
<1>11. accepts \in [Addr -> [Property -> [Addr -> Accept]]]
  BY DEF IInv, TypeOK
<1>12. /\ accepts' \in [Addr -> [Property -> [Addr -> Accept]]]
       /\ accepts'[s][p][b] = a
       /\ \A x \in Addr, q \in Property, c \in Addr :
            ~ (x = s /\ q = p /\ c = b) => accepts'[x][q][c] = accepts[x][q][c]
  BY <1>1, <1>6, <1>9, <1>11
<1>13. TypeOK'
  BY <1>4, <1>5, <1>6, <1>12, Zenon DEF IInv, TypeOK, Sound
<1>14. SupplyConserved' /\ AssertsHold'
  BY <1>4, <1>5, <1>6, SupplyKept DEF AssertsHold
<1>15. OpenAcceptHolds'
  <2>1. a.remaining > 0 /\ outOfRange' = outOfRange
    BY <1>3, <1>6, <1>10
  <2> SUFFICES ASSUME ~ outOfRange, NEW x \in Addr, NEW q \in Property, NEW c \in Addr
               PROVE  IF accepts'[x][q][c].txid # 0 THEN accepts'[x][q][c].remaining > 0
                                                   ELSE accepts'[x][q][c].remaining = 0
    BY <2>1, Zenon DEF OpenAcceptHolds, DEx_acceptExists
  <2>2. CASE x = s /\ q = p /\ c = b
    BY <1>8, <1>10, <1>12, <2>1, <2>2, Zenon
  <2>3. CASE ~ (x = s /\ q = p /\ c = b)
    <3>1. IF accepts[x][q][c].txid # 0 THEN accepts[x][q][c].remaining > 0 ELSE accepts[x][q][c].remaining = 0
      BY Zenon DEF IInv, OpenAcceptHolds, DEx_acceptExists
    <3> QED BY <1>12, <2>3, <3>1, Zenon
  <2> QED BY <2>2, <2>3, Zenon
<1>16. CASE outOfRange
  BY <1>6, <1>13, <1>14, <1>15, <1>16 DEF IInv, AcceptReserveBacked, OfferCovered
<1>17. CASE ~ outOfRange
  <2>1. accepts[s][p][b].remaining = 0
    BY <1>1, <1>8, <1>17, Zenon DEF IInv, OpenAcceptHolds, DEx_acceptExists
  <2>2. a.remaining \in Nat
    BY <1>3, <1>10
  <2>3. AcceptReserveBacked'
    <3>1. /\ Accepted(s, p)' = Accepted(s, p) + (r - 0) /\ Accepted(s, p) \in Int
          /\ \A x \in Addr, q \in Property : ~ (x = s /\ q = p) => Accepted(x, q)' = Accepted(x, q)
      BY <1>1, <1>6, <1>10, <1>17, <2>1, <2>2, AcceptChanged, ZenonT(40)
    <3>2. \A x \in Addr, q \in Property :
            tally[x][q]["ACCEPT_RESERVE"] = Accepted(x, q) /\ tally[x][q]["ACCEPT_RESERVE"] \in Nat
      BY <1>2, <1>17, RecordNat, HeldTallyTypes, ZenonT(40) DEF IInv, AcceptReserveBacked
    <3> SUFFICES ASSUME NEW x \in Addr, NEW q \in Property
                 PROVE  tally'[x][q]["ACCEPT_RESERVE"] = Accepted(x, q)'
      BY Zenon DEF AcceptReserveBacked
    <3>3. /\ tally'[x][q]["ACCEPT_RESERVE"] = tally[x][q]["ACCEPT_RESERVE"] + IF x = s /\ q = p THEN r ELSE 0
          /\ tally[x][q]["ACCEPT_RESERVE"] = Accepted(x, q) /\ tally[x][q]["ACCEPT_RESERVE"] \in Nat
      BY <1>7, <3>2, Zenon
    <3>4. CASE x = s /\ q = p
      <4>1. tally'[x][q]["ACCEPT_RESERVE"] = Accepted(x, q) + r
        BY <3>3, <3>4, Zenon
      <4>2. Accepted(x, q)' = Accepted(x, q) + (r - 0)
        BY <3>1, <3>4, Zenon
      <4>3. r - 0 = r
        BY <1>3
      <4> QED BY <4>1, <4>2, <4>3, Zenon
    <3>5. CASE ~ (x = s /\ q = p)
      <4>1. Accepted(x, q)' = Accepted(x, q)
        BY <3>1, <3>5, Zenon
      <4>2. tally'[x][q]["ACCEPT_RESERVE"] = tally[x][q]["ACCEPT_RESERVE"] + 0
        BY <3>3, <3>5, Zenon
      <4>3. \A k \in Nat : k + 0 = k
        OBVIOUS
      <4> QED BY <4>1, <4>2, <4>3, <3>3, Zenon
    <3> QED BY <3>4, <3>5, Zenon
  <2>4. OfferCovered'
    <3>1. /\ AcceptedFromOffer(s, p)' = AcceptedFromOffer(s, p) + (r - 0)
          /\ AcceptedFromOffer(s, p) \in Int
          /\ \A x \in Addr, q \in Property :
               ~ (x = s /\ q = p) => AcceptedFromOffer(x, q)' = AcceptedFromOffer(x, q)
      <4>1. /\ AcceptedFromOffer(s, p)' = AcceptedFromOffer(s, p)
                 + (FromOffer(a, offers[s][p]) - FromOffer(accepts[s][p][b], offers[s][p]))
            /\ AcceptedFromOffer(s, p) \in Int
            /\ \A x \in Addr, q \in Property :
                 ~ (x = s /\ q = p) => AcceptedFromOffer(x, q)' = AcceptedFromOffer(x, q)
        BY <1>1, <1>6, <1>17, <2>2, AcceptedFromOfferChanged, Zenon
      <4>2. FromOffer(a, offers[s][p]) = r /\ FromOffer(accepts[s][p][b], offers[s][p]) = 0
        BY <1>8, <1>10, Zenon DEF FromOffer
      <4> QED BY <4>1, <4>2, Zenon
    <3> SUFFICES ASSUME NEW x \in Addr, NEW q \in Property
                 PROVE  IF DEx_offerExists(x, q)'
                        THEN tally'[x][q]["SELLOFFER_RESERVE"] + AcceptedFromOffer(x, q)' <= offers'[x][q].amount
                        ELSE tally'[x][q]["SELLOFFER_RESERVE"] = 0
      BY Zenon DEF OfferCovered
    <3>2. DEx_offerExists(x, q)' = DEx_offerExists(x, q) /\ offers'[x][q] = offers[x][q]
      BY <1>6 DEF DEx_offerExists
    <3>3. tally[x][q]["SELLOFFER_RESERVE"] \in Nat
      BY <1>2, RecordNat, HeldTallyTypes, Zenon
    <3>4. CASE x = s /\ q = p
      <4>1. tally[s][p]["SELLOFFER_RESERVE"] + AcceptedFromOffer(s, p) <= offer.amount
        BY <1>1, <1>8, <1>17, Zenon DEF IInv, OfferCovered, DEx_offerExists
      <4>2. tally'[s][p]["SELLOFFER_RESERVE"] + AcceptedFromOffer(s, p)'
              = tally[s][p]["SELLOFFER_RESERVE"] + AcceptedFromOffer(s, p)
        <5>1. tally'[s][p]["SELLOFFER_RESERVE"] = tally[s][p]["SELLOFFER_RESERVE"] - r
          BY <1>1, <1>7, Zenon
        <5>2. \A m, k \in Int : (m - r) + (k + (r - 0)) = m + k
          BY <1>3, NatIsInt, Reserved, Zenon
        <5>3. tally[s][p]["SELLOFFER_RESERVE"] \in Int /\ AcceptedFromOffer(s, p) \in Int
          BY <3>1, <3>3, <3>4, NatIsInt, Zenon
        <5> QED BY <5>1, <5>2, <5>3, <3>1, ZenonT(40)
      <4> QED BY <1>8, <3>2, <3>4, <4>1, <4>2, ZenonT(40) DEF DEx_offerExists
    <3>5. CASE ~ (x = s /\ q = p)
      <4>1. tally'[x][q]["SELLOFFER_RESERVE"] = tally[x][q]["SELLOFFER_RESERVE"] - 0
        BY <1>7, <3>5, Zenon
      <4>2. tally'[x][q]["SELLOFFER_RESERVE"] = tally[x][q]["SELLOFFER_RESERVE"]
        BY <3>3, <4>1, MinusNothing, Zenon
      <4>3. AcceptedFromOffer(x, q)' = AcceptedFromOffer(x, q)
        BY <3>1, <3>5, Zenon
      <4>4. IF DEx_offerExists(x, q)
            THEN tally[x][q]["SELLOFFER_RESERVE"] + AcceptedFromOffer(x, q) <= offers[x][q].amount
            ELSE tally[x][q]["SELLOFFER_RESERVE"] = 0
        BY <1>17, Zenon DEF IInv, OfferCovered
      <4> QED BY <3>2, <4>2, <4>3, <4>4, Zenon
    <3> QED BY <3>4, <3>5, Zenon
  <2> QED BY <1>13, <1>14, <1>15, <2>3, <2>4 DEF IInv
<1> QED BY <1>16, <1>17

\* A settled payment, whatever the price came to, leaves well-typed state and
\* the totals alone.
LEMMA SettleTypes ==
  ASSUME IInv, NEW s \in Addr, NEW p \in Property, NEW b \in Addr, NEW n \in Int, Settle(s, p, b, n)
  PROVE  /\ Sound(tally') /\ SameTotals(tally, tally') /\ alive' \in BOOLEAN
         /\ offers' \in [Addr -> [Property -> Offer]]
         /\ accepts' \in [Addr -> [Property -> [Addr -> Accept]]]
<1> DEFINE a == accepts[s][p][b]
           a1 == Reduced(a, n)
<1>1. Sound(tally') /\ SameTotals(tally, tally') /\ alive' \in BOOLEAN
  <2>1. CASE n > 0
    <3>1. Commit(CanMove(tally, p, n, s, "ACCEPT_RESERVE", b, "BALANCE"),
                 Moved(tally, p, n, s, "ACCEPT_RESERVE", b, "BALANCE"))
      BY <2>1, Zenon DEF Settle, Commit, CanMove, CanUpdate, isOverflow
    <3> QED BY <3>1, CommittedMove, HeldTallyTypes
  <2>2. CASE ~ (n > 0)
    <3>1. tally' = tally /\ alive' = TRUE
      BY <2>2, Zenon DEF Settle, Commit
    <3> QED BY <3>1, SupplyBound DEF SameTotals
  <2> QED BY <2>1, <2>2
<1>2. offers \in [Addr -> [Property -> Offer]] /\ accepts \in [Addr -> [Property -> [Addr -> Accept]]]
  BY DEF IInv, TypeOK
<1>3. offers' \in [Addr -> [Property -> Offer]]
  <2>1. offers' = offers \/ offers' = [offers EXCEPT ![s][p] = NoOffer]
    BY Zenon DEF Settle
  <2>2. NoOffer \in Offer
    BY RecordTypes
  <2>3. CASE offers' = offers
    BY <1>2, <2>3
  <2>4. CASE offers' = [offers EXCEPT ![s][p] = NoOffer]
    BY <1>2, <2>2, <2>4
  <2> QED BY <2>1, <2>3, <2>4
<1>4. a1 \in Accept
  <2>1. a \in Accept
    BY <1>2
  <2> HIDE DEF a
  <2> QED BY <2>1, RecordTypes DEF Accept, Reduced
<1>5. accepts' = [accepts EXCEPT ![s][p][b] = a1]
  BY Zenon DEF Settle
<1> HIDE DEF a1
<1>6. accepts' \in [Addr -> [Property -> [Addr -> Accept]]]
  BY <1>2, <1>4, <1>5
<1> QED BY <1>1, <1>3, <1>6

\* A payment for at most what the accept holds keeps the books straight.
LEMMA SettleGood ==
  ASSUME IInv, ~ outOfRange, UNCHANGED outOfRange,
         NEW s \in Addr, NEW p \in Property, NEW b \in Addr, NEW n \in Nat,
         DEx_acceptExists(s, p, b), n <= accepts[s][p][b].remaining, Settle(s, p, b, n)
  PROVE  AssertsHold' /\ OpenAcceptHolds' /\ AcceptReserveBacked' /\ OfferCovered'
<1> DEFINE a == accepts[s][p][b]
           finished == n >= a.remaining
           a1 == Reduced(a, n)
<1>1. a.remaining \in Nat /\ a.remaining <= tally[s][p]["ACCEPT_RESERVE"] /\ a.txid # 0
  BY AcceptsBounded, Zenon DEF DEx_acceptExists
<1>2. Sound(tally) /\ Bounded(tally) /\ \A x \in Addr, q \in Property, v \in HeldTypes : tally[x][q][v] \in Nat
  BY SupplyBound, RecordNat, Zenon
<1>3. /\ alive' = TRUE
      /\ \A x \in Addr, q \in Property :
           /\ tally'[x][q]["ACCEPT_RESERVE"] = tally[x][q]["ACCEPT_RESERVE"] - IF x = s /\ q = p THEN n ELSE 0
           /\ tally'[x][q]["SELLOFFER_RESERVE"] = tally[x][q]["SELLOFFER_RESERVE"]
  <2> DEFINE M == Moved(tally, p, n, s, "ACCEPT_RESERVE", b, "BALANCE")
  <2>1. CASE n > 0
    <3>1. n \in Nat \ {0} /\ n <= tally[s][p]["ACCEPT_RESERVE"]
      BY SMTT(60), <1>1, <1>2, <2>1, HeldTallyTypes
    <3>2. CanMove(tally, p, n, s, "ACCEPT_RESERVE", b, "BALANCE")
      BY <1>2, <3>1, GoodMove, HeldTallyTypes, Zenon
    <3>3. alive' = TRUE /\ tally' = M
      BY <2>1, <3>2, Zenon DEF Settle, Commit
    <3>4. MoveRule(tally, M, p, n, s, "ACCEPT_RESERVE", b, "BALANCE")
      <4>1. n \in Int
        OBVIOUS
      <4> QED BY <4>1, <1>2, MovedHeld, HeldTallyTypes, Zenon
    <3> HIDE DEF M
    <3>5. ASSUME NEW x \in Addr, NEW q \in Property
          PROVE  /\ M[x][q]["ACCEPT_RESERVE"] = tally[x][q]["ACCEPT_RESERVE"] - IF x = s /\ q = p THEN n ELSE 0
                 /\ M[x][q]["SELLOFFER_RESERVE"] = tally[x][q]["SELLOFFER_RESERVE"]
      <4>1. tally[x][q]["ACCEPT_RESERVE"] \in Nat /\ tally[x][q]["SELLOFFER_RESERVE"] \in Nat
        BY <1>2, HeldTallyTypes, Zenon
      <4>2. /\ M[x][q]["ACCEPT_RESERVE"] = tally[x][q]["ACCEPT_RESERVE"]
                 - (IF x = s /\ q = p /\ "ACCEPT_RESERVE" = "ACCEPT_RESERVE" THEN n ELSE 0)
                 + (IF x = b /\ q = p /\ "ACCEPT_RESERVE" = "BALANCE" THEN n ELSE 0)
            /\ M[x][q]["SELLOFFER_RESERVE"] = tally[x][q]["SELLOFFER_RESERVE"]
                 - (IF x = s /\ q = p /\ "SELLOFFER_RESERVE" = "ACCEPT_RESERVE" THEN n ELSE 0)
                 + (IF x = b /\ q = p /\ "SELLOFFER_RESERVE" = "BALANCE" THEN n ELSE 0)
        BY <3>4, HeldTallyTypes, ZenonT(40) DEF MoveRule
      <4>3. M[x][q]["ACCEPT_RESERVE"] = tally[x][q]["ACCEPT_RESERVE"] - IF x = s /\ q = p THEN n ELSE 0
        BY <4>1, <4>2
      <4>4. M[x][q]["SELLOFFER_RESERVE"] = tally[x][q]["SELLOFFER_RESERVE"]
        BY <4>1, <4>2
      <4> QED BY <4>3, <4>4, Zenon
    <3> QED BY <3>3, <3>5, Zenon
  <2>2. CASE n = 0
    <3>1. ~ (n > 0)
      BY <2>2
    <3>2. tally' = tally /\ alive' = TRUE
      BY <3>1, Zenon DEF Settle, Commit
    <3>3. \A x \in Addr, q \in Property : tally[x][q]["ACCEPT_RESERVE"] \in Nat
      BY <1>2, HeldTallyTypes, Zenon
    <3>4. \A x \in Addr, q \in Property : (IF x = s /\ q = p THEN n ELSE 0) = 0
      BY <2>2
    <3>5. \A x \in Addr, q \in Property :
            tally[x][q]["ACCEPT_RESERVE"] = tally[x][q]["ACCEPT_RESERVE"] - IF x = s /\ q = p THEN n ELSE 0
      BY <3>3, <3>4
    <3> QED BY <3>2, <3>5, Zenon
  <2>3. n > 0 \/ n = 0
    OBVIOUS
  <2> QED BY <2>1, <2>2, <2>3, Zenon
<1>4. accepts \in [Addr -> [Property -> [Addr -> Accept]]] /\ offers \in [Addr -> [Property -> Offer]]
  BY DEF IInv, TypeOK
<1>5. accepts' = [accepts EXCEPT ![s][p][b] = a1]
  BY ZenonT(40) DEF Settle
<1>6. /\ a1.remaining = a.remaining - n /\ a1.remaining \in Nat
      /\ IF a1.txid # 0 THEN a1.remaining > 0 /\ a1.txid = a.txid ELSE a1.remaining = 0
  <2>1. CASE finished
    <3>1. n = a.remaining /\ n - n = 0
      BY <1>1, <2>1
    <3>2. a1 = NoAccept /\ NoAccept.remaining = 0 /\ NoAccept.txid = 0
      BY <2>1 DEF NoAccept, Reduced
    <3> HIDE DEF a1, a
    <3> QED BY <3>1, <3>2
  <2>2. CASE ~ finished
    <3>1. a \in Accept
      BY <1>4
    <3>2. a1.remaining = a.remaining - n /\ a1.txid = a.txid
      BY <2>2, <3>1, Zenon DEF Accept, Reduced
    <3>3. a.remaining - n \in Nat /\ a.remaining - n > 0
      BY <1>1, <2>2
    <3> HIDE DEF a1, a
    <3> QED BY <1>1, <3>2, <3>3, Zenon
  <2> QED BY <2>1, <2>2, Zenon
<1> HIDE DEF a1, a, finished
<1>7. AssertsHold'
  BY <1>3, Zenon DEF AssertsHold
<1>8. OpenAcceptHolds'
  <2>1. /\ accepts'[s][p][b] = a1
        /\ \A x \in Addr, q \in Property, c \in Addr :
             ~ (x = s /\ q = p /\ c = b) => accepts'[x][q][c] = accepts[x][q][c]
    BY <1>4, <1>5
  <2> SUFFICES ASSUME NEW x \in Addr, NEW q \in Property, NEW c \in Addr
               PROVE  IF accepts'[x][q][c].txid # 0 THEN accepts'[x][q][c].remaining > 0
                                                   ELSE accepts'[x][q][c].remaining = 0
    BY Zenon DEF OpenAcceptHolds, DEx_acceptExists
  <2>2. CASE x = s /\ q = p /\ c = b
    BY <1>6, <2>1, <2>2, Zenon
  <2>3. CASE ~ (x = s /\ q = p /\ c = b)
    <3>1. IF accepts[x][q][c].txid # 0 THEN accepts[x][q][c].remaining > 0 ELSE accepts[x][q][c].remaining = 0
      BY Zenon DEF IInv, OpenAcceptHolds, DEx_acceptExists
    <3> QED BY <2>1, <2>3, <3>1, ZenonT(40)
  <2> QED BY <2>2, <2>3, Zenon
<1>9. AcceptReserveBacked'
  <2>1. /\ Accepted(s, p)' = Accepted(s, p) + (a1.remaining - a.remaining) /\ Accepted(s, p) \in Int
        /\ \A x \in Addr, q \in Property : ~ (x = s /\ q = p) => Accepted(x, q)' = Accepted(x, q)
    BY <1>5, <1>6, AcceptChanged, ZenonT(40) DEF a
  <2>2. \A x \in Addr, q \in Property :
          tally[x][q]["ACCEPT_RESERVE"] = Accepted(x, q) /\ tally[x][q]["ACCEPT_RESERVE"] \in Nat
    BY <1>2, HeldTallyTypes, Zenon DEF IInv, AcceptReserveBacked
  <2>3. a1.remaining - a.remaining = -n
    <3>1. \A k \in Nat : (k - n) - k = -n
      OBVIOUS
    <3> QED BY <3>1, <1>1, <1>6, Zenon
  <2> SUFFICES ASSUME NEW x \in Addr, NEW q \in Property
               PROVE  tally'[x][q]["ACCEPT_RESERVE"] = Accepted(x, q)'
    BY Zenon DEF AcceptReserveBacked
  <2>4. CASE x = s /\ q = p
    <3>1. tally'[s][p]["ACCEPT_RESERVE"] = tally[s][p]["ACCEPT_RESERVE"] - n
      BY <1>3, Zenon
    <3>2. Accepted(s, p)' = Accepted(s, p) + (-n)
      BY <2>1, <2>3, Zenon
    <3>3. tally[s][p]["ACCEPT_RESERVE"] = Accepted(s, p)
      BY <2>2, Zenon
    <3>4. tally'[s][p]["ACCEPT_RESERVE"] = Accepted(s, p)'
      BY <2>1, <3>1, <3>2, <3>3, Zenon
    <3> QED BY <2>4, <3>4, Zenon
  <2>5. CASE ~ (x = s /\ q = p)
    <3>1. tally'[x][q]["ACCEPT_RESERVE"] = tally[x][q]["ACCEPT_RESERVE"] - 0
      BY <1>3, <2>5, Zenon
    <3>2. tally[x][q]["ACCEPT_RESERVE"] = Accepted(x, q) /\ tally[x][q]["ACCEPT_RESERVE"] \in Nat
      BY <2>2, Zenon
    <3>3. Accepted(x, q)' = Accepted(x, q)
      BY <2>1, <2>5, Zenon
    <3> QED BY <3>1, <3>2, <3>3
  <2> QED BY <2>4, <2>5, Zenon
<1>10. OfferCovered'
  <2> SUFFICES ASSUME NEW x \in Addr, NEW q \in Property
               PROVE  IF DEx_offerExists(x, q)'
                      THEN tally'[x][q]["SELLOFFER_RESERVE"] + AcceptedFromOffer(x, q)' <= offers'[x][q].amount
                      ELSE tally'[x][q]["SELLOFFER_RESERVE"] = 0
    BY Zenon DEF OfferCovered
  <2>1. IF DEx_offerExists(x, q)
        THEN tally[x][q]["SELLOFFER_RESERVE"] + AcceptedFromOffer(x, q) <= offers[x][q].amount
        ELSE tally[x][q]["SELLOFFER_RESERVE"] = 0
    BY Zenon DEF IInv, OfferCovered
  <2>2. tally'[x][q]["SELLOFFER_RESERVE"] = tally[x][q]["SELLOFFER_RESERVE"] /\ tally[x][q]["SELLOFFER_RESERVE"] \in Nat
    BY <1>2, <1>3, HeldTallyTypes, Zenon
  <2>3. CASE offers' = offers
    <3>1. /\ AcceptedFromOffer(s, p)' = AcceptedFromOffer(s, p)
               + (FromOffer(a1, offers[s][p]) - FromOffer(a, offers[s][p]))
          /\ AcceptedFromOffer(s, p) \in Int
          /\ \A y \in Addr, z \in Property :
               ~ (y = s /\ z = p) => AcceptedFromOffer(y, z)' = AcceptedFromOffer(y, z)
      BY <1>5, <1>6, <2>3, AcceptedFromOfferChanged, Zenon DEF a
    <3>2. FromOffer(a1, offers[s][p]) \in Nat /\ FromOffer(a, offers[s][p]) \in Nat
      BY <1>1, <1>6, Zenon DEF FromOffer
    <3>3. FromOffer(a1, offers[s][p]) <= FromOffer(a, offers[s][p])
      <4>1. a1.remaining <= a.remaining
        BY <1>1, <1>6
      <4>2. CASE a1.txid = offers[s][p].txid /\ a1.txid # 0
        <5>1. FromOffer(a1, offers[s][p]) = a1.remaining /\ FromOffer(a, offers[s][p]) = a.remaining
          BY <1>6, <4>2, Zenon DEF FromOffer
        <5> QED BY <4>1, <5>1, Zenon
      <4>3. CASE ~ (a1.txid = offers[s][p].txid /\ a1.txid # 0)
        <5>1. FromOffer(a1, offers[s][p]) = 0
          BY <1>6, <4>3, Zenon DEF FromOffer
        <5> QED BY <3>2, <5>1
      <4> QED BY <4>2, <4>3, Zenon
    <3>4. DEx_offerExists(x, q)' = DEx_offerExists(x, q) /\ offers'[x][q] = offers[x][q]
      BY <2>3, Zenon DEF DEx_offerExists
    <3>5. CASE x = s /\ q = p
      <4>1. CASE DEx_offerExists(s, p)
        <5>1. tally[s][p]["SELLOFFER_RESERVE"] + AcceptedFromOffer(s, p) <= offers[s][p].amount
          BY <2>1, <3>5, <4>1, Zenon
        <5>2. offers[s][p].amount \in Int
          <6>1. offers[s][p] \in Offer
            BY <1>4, Zenon
          <6>2. \A o \in Offer : o.amount \in Int
            BY TallyAssumption DEF Offer, Amount
          <6> QED BY <6>1, <6>2, Zenon
        <5>3. /\ tally[s][p]["SELLOFFER_RESERVE"] \in Int
              /\ FromOffer(a1, offers[s][p]) \in Int /\ FromOffer(a, offers[s][p]) \in Int
          BY <2>2, <3>2, <3>5, NatIsInt, Zenon
        <5>4. tally[s][p]["SELLOFFER_RESERVE"]
                + (AcceptedFromOffer(s, p) + (FromOffer(a1, offers[s][p]) - FromOffer(a, offers[s][p])))
                <= offers[s][p].amount
          BY <3>1, <3>3, <5>1, <5>2, <5>3, ShrinkCovered, Zenon
        <5>5. tally[s][p]["SELLOFFER_RESERVE"] + AcceptedFromOffer(s, p)' <= offers[s][p].amount
          BY <3>1, <5>4, Zenon
        <5> QED BY <2>2, <3>4, <3>5, <4>1, <5>5, Zenon
      <4>2. CASE ~ DEx_offerExists(s, p)
        BY <2>1, <2>2, <3>4, <3>5, <4>2, Zenon
      <4> QED BY <4>1, <4>2, Zenon
    <3>6. CASE ~ (x = s /\ q = p)
      BY <2>1, <2>2, <3>1, <3>4, <3>6, Zenon
    <3> QED BY <3>5, <3>6, Zenon
  <2>4. CASE offers' # offers
    <3>1. offers' = [offers EXCEPT ![s][p] = NoOffer] /\ tally'[s][p]["SELLOFFER_RESERVE"] = 0
      <4>1. offers' = [offers EXCEPT ![s][p] = NoOffer]
        BY <2>4, Zenon DEF Settle
      <4>2. tally' = IF n > 0 THEN Moved(tally, p, n, s, "ACCEPT_RESERVE", b, "BALANCE") ELSE tally
        BY <1>3, Zenon DEF Settle, Commit
      <4>3. tally'[s][p]["SELLOFFER_RESERVE"] = 0
        BY <2>4, <4>2, Zenon DEF Settle
      <4> QED BY <4>1, <4>3
    <3>2. CASE x = s /\ q = p
      <4>1. offers'[s][p].txid = 0
        BY <1>4, <3>1, Zenon DEF NoOffer
      <4> QED BY <3>1, <3>2, <4>1 DEF DEx_offerExists
    <3>3. CASE ~ (x = s /\ q = p)
      <4>1. accepts'[x][q] = accepts[x][q] /\ offers'[x][q] = offers[x][q]
        BY <1>4, <1>5, <3>1, <3>3, Zenon
      <4>2. AcceptedFromOffer(x, q)' = AcceptedFromOffer(x, q) /\ DEx_offerExists(x, q)' = DEx_offerExists(x, q)
        BY <4>1, Zenon DEF AcceptedFromOffer, DEx_offerExists
      <4> QED BY <2>1, <2>2, <4>1, <4>2, Zenon
    <3> QED BY <3>2, <3>3, Zenon
  <2> QED BY <2>3, <2>4, Zenon
<1> QED BY <1>7, <1>8, <1>9, <1>10

\* A price within range is a natural number.
LEMMA PurchaseNat ==
  ASSUME NEW a \in Accept, NEW paid \in Payments, a.desired # 0
  PROVE  /\ legacy_calculateDExPurchase(a, paid) \in Nat
         /\ a.desired > 0 => calculateDExPurchase(a, paid) \in Nat
<1>1. paid \in Nat /\ a.amount \in Nat /\ a.desired \in Int64 /\ a.desired \in Int
  BY DExAssumption, TallyAssumption DEF Accept, Amount, Int64, MinInt
<1>2. paid * a.amount \in Nat
  BY <1>1, ProductNat
<1>3. Unsigned(a.desired) \in Nat \ {0}
  BY <1>1, UnsignedNonzero
<1>4. legacy_calculateDExPurchase(a, paid) \in Nat
  BY <1>2, <1>3, RoundHalfNat DEF legacy_calculateDExPurchase
<1>5. ASSUME a.desired > 0 PROVE calculateDExPurchase(a, paid) \in Nat
  <2>1. a.desired \in Nat \ {0}
    BY <1>1, <1>5
  <2> QED BY <1>2, <2>1, RoundUpNat DEF calculateDExPurchase
<1> QED BY <1>4, <1>5

\* A payment, priced in range or not, preserves the invariant.
LEMMA PaymentInv ==
  ASSUME IInv, NEW b \in Buyers, NEW s \in Addr, NEW paid \in Payments, Payment(s, b, paid)
  PROVE  IInv'
<1> DEFINE p == PaidProperty(s, b)
           a == accepts[s][p][b]
           purchased == IF DexMath THEN calculateDExPurchase(a, paid) ELSE legacy_calculateDExPurchase(a, paid)
<1>1. p \in Property /\ b \in Addr
  BY DExAssumption DEF PaidProperty
<1>2. DEx_acceptExists(s, p, b) /\ a.desired # 0 /\ UNCHANGED <<block, exodus_prev>>
  BY Zenon DEF Payment
<1>3. a \in Accept /\ a.remaining \in Int
  <2>1. a \in Accept
    BY <1>1 DEF IInv, TypeOK
  <2> QED BY <2>1, Zenon DEF Accept
<1>4. \/ Priceable(a, paid) /\ Settle(s, p, b, Lesser(purchased, a.remaining)) /\ UNCHANGED outOfRange
      \/ alive' = FALSE /\ outOfRange' = TRUE /\ UNCHANGED <<tally, offers, accepts>>
      \/ /\ ~ DexMath /\ outOfRange' = TRUE
         /\ \E n \in LegacyOutcome(purchased) : Settle(s, p, b, Lesser(n, a.remaining))
  BY Zenon DEF Payment
<1> HIDE DEF p, a, purchased
<1>5. CASE Priceable(a, paid) /\ Settle(s, p, b, Lesser(purchased, a.remaining)) /\ UNCHANGED outOfRange
  <2> DEFINE n == Lesser(purchased, a.remaining)
  <2>1. purchased \in Nat
    BY <1>2, <1>3, <1>5, PurchaseNat DEF Priceable, purchased
  <2>2. n \in Int /\ (a.remaining \in Nat => n \in Nat /\ n <= a.remaining)
    BY <1>3, <2>1 DEF Lesser
  <2>3. Settle(s, p, b, n)
    BY <1>5
  <2> HIDE DEF n
  <2>4. /\ Sound(tally') /\ SameTotals(tally, tally') /\ alive' \in BOOLEAN
        /\ offers' \in [Addr -> [Property -> Offer]]
        /\ accepts' \in [Addr -> [Property -> [Addr -> Accept]]]
    BY <1>1, <2>2, <2>3, SettleTypes
  <2>5. TypeOK' /\ SupplyConserved'
    BY <1>2, <1>5, <2>4, SupplyKept, Zenon DEF IInv, TypeOK, Sound
  <2>6. CASE outOfRange
    BY <1>5, <2>5, <2>6, Zenon DEF IInv, AssertsHold, OpenAcceptHolds, AcceptReserveBacked, OfferCovered
  <2>7. CASE ~ outOfRange
    <3>1. a.remaining \in Nat
      BY <1>1, <2>7, AcceptsBounded, Zenon DEF a
    <3>2. AssertsHold' /\ OpenAcceptHolds' /\ AcceptReserveBacked' /\ OfferCovered'
      BY <1>1, <1>2, <1>5, <2>2, <2>3, <2>7, <3>1, SettleGood, Zenon DEF a
    <3> QED BY <2>5, <3>2 DEF IInv
  <2> QED BY <2>6, <2>7
<1>6. CASE alive' = FALSE /\ outOfRange' = TRUE /\ UNCHANGED <<tally, offers, accepts>>
  <2>1. TypeOK' /\ SupplyConserved'
    BY <1>2, <1>6, ZenonT(40) DEF IInv, TypeOK, SupplyConserved
  <2> QED BY <1>6, <2>1, Zenon DEF IInv, AssertsHold, OpenAcceptHolds, AcceptReserveBacked, OfferCovered
<1>7. CASE /\ ~ DexMath /\ outOfRange' = TRUE
           /\ \E n \in LegacyOutcome(purchased) : Settle(s, p, b, Lesser(n, a.remaining))
  <2>1. purchased \in Int
    BY <1>2, <1>3, <1>7, PurchaseNat DEF purchased
  <2>2. LegacyOutcome(purchased) \subseteq Int64
    BY <2>1, SignedRange DEF LegacyOutcome
  <2>3. PICK m \in LegacyOutcome(purchased) : Settle(s, p, b, Lesser(m, a.remaining))
    BY <1>7
  <2> DEFINE n == Lesser(m, a.remaining)
  <2>4. n \in Int /\ Settle(s, p, b, n)
    BY <1>3, <2>2, <2>3, TallyAssumption DEF Lesser, Int64, MinInt
  <2> HIDE DEF n
  <2>5. /\ Sound(tally') /\ SameTotals(tally, tally') /\ alive' \in BOOLEAN
        /\ offers' \in [Addr -> [Property -> Offer]]
        /\ accepts' \in [Addr -> [Property -> [Addr -> Accept]]]
    BY <1>1, <2>4, SettleTypes
  <2>6. TypeOK' /\ SupplyConserved'
    BY <1>2, <1>7, <2>5, SupplyKept, Zenon DEF IInv, TypeOK, Sound
  <2> QED BY <1>7, <2>6, Zenon DEF IInv, AssertsHold, OpenAcceptHolds, AcceptReserveBacked, OfferCovered
<1> QED BY <1>4, <1>5, <1>6, <1>7, Zenon
==============================================================================
