--------------------------- MODULE FreezingProofs ----------------------------
(***************************************************************************)
(* Managed properties and freezing, for every number of addresses,         *)
(* properties and blocks and all amounts.                                  *)
(***************************************************************************)
EXTENDS Freezing, TallyProofs

\* The asserts on updates need the bound on the supply (a grant or a send
\* must not overflow a record), and that the set of frozen addresses is
\* consulted before every debit.
IInv == TypeOK /\ SupplyFits /\ BalanceAssertsHold /\ FrozenOnlyWhileLive

\* What a handler that moves tokens has to establish of its new ledger.
Good(T) == Sound(T) /\ \A q \in Property : getTotalTokens(T, q) <= MaxInt
------------------------------------------------------------------------------
(***************************************************************************)
(* The updates of the handlers.                                            *)
(***************************************************************************)
\* Under the invariant the ledger is good, and a record never exceeds the
\* total of its property.
LEMMA LedgerGood ==
  ASSUME IInv
  PROVE  /\ Good(tally)
         /\ \A q \in Property : getTotalTokens(tally, q) \in Nat
         /\ \A x \in Addr, q \in Property, v \in HeldTypes :
              tally[x][q][v] \in Nat /\ tally[x][q][v] <= getTotalTokens(tally, q)
<1>1. Sound(tally)
  BY DEF IInv, TypeOK, Sound
<1>2. \A q \in Property : getTotalTokens(tally, q) <= MaxInt
  BY DEF IInv, SupplyFits
<1>3. \A x \in Addr, q \in Property, v \in HeldTypes : tally[x][q][v] \in Nat
  BY <1>1, RecordNat
<1>4. \A q \in Property :
        /\ getTotalTokens(tally, q) \in Nat
        /\ \A x \in Addr, v \in HeldTypes : tally[x][q][v] <= getTotalTokens(tally, q)
  BY <1>3, RecordWithinTotal
<1> QED BY <1>1, <1>2, <1>3, <1>4 DEF Good

\* A grant within the limit succeeds and leaves a good ledger.
LEMMA GrantGood ==
  ASSUME IInv, NEW r \in Addr, NEW p \in Property, NEW n \in Int, Grantable(p, n)
  PROVE  /\ CanUpdate(tally, r, p, "BALANCE", n)
         /\ Good(Updated(tally, r, p, "BALANCE", n))
<1> DEFINE U == Updated(tally, r, p, "BALANCE", n)
<1>1. /\ Sound(tally) /\ getTotalTokens(tally, p) \in Nat
      /\ tally[r][p]["BALANCE"] \in Nat
      /\ tally[r][p]["BALANCE"] <= getTotalTokens(tally, p)
  BY LedgerGood, HeldTallyTypes DEF Good
<1>2. n > 0 /\ n <= MaxInt - getTotalTokens(tally, p)
  BY DEF Grantable
<1>3. CanUpdate(tally, r, p, "BALANCE", n)
  BY <1>1, <1>2, TallyAssumption DEF CanUpdate, isOverflow, Int64, MinInt
<1>4. Sound(U)
  BY <1>1, <1>3, UpdatedSound, HeldTallyTypes
<1>5. \A q \in Property : getTotalTokens(U, q) = getTotalTokens(tally, q) + (IF q = p THEN n ELSE 0)
  BY <1>1, CreditedTotal
<1> HIDE DEF U
<1>6. ASSUME NEW q \in Property PROVE getTotalTokens(U, q) <= MaxInt
  <2>1. getTotalTokens(tally, q) \in Nat /\ getTotalTokens(tally, q) <= MaxInt
    BY LedgerGood DEF Good
  <2> QED BY <1>2, <1>5, <2>1, TallyAssumption
<1> QED BY <1>3, <1>4, <1>6 DEF Good, U

\* A revocation of no more than the balance succeeds, and leaves a good
\* ledger with no more tokens than before.
LEMMA RevokeGood ==
  ASSUME IInv, NEW s \in Addr, NEW p \in Property, NEW n \in Int,
         n > 0, tally[s][p]["BALANCE"] >= n
  PROVE  LET U == Updated(tally, s, p, "BALANCE", -n)
         IN  /\ CanUpdate(tally, s, p, "BALANCE", -n)
             /\ Good(U)
             /\ \A q \in Property : getTotalTokens(U, q) <= getTotalTokens(tally, q)
<1> DEFINE U == Updated(tally, s, p, "BALANCE", -n)
<1>1. /\ Sound(tally) /\ getTotalTokens(tally, p) \in Nat /\ getTotalTokens(tally, p) <= MaxInt
      /\ tally[s][p]["BALANCE"] \in Nat
      /\ tally[s][p]["BALANCE"] <= getTotalTokens(tally, p)
  BY LedgerGood, HeldTallyTypes DEF Good
<1>2. CanUpdate(tally, s, p, "BALANCE", -n)
  BY <1>1, TallyAssumption DEF CanUpdate, isOverflow, Int64, MinInt
<1>3. Sound(U)
  BY <1>1, <1>2, UpdatedSound, HeldTallyTypes
<1>4. \A q \in Property : getTotalTokens(U, q) = getTotalTokens(tally, q) + (IF q = p THEN -n ELSE 0)
  BY <1>1, CreditedTotal
<1> HIDE DEF U
<1>5. ASSUME NEW q \in Property
      PROVE  getTotalTokens(U, q) <= MaxInt /\ getTotalTokens(U, q) <= getTotalTokens(tally, q)
  <2>1. getTotalTokens(tally, q) \in Nat /\ getTotalTokens(tally, q) <= MaxInt
    BY LedgerGood DEF Good
  <2> QED BY <1>4, <2>1, TallyAssumption
<1> QED BY <1>2, <1>3, <1>5 DEF Good, U

\* A send of no more than the balance succeeds and keeps every total.
LEMMA SendGood ==
  ASSUME IInv, NEW s \in Addr, NEW r \in Addr, NEW p \in Property, NEW n \in Int,
         n > 0, tally[s][p]["BALANCE"] >= n
  PROVE  LET M == Moved(tally, p, n, s, "BALANCE", r, "BALANCE")
         IN  /\ CanMove(tally, p, n, s, "BALANCE", r, "BALANCE")
             /\ Good(M)
             /\ \A q \in Property : getTotalTokens(M, q) = getTotalTokens(tally, q)
<1> DEFINE M == Moved(tally, p, n, s, "BALANCE", r, "BALANCE")
<1>1. /\ Sound(tally) /\ tally \in Ledger /\ tally[s][p]["BALANCE"] \in Nat
      /\ \A q \in Property : getTotalTokens(tally, q) <= MaxInt
  BY LedgerGood, HeldTallyTypes DEF Good, Sound
<1>2. n \in Nat \ {0} /\ n <= tally[s][p]["BALANCE"]
  BY <1>1
<1>3. CanMove(tally, p, n, s, "BALANCE", r, "BALANCE")
  BY <1>1, <1>2, CoveredMove, HeldTallyTypes
<1>4. Sound(M)
  BY <1>1, <1>3, MovedSound, HeldTallyTypes
<1>5. \A q \in Property : getTotalTokens(M, q) = getTotalTokens(tally, q)
  BY <1>1, MovedTotal, HeldTallyTypes
<1> QED BY <1>1, <1>3, <1>4, <1>5 DEF Good

\* SendAll moves each property as a send of the whole balance would, so that
\* it leaves a good ledger with the same totals.
LEMMA SendAllGood ==
  ASSUME IInv, NEW s \in Addr, NEW r \in Addr, NEW P \in SUBSET Property,
         \A p \in P : tally[s][p]["BALANCE"] > 0
  PROVE  LET A == MovedAll(tally, P, s, r)
         IN  /\ \A p \in P : CanMove(tally, p, tally[s][p]["BALANCE"], s, "BALANCE", r, "BALANCE")
             /\ Good(A)
             /\ \A q \in Property : getTotalTokens(A, q) = getTotalTokens(tally, q)
<1> DEFINE A == MovedAll(tally, P, s, r)
           M(p) == Moved(tally, p, tally[s][p]["BALANCE"], s, "BALANCE", r, "BALANCE")
<1>1. ASSUME NEW p \in P
      PROVE  /\ CanMove(tally, p, tally[s][p]["BALANCE"], s, "BALANCE", r, "BALANCE")
             /\ Sound(M(p))
             /\ getTotalTokens(M(p), p) = getTotalTokens(tally, p)
  <2>1. tally[s][p]["BALANCE"] \in Int /\ tally[s][p]["BALANCE"] >= tally[s][p]["BALANCE"]
    BY LedgerGood, HeldTallyTypes
  <2> QED BY <2>1, SendGood DEF Good
<1>2. Sound(tally) /\ \A q \in Property : getTotalTokens(tally, q) <= MaxInt
  BY LedgerGood DEF Good
<1>3. \A x \in Addr, q \in Property : A[x][q] = IF q \in P THEN M(q)[x][q] ELSE tally[x][q]
  BY DEF MovedAll
<1>4. A \in Ledger
  <2>1. \A x \in Addr, q \in Property : A[x][q] \in [TallyType -> Int64]
    <3> HIDE DEF A, M
    <3> QED BY <1>1, <1>2, <1>3 DEF Sound, Ledger
  <2>2. A = [x \in Addr |-> [q \in Property |-> A[x][q]]]
    BY DEF MovedAll
  <2> HIDE DEF A
  <2> QED BY <2>1, <2>2 DEF Ledger
<1>5. NonNegative(A)
  <2> HIDE DEF A, M
  <2> QED BY <1>1, <1>2, <1>3 DEF Sound, NonNegative
<1>6. ASSUME NEW q \in Property PROVE getTotalTokens(A, q) = getTotalTokens(tally, q)
  <2>1. CASE q \in P
    <3>1. \A x \in Addr : Holding(A, x, q) = Holding(M(q), x, q)
      <4> HIDE DEF A, M
      <4> QED BY <1>3, <2>1 DEF Holding
    <3>2. getTotalTokens(A, q) = getTotalTokens(M(q), q)
      <4> HIDE DEF A, M
      <4> QED BY <3>1 DEF getTotalTokens
    <3> QED BY <1>1, <2>1, <3>2
  <2>2. CASE q \notin P
    <3>1. \A x \in Addr : Holding(A, x, q) = Holding(tally, x, q)
      <4> HIDE DEF A, M
      <4> QED BY <1>3, <2>2 DEF Holding
    <3> HIDE DEF A
    <3> QED BY <3>1 DEF getTotalTokens
  <2> QED BY <2>1, <2>2
<1> HIDE DEF A
<1>7. Good(A)
  BY <1>2, <1>4, <1>5, <1>6 DEF Good, Sound
<1> QED BY <1>1, <1>6, <1>7 DEF A

\* The entry disableFreezing erases is one of the property.
LEMMA LastEntryIs ==
  ASSUME TypeOK, NEW p \in Property, isFreezingEnabled(enabled, p, block)
  PROVE  LastEntry(p) \in enabled /\ LastEntry(p)[1] = p
<1> DEFINE B == MaxBlock + WaitPeriod
           D == {B - e[2] : e \in {f \in enabled : f[1] = p}}
<1>1. \A e \in enabled : e[2] \in 1..B
  BY DEF TypeOK
<1>2. B \in Nat
  BY FreezingAssumption
<1> HIDE DEF B
<1>3. D \subseteq Nat /\ D # {}
  BY <1>1, <1>2 DEF isFreezingEnabled
<1>4. PICK m \in D : \A k \in D : m <= k
  BY <1>3, LeastElement, Zenon
<1>5. PICK e \in enabled : e[1] = p /\ m = B - e[2]
  BY <1>4
<1>6. \A f \in enabled : f[1] = p => f[2] <= e[2]
  <2> SUFFICES ASSUME NEW f \in enabled, f[1] = p PROVE f[2] <= e[2]
    OBVIOUS
  <2>1. B - f[2] \in D
    OBVIOUS
  <2>2. B - e[2] <= B - f[2]
    BY <1>4, <1>5, <2>1
  <2> QED BY <1>1, <1>2, <2>2
<1>7. \E x \in enabled : x[1] = p /\ \A f \in enabled : f[1] = p => f[2] <= x[2]
  BY <1>5, <1>6
<1> QED BY <1>7 DEF LastEntry
------------------------------------------------------------------------------
(***************************************************************************)
(* Each action preserves the invariant.                                    *)
(***************************************************************************)
\* A handler whose asserts hold installs its ledger and changes no freeze
\* state.
LEMMA CommitHolds ==
  ASSUME IInv, aborted = "no", aborted' = "no", Good(tally'),
         UNCHANGED <<issuer, enabled, frozen, block>>
  PROVE  IInv'
<1>1. TypeOK'
  BY DEF IInv, TypeOK, Good, Sound
<1>2. SupplyFits'
  BY DEF SupplyFits, Good
<1>3. BalanceAssertsHold'
  BY DEF BalanceAssertsHold
<1>4. FrozenOnlyWhileLive'
  BY DEF IInv, BalanceAssertsHold, FrozenOnlyWhileLive, isFreezingEnabled
<1> QED BY <1>1, <1>2, <1>3, <1>4 DEF IInv

\* No handler but GrantTokens raises a total.
NoMoreTokens == \A q \in Property : getTotalTokens(tally', q) <= getTotalTokens(tally, q)

LEMMA GrantHolds ==
  ASSUME IInv, NEW s \in Addr, NEW p \in Property, NEW r \in Addr, NEW n \in Amounts,
         GrantTokens(s, p, r, n)
  PROVE  IInv' /\ \A q \in Property \ {p} : getTotalTokens(tally', q) <= getTotalTokens(tally, q)
<1> DEFINE U == Updated(tally, r, p, "BALANCE", n)
<1>1. n \in Int
  BY FreezingAssumption DEF Amount
<1>2. CanUpdate(tally, r, p, "BALANCE", n) /\ Good(U)
  BY <1>1, GrantGood DEF GrantTokens
<1>3. aborted = "no" /\ Commit(s, {}, CanUpdate(tally, r, p, "BALANCE", n), U)
      /\ UNCHANGED <<issuer, enabled, frozen, block>>
  BY DEF GrantTokens, ByIssuer, Accepted
<1>4. CanUpdate(tally, r, p, "BALANCE", n) = TRUE
  BY <1>2 DEF CanUpdate
<1>5. \A q \in Property : getTotalTokens(U, q) = getTotalTokens(tally, q) + (IF q = p THEN n ELSE 0)
  BY <1>1, LedgerGood, CreditedTotal DEF Good
<1>6. \A q \in Property : getTotalTokens(tally, q) \in Nat
  BY LedgerGood
<1> HIDE DEF U
<1>7. aborted' = "no" /\ tally' = U
  BY <1>3, <1>4 DEF Commit
<1>8. IInv'
  BY <1>2, <1>3, <1>7, CommitHolds
<1> QED BY <1>5, <1>6, <1>7, <1>8

LEMMA RevokeHolds ==
  ASSUME IInv, NEW s \in Addr, NEW p \in Property, NEW n \in Amounts, RevokeTokens(s, p, n)
  PROVE  IInv' /\ NoMoreTokens
<1> DEFINE U == Updated(tally, s, p, "BALANCE", -n)
<1>1. n \in Int
  BY FreezingAssumption DEF Amount
<1>2. /\ CanUpdate(tally, s, p, "BALANCE", -n) /\ Good(U)
      /\ \A q \in Property : getTotalTokens(U, q) <= getTotalTokens(tally, q)
  BY <1>1, RevokeGood DEF RevokeTokens
<1>3. aborted = "no" /\ Commit(s, {p}, CanUpdate(tally, s, p, "BALANCE", -n), U)
      /\ UNCHANGED <<issuer, enabled, frozen, block>> /\ ~ isAddressFrozen(s, p)
  BY DEF RevokeTokens, Accepted
<1>4. CanUpdate(tally, s, p, "BALANCE", -n) = TRUE
  BY <1>2 DEF CanUpdate
<1> HIDE DEF U
<1>5. aborted' = "no" /\ tally' = U
  BY <1>3, <1>4 DEF Commit
<1>6. IInv'
  BY <1>2, <1>3, <1>5, CommitHolds
<1> QED BY <1>2, <1>5, <1>6 DEF NoMoreTokens

LEMMA SendHolds ==
  ASSUME IInv, NEW s \in Addr, NEW r \in Addr, NEW p \in Property, NEW n \in Amounts,
         SimpleSend(s, r, p, n)
  PROVE  IInv' /\ NoMoreTokens
<1> DEFINE M  == Moved(tally, p, n, s, "BALANCE", r, "BALANCE")
           ok == CanMove(tally, p, n, s, "BALANCE", r, "BALANCE")
<1>1. n \in Int
  BY FreezingAssumption DEF Amount
<1>2. /\ ok /\ Good(M)
      /\ \A q \in Property : getTotalTokens(M, q) = getTotalTokens(tally, q)
  BY <1>1, SendGood, Zenon DEF SimpleSend
<1>3. aborted = "no" /\ Commit(s, {p}, ok, M)
      /\ UNCHANGED <<issuer, enabled, frozen, block>> /\ ~ isAddressFrozen(s, p)
  BY DEF SimpleSend, Accepted
<1>4. ok = TRUE
  BY <1>2, Zenon DEF CanMove, CanUpdate
<1>5. \A q \in Property : getTotalTokens(tally, q) \in Nat
  BY LedgerGood
<1> HIDE DEF M, ok
<1>6. aborted' = "no" /\ tally' = M
  BY <1>3, <1>4 DEF Commit
<1>7. IInv'
  BY <1>2, <1>3, <1>6, CommitHolds
<1> QED BY <1>2, <1>5, <1>6, <1>7 DEF NoMoreTokens

LEMMA SendAllHolds ==
  ASSUME IInv, NEW s \in Addr, NEW r \in Addr, NEW e \in {MSC, TMSC}, SendAll(s, r, e)
  PROVE  IInv' /\ NoMoreTokens
<1> DEFINE P  == SentBySendAll(s, e)
           A  == MovedAll(tally, P, s, r)
           ok == \A p \in P : CanMove(tally, p, tally[s][p]["BALANCE"], s, "BALANCE", r, "BALANCE")
<1>1. /\ P \in SUBSET Property
      /\ \A p \in P : ~ isAddressFrozen(s, p) /\ tally[s][p]["BALANCE"] > 0
  BY FreezingAssumption, Zenon DEF SentBySendAll, Ecosystem
<1>2. aborted = "no" /\ Commit(s, P, ok, A) /\ UNCHANGED <<issuer, enabled, frozen, block>>
  BY Zenon DEF SendAll
<1> HIDE DEF P
<1>3. /\ ok /\ Good(A)
      /\ \A q \in Property : getTotalTokens(A, q) = getTotalTokens(tally, q)
  BY <1>1, SendAllGood
<1>4. ok = TRUE
  BY <1>3
<1>5. \A q \in Property : getTotalTokens(tally, q) \in Nat
  BY LedgerGood
<1> HIDE DEF A, ok
<1>6. aborted' = "no" /\ tally' = A
  BY <1>1, <1>2, <1>4 DEF Commit
<1>7. IInv'
  BY <1>2, <1>3, <1>6, CommitHolds
<1> QED BY <1>3, <1>5, <1>6, <1>7 DEF NoMoreTokens

\* A handler that leaves the ledger alone keeps the bound on the supply.
LEMMA LedgerKept ==
  ASSUME IInv, UNCHANGED tally
  PROVE  SupplyFits' /\ NoMoreTokens
<1>1. \A q \in Property : getTotalTokens(tally, q) \in Nat
  BY LedgerGood, Zenon
<1> QED BY <1>1 DEF IInv, SupplyFits, NoMoreTokens

\* The issuer of a property changes hands, or is set.
LEMMA IssuerHolds ==
  ASSUME IInv, NEW p \in Property, NEW s \in Addr, issuer' = [issuer EXCEPT ![p] = s],
         UNCHANGED <<tally, enabled, frozen, block, aborted>>
  PROVE  IInv'
<1>1. TypeOK'
  BY TallyAssumption DEF IInv, TypeOK, Addr
<1>2. BalanceAssertsHold' /\ FrozenOnlyWhileLive'
  BY DEF IInv, BalanceAssertsHold, FrozenOnlyWhileLive, isFreezingEnabled
<1> QED BY <1>1, <1>2, LedgerKept DEF IInv

LEMMA EnableHolds ==
  ASSUME IInv, NEW s \in Addr, NEW p \in Property, EnableFreezing(s, p)
  PROVE  IInv'
<1> DEFINE b == IF block >= NoticeBlock THEN WaitPeriod + block ELSE block
<1>1. b \in 1..(MaxBlock + WaitPeriod)
  BY FreezingAssumption DEF IInv, TypeOK
<1>2. enabled' = enabled \cup {<<p, b>>} /\ UNCHANGED <<tally, issuer, frozen, block, aborted>>
  BY DEF EnableFreezing
<1> HIDE DEF b
<1>3. TypeOK'
  BY <1>1, <1>2 DEF IInv, TypeOK
<1>4. BalanceAssertsHold' /\ FrozenOnlyWhileLive'
  BY <1>2 DEF IInv, BalanceAssertsHold, FrozenOnlyWhileLive, isFreezingEnabled
<1> QED BY <1>2, <1>3, <1>4, LedgerKept DEF IInv

\* disableFreezing takes only entries of its own property; when no assert
\* fails it leaves nobody frozen for it.
LEMMA DisableHolds ==
  ASSUME IInv, NEW s \in Addr, NEW p \in Property, DisableFreezing(s, p)
  PROVE  /\ IInv'
         /\ \A q \in Property \ {p} :
              /\ {e \in frozen' : e[2] = q} = FrozenFor(q)
              /\ {e \in enabled' : e[1] = q} = {e \in enabled : e[1] = q}
<1>1. LastEntry(p) \in enabled /\ LastEntry(p)[1] = p
  BY LastEntryIs DEF IInv, DisableFreezing
<1> DEFINE l == LastEntry(p)
<1>2. /\ aborted = "no" /\ UNCHANGED <<tally, issuer, block>>
      /\ aborted' \in {"next element frozen", "still enabled", "no", "read past the end"}
      /\ aborted' = "no" => enabled' = enabled \ {l} /\ frozen' = frozen \ FrozenFor(p)
      /\ aborted' # "no" => UNCHANGED <<enabled, frozen>>
  BY DEF DisableFreezing, ByIssuer, Accepted, DisableOutcome
<1> HIDE DEF l
<1>3. TypeOK'
  BY <1>2 DEF IInv, TypeOK, Asserts
<1>4. BalanceAssertsHold'
  BY <1>2 DEF BalanceAssertsHold
<1>5. FrozenOnlyWhileLive'
  <2> SUFFICES ASSUME aborted' = "no", NEW e \in frozen'
               PROVE  isFreezingEnabled(enabled, e[2], block)'
    BY DEF FrozenOnlyWhileLive
  <2>1. e \in frozen /\ e[2] # p
    BY <1>2 DEF FrozenFor
  <2>2. PICK f \in enabled : f[1] = e[2] /\ block >= f[2]
    BY <1>2, <2>1 DEF IInv, FrozenOnlyWhileLive, isFreezingEnabled
  <2>3. f \in enabled'
    BY <1>1, <1>2, <2>1, <2>2 DEF l
  <2> QED BY <1>2, <2>2, <2>3 DEF isFreezingEnabled
<1>6. ASSUME NEW q \in Property \ {p}
      PROVE  /\ {e \in frozen' : e[2] = q} = FrozenFor(q)
             /\ {e \in enabled' : e[1] = q} = {e \in enabled : e[1] = q}
  BY <1>1, <1>2 DEF FrozenFor, l
<1> QED BY <1>2, <1>3, <1>4, <1>5, <1>6, LedgerKept DEF IInv

LEMMA FreezeHolds ==
  ASSUME IInv, NEW s \in Addr, NEW p \in Property, NEW r \in Addr,
         FreezeTokens(s, p, r) \/ UnfreezeTokens(s, p, r)
  PROVE  IInv'
<1>1. /\ aborted = "no" /\ isFreezingEnabled(enabled, p, block)
      /\ frozen' = frozen \cup {<<r, p>>} \/ frozen' = frozen \ {<<r, p>>}
      /\ UNCHANGED <<tally, issuer, enabled, block, aborted>>
  BY DEF FreezeTokens, UnfreezeTokens, ByIssuer, Accepted
<1>2. TypeOK'
  BY <1>1 DEF IInv, TypeOK
<1>3. BalanceAssertsHold' /\ FrozenOnlyWhileLive'
  BY <1>1 DEF IInv, BalanceAssertsHold, FrozenOnlyWhileLive, isFreezingEnabled
<1> QED BY <1>1, <1>2, <1>3, LedgerKept DEF IInv

LEMMA BlockEndHolds ==
  ASSUME IInv, BlockEnd
  PROVE  IInv'
<1>1. /\ aborted = "no" /\ block < MaxBlock /\ block' = block + 1
      /\ UNCHANGED <<tally, issuer, enabled, frozen, aborted>>
  BY DEF BlockEnd
<1>2. TypeOK'
  BY <1>1, FreezingAssumption DEF IInv, TypeOK
<1>3. \A e \in enabled : block >= e[2] => block' >= e[2]
  BY <1>1, FreezingAssumption DEF IInv, TypeOK
<1>4. BalanceAssertsHold' /\ FrozenOnlyWhileLive'
  BY <1>1, <1>3 DEF IInv, BalanceAssertsHold, FrozenOnlyWhileLive, isFreezingEnabled
<1> QED BY <1>1, <1>2, <1>4, LedgerKept DEF IInv
------------------------------------------------------------------------------
\* Nobody owns anything to begin with.
LEMMA InitHolds == Init => IInv
<1> SUFFICES ASSUME Init PROVE IInv
  OBVIOUS
<1>1. \A x \in Addr, q \in Property, v \in TallyType : tally[x][q][v] = 0
  BY DEF Init
<1>2. TypeOK
  <2>1. 0 \in Int64
    BY TallyAssumption DEF Int64, MinInt
  <2>2. tally \in Ledger
    BY <2>1 DEF Init, Ledger
  <2>3. NonNegative(tally)
    BY <1>1 DEF NonNegative
  <2> QED BY <2>2, <2>3, FreezingAssumption, TallyAssumption DEF Init, TypeOK
<1>3. ASSUME NEW q \in Property PROVE getTotalTokens(tally, q) = 0
  <2> DEFINE f == [x \in Addr |-> Holding(tally, x, q)]
  <2>1. \A x \in Addr : f[x] = 0
    BY <1>1, HeldTallyTypes DEF Holding
  <2> HIDE DEF f
  <2>2. SumUpTo(f, NumAddr) = 0
    BY <2>1, SumOfZeros, TallyAssumption DEF Addr
  <2> QED BY <2>2 DEF getTotalTokens, f
<1>4. SupplyFits
  BY <1>3, TallyAssumption DEF SupplyFits
<1> QED BY <1>2, <1>4 DEF IInv, Init, BalanceAssertsHold, FrozenOnlyWhileLive

\* Every step preserves the invariant.
LEMMA Inductive == IInv /\ [Next]_vars => IInv'
<1> SUFFICES ASSUME IInv, [Next]_vars PROVE IInv'
  OBVIOUS
<1>1. CASE BlockEnd
  BY <1>1, BlockEndHolds
<1>2. ASSUME NEW s \in Addr, NEW e \in {MSC, TMSC}, CreatePropertyManaged(s, e) PROVE IInv'
  <2>1. PICK p \in Property : issuer' = [issuer EXCEPT ![p] = s]
    BY <1>2, FreezingAssumption, Zenon DEF CreatePropertyManaged, Ecosystem
  <2>2. UNCHANGED <<tally, enabled, frozen, block, aborted>>
    BY <1>2 DEF CreatePropertyManaged
  <2> QED BY <2>1, <2>2, IssuerHolds, Zenon
<1>3. ASSUME NEW s \in Addr, NEW r \in Addr, NEW e \in {MSC, TMSC}, SendAll(s, r, e) PROVE IInv'
  BY <1>3, SendAllHolds
<1>4. ASSUME NEW s \in Addr, NEW p \in Property, EnableFreezing(s, p) \/ DisableFreezing(s, p)
      PROVE  IInv'
  BY <1>4, EnableHolds, DisableHolds
<1>5. ASSUME NEW s \in Addr, NEW p \in Property, NEW r \in Addr, ChangeIssuer(s, p, r) PROVE IInv'
  BY <1>5, IssuerHolds, Zenon DEF ChangeIssuer
<1>6. ASSUME NEW s \in Addr, NEW p \in Property, NEW r \in Addr,
             FreezeTokens(s, p, r) \/ UnfreezeTokens(s, p, r)
      PROVE  IInv'
  BY <1>6, FreezeHolds
<1>7. ASSUME NEW s \in Addr, NEW p \in Property, NEW n \in Amounts, RevokeTokens(s, p, n) PROVE IInv'
  BY <1>7, RevokeHolds
<1>8. ASSUME NEW s \in Addr, NEW p \in Property, NEW r \in Addr, NEW n \in Amounts,
             GrantTokens(s, p, r, n) \/ SimpleSend(s, r, p, n)
      PROVE  IInv'
  BY <1>8, GrantHolds, SendHolds
<1>9. CASE UNCHANGED vars
  BY <1>9 DEF vars, IInv, TypeOK, SupplyFits, BalanceAssertsHold, FrozenOnlyWhileLive, isFreezingEnabled
<1> QED BY <1>1, <1>2, <1>3, <1>4, <1>5, <1>6, <1>7, <1>8, <1>9 DEF Next

\* The invariant holds in every reachable state.
LEMMA Invariance == Spec => []IInv
BY InitHolds, Inductive, PTL DEF Spec

\* No assert on an update of the tally fails in the handlers of managed
\* properties and sends, and none of them debits a frozen address.
THEOREM NoBalanceAssertFails == Spec => []BalanceAssertsHold
<1>1. IInv => BalanceAssertsHold
  BY DEF IInv
<1> QED BY <1>1, Invariance, PTL

\* Whatever is granted and revoked, all tokens of a property fit into an
\* int64_t.
THEOREM SupplyAlwaysFits == Spec => []SupplyFits
<1>1. IInv => SupplyFits
  BY DEF IInv
<1> QED BY <1>1, Invariance, PTL

\* An address is frozen only while freezing is live for the property.
THEOREM FrozenWhileLive == Spec => []FrozenOnlyWhileLive
<1>1. IInv => FrozenOnlyWhileLive
  BY DEF IInv
<1> QED BY <1>1, Invariance, PTL
------------------------------------------------------------------------------
(***************************************************************************)
(* A frozen issuer.  Stuck(p) is what FrozenIssuerIsStuck says of one      *)
(* property and one step.                                                  *)
(***************************************************************************)
FrozenIssuer(p) == issuer[p] # 0 /\ isAddressFrozen(issuer[p], p)

Stuck(p) ==
  /\ issuer'[p] = issuer[p]
  /\ {e \in frozen' : e[2] = p} = FrozenFor(p)
  /\ {e \in enabled' : e[1] = p} = {e \in enabled : e[1] = p}
  /\ getTotalTokens(tally', p) <= getTotalTokens(tally, p)

\* A handler that changes neither issuers nor freeze state, nor adds tokens.
LEMMA QuietIsStuck ==
  ASSUME NEW p \in Property, UNCHANGED <<issuer, enabled, frozen>>,
         getTotalTokens(tally', p) <= getTotalTokens(tally, p)
  PROVE  Stuck(p)
BY DEF Stuck, FrozenFor

\* Only the issuer, while not frozen, changes the issuer, the freeze state
\* or the supply of a property.
LEMMA FrozenIssuerStep ==
  ASSUME IInv, Next, NEW p \in Property, FrozenIssuer(p)
  PROVE  Stuck(p)
<1>1. \A s \in Addr : ~ ByIssuer(s, p)
  BY DEF ByIssuer, Accepted, FrozenIssuer
<1>2. CASE BlockEnd
  BY <1>2, LedgerKept, QuietIsStuck DEF BlockEnd, NoMoreTokens
<1>3. ASSUME NEW s \in Addr, NEW e \in {MSC, TMSC}, CreatePropertyManaged(s, e) PROVE Stuck(p)
  <2>1. PICK q \in Property : issuer[q] = 0 /\ issuer' = [issuer EXCEPT ![q] = s]
    BY <1>3, FreezingAssumption, Zenon DEF CreatePropertyManaged, Ecosystem
  <2>2. UNCHANGED <<tally, enabled, frozen>>
    BY <1>3 DEF CreatePropertyManaged
  <2>3. issuer'[p] = issuer[p]
    BY <2>1 DEF FrozenIssuer, IInv, TypeOK
  <2> QED BY <2>2, <2>3, LedgerKept, Zenon DEF Stuck, FrozenFor, NoMoreTokens
<1>4. ASSUME NEW s \in Addr, NEW r \in Addr, NEW e \in {MSC, TMSC}, SendAll(s, r, e) PROVE Stuck(p)
  BY <1>4, SendAllHolds, QuietIsStuck, Zenon DEF SendAll, NoMoreTokens
<1>5. ASSUME NEW s \in Addr, NEW q \in Property, EnableFreezing(s, q) PROVE Stuck(p)
  <2>1. /\ q # p /\ UNCHANGED <<tally, issuer, frozen>>
        /\ \E b : enabled' = enabled \cup {<<q, b>>}
    BY <1>1, <1>5, Zenon DEF EnableFreezing
  <2> QED BY <2>1, LedgerKept DEF Stuck, FrozenFor, NoMoreTokens
<1>6. ASSUME NEW s \in Addr, NEW q \in Property, DisableFreezing(s, q) PROVE Stuck(p)
  <2>1. q # p /\ UNCHANGED <<tally, issuer>>
    BY <1>1, <1>6 DEF DisableFreezing
  <2>2. /\ {e \in frozen' : e[2] = p} = FrozenFor(p)
        /\ {e \in enabled' : e[1] = p} = {e \in enabled : e[1] = p}
    BY <1>6, <2>1, DisableHolds
  <2> QED BY <2>1, <2>2, LedgerKept DEF Stuck, NoMoreTokens
<1>7. ASSUME NEW s \in Addr, NEW q \in Property, NEW r \in Addr, ChangeIssuer(s, q, r) PROVE Stuck(p)
  <2>1. q # p /\ issuer' = [issuer EXCEPT ![q] = r] /\ UNCHANGED <<tally, enabled, frozen>>
    BY <1>1, <1>7 DEF ChangeIssuer
  <2>2. issuer'[p] = issuer[p]
    BY <2>1 DEF IInv, TypeOK
  <2> QED BY <2>1, <2>2, LedgerKept DEF Stuck, FrozenFor, NoMoreTokens
<1>8. ASSUME NEW s \in Addr, NEW q \in Property, NEW r \in Addr,
             FreezeTokens(s, q, r) \/ UnfreezeTokens(s, q, r)
      PROVE  Stuck(p)
  <2>1. /\ q # p /\ UNCHANGED <<tally, issuer, enabled>>
        /\ frozen' = frozen \cup {<<r, q>>} \/ frozen' = frozen \ {<<r, q>>}
    BY <1>1, <1>8 DEF FreezeTokens, UnfreezeTokens
  <2>2. {e \in frozen' : e[2] = p} = FrozenFor(p)
    BY <2>1 DEF FrozenFor
  <2> QED BY <2>1, <2>2, LedgerKept DEF Stuck, NoMoreTokens
<1>9. ASSUME NEW s \in Addr, NEW q \in Property, NEW n \in Amounts, RevokeTokens(s, q, n)
      PROVE  Stuck(p)
  BY <1>9, RevokeHolds, QuietIsStuck DEF RevokeTokens, NoMoreTokens
<1>10. ASSUME NEW s \in Addr, NEW q \in Property, NEW r \in Addr, NEW n \in Amounts,
              GrantTokens(s, q, r, n)
       PROVE  Stuck(p)
  <2>1. q # p /\ UNCHANGED <<issuer, enabled, frozen>>
    BY <1>1, <1>10 DEF GrantTokens
  <2>2. getTotalTokens(tally', p) <= getTotalTokens(tally, p)
    BY <1>10, <2>1, GrantHolds
  <2> QED BY <2>1, <2>2, QuietIsStuck
<1>11. ASSUME NEW s \in Addr, NEW q \in Property, NEW r \in Addr, NEW n \in Amounts,
              SimpleSend(s, r, q, n)
       PROVE  Stuck(p)
  BY <1>11, SendHolds, QuietIsStuck, Zenon DEF SimpleSend, NoMoreTokens
<1> QED BY <1>2, <1>3, <1>4, <1>5, <1>6, <1>7, <1>8, <1>9, <1>10, <1>11 DEF Next

\* An issuer frozen for its own property can never be thawed, replaced, or
\* issue more: each of these transactions is refused to a frozen sender
\* before it is refused to anyone but the issuer.
THEOREM FrozenIssuersAreStuck == Spec => FrozenIssuerIsStuck
<1> DEFINE Step == \A p \in Property : FrozenIssuer(p) => Stuck(p)
<1>1. IInv /\ [Next]_vars => [Step]_vars
  BY FrozenIssuerStep
<1>2. [Step]_vars => [\A p \in Property :
         (issuer[p] # 0 /\ isAddressFrozen(issuer[p], p)) =>
           /\ issuer'[p] = issuer[p]
           /\ {e \in frozen' : e[2] = p} = FrozenFor(p)
           /\ {e \in enabled' : e[1] = p} = {e \in enabled : e[1] = p}
           /\ getTotalTokens(tally', p) <= getTotalTokens(tally, p)]_vars
  BY DEF FrozenIssuer, Stuck
<1> QED BY <1>1, <1>2, Invariance, PTL DEF Spec, FrozenIssuerIsStuck
==============================================================================
