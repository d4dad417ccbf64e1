----------------------------- MODULE FeesProofs ------------------------------
(***************************************************************************)
(* The fee cache loses and creates no token, hands out every fee that      *)
(* reaches its threshold, never fails an assert while two addresses hold   *)
(* OMNI, and can be rolled back: for any number of addresses, properties,  *)
(* blocks and transactions.                                                *)
(***************************************************************************)
EXTENDS Fees, TallyProofs

(***************************************************************************)
(* The history of a property: at most one entry per block.                 *)
(***************************************************************************)
IsHistory(h, n) ==
  /\ h \subseteq (1..n) \X Amount
  /\ \A e, f \in h : e[1] = f[1] => e = f

\* The history with the entry of block n replaced by amount v, pruned.
Written(h, n, v) == PruneCache({e \in h : e[1] # n} \cup {<<n, v>>}, n)

(***************************************************************************)
(* A change of k at p, seen from q.                                        *)
(***************************************************************************)
At(q, p, k) == IF q = p THEN k ELSE 0

(***************************************************************************)
(* Arithmetic that several steps share.                                    *)
(***************************************************************************)
LEMMA Chained ==
  ASSUME NEW i \in Nat, NEW j \in Nat, NEW k \in Nat, i >= j
  PROVE  (j >= k => i >= k) /\ (k <= j => k <= i)
OBVIOUS

LEMMA FeeNumber ==
  ASSUME NEW fee \in Nat \ {0}
  PROVE  fee \in Nat /\ fee \in Int /\ -fee \in Int
OBVIOUS

LEMMA AmountFacts ==
  ASSUME NEW n \in Amount
  PROVE  /\ n \in Nat /\ MaxInt \in Nat /\ (n > 0 => n \in Nat \ {0})
         /\ \A fee \in Amount : n > fee => /\ n \in Nat \ {0} /\ fee \in Nat
                                           /\ n - fee \in Int /\ n - fee # 0
BY TallyAssumption DEF Amount

\* Total t and cache c make up the supply; it changes by d with the total.
LEMMA SupplyMoves ==
  ASSUME NEW t \in Nat, NEW c \in Nat, NEW d \in Int, t + d \in Nat
  PROVE  (t + d) + c = (t + c) + d /\ (t + c) + d \in Nat
OBVIOUS

\* A fee leaves the total t: it is destroyed, or waits to be added to the cache c.
FeeAway(t, c, q, f, fee) ==
  /\ (t + At(q, f, -fee)) + c = (t + c) + At(q, f, -fee)
  /\ (t + At(q, f, -fee)) + c + At(q, f, fee) = t + c
  /\ (t + c) + At(q, f, -fee) \in Nat /\ (t + c) + At(q, f, -fee) <= MaxInt
  /\ t + At(q, f, -fee) <= MaxInt

LEMMA FeeLeaves ==
  ASSUME NEW t \in Nat, NEW c \in Nat, NEW q, NEW f, NEW fee \in Nat,
         t + At(q, f, -fee) \in Nat, t + c <= MaxInt
  PROVE  FeeAway(t, c, q, f, fee)
BY TallyAssumption DEF FeeAway, At

LEMMA NoChange ==
  ASSUME NEW t \in Nat, NEW q, NEW p
  PROVE  t + At(q, p, 0) = t
BY DEF At

LEMMA WithinTotal ==
  ASSUME NEW b \in Nat, NEW t \in Nat, NEW c \in Nat, NEW fee \in Nat, b <= t, t + c + fee <= MaxInt
  PROVE  b + (c + fee) <= MaxInt
BY TallyAssumption

LEMMA PartWithin ==
  ASSUME NEW t \in Nat, NEW c \in Nat, NEW i \in Nat, t + c = i, i <= MaxInt
  PROVE  t <= MaxInt
BY TallyAssumption

\* Who has b of property p and x of property f, the amount and the fee, keeps the amount.
LEMMA AmountLeft ==
  ASSUME NEW b \in Nat, NEW x \in Nat, NEW n \in Nat, NEW fee \in Nat, NEW p, NEW f,
         b >= n, x >= IF f = p THEN n + fee ELSE fee, f = p => b = x
  PROVE  n <= b + At(p, f, -fee)
BY DEF At

\* A trade of n against a fee: what the buyer has and the cache would hold is in bounds.
LEMMA FeeFits ==
  ASSUME NEW x \in Nat, NEW n \in Nat, NEW fee \in Nat, NEW t \in Nat, NEW c \in Nat,
         n > fee, x + n <= t, t + c <= MaxInt
  PROVE  x + (c + fee) <= MaxInt
BY TallyAssumption

\* The fee is added to v and w, then n leaves v, then n - fee comes back.
TradeMoved(v, w, i, n, fee, q, p) ==
  /\ (v - At(q, p, n)) + w = i - At(q, p, n - fee)
  /\ ((v - At(q, p, n)) + At(q, p, n - fee)) + w = i

LEMMA TradeMoves ==
  ASSUME NEW v \in Nat, NEW w \in Nat, NEW i \in Nat, NEW n \in Nat, NEW fee \in Nat, NEW q, NEW p,
         v + w = i + At(q, p, fee)
  PROVE  TradeMoved(v, w, i, n, fee, q, p)
BY DEF At, TradeMoved

LEMMA PriceFits ==
  ASSUME NEW x \in Nat, NEW d \in Nat, NEW w \in Nat, NEW i \in Nat, NEW n \in Nat, NEW fee \in Nat,
         n > fee, x <= d, d + w = i - (n - fee), i <= MaxInt
  PROVE  x + (n - fee) \in Amount
BY TallyAssumption DEF Amount

\* The supplies h are g after a change of k at p.
SupplyMoved(g, h, p, k) ==
  /\ h = [q \in Property |-> h[q]]
  /\ \A q \in Property : h[q] = g[q] + At(q, p, k)
  /\ \A q \in Property \ {p} : h[q] = g[q]

LEMMA SupplyAt ==
  ASSUME NEW g \in [Property -> Nat], NEW p \in Property, NEW k \in Int
  PROVE  /\ [g EXCEPT ![p] = @ - k] = [g EXCEPT ![p] = @ + (-k)]
         /\ SupplyMoved(g, [g EXCEPT ![p] = @ + k], p, k)
<1> DEFINE h == [g EXCEPT ![p] = @ + k]
<1>1. g[p] \in Nat /\ g[p] - k = g[p] + (-k)
  OBVIOUS
<1>2. [g EXCEPT ![p] = @ - k] = [g EXCEPT ![p] = @ + (-k)]
  BY <1>1, Zenon
<1>3. \A q \in Property : h[q] = g[q] + At(q, p, k)
  BY DEF At
<1>4. h = [q \in Property |-> h[q]] /\ \A q \in Property \ {p} : h[q] = g[q]
  BY Zenon
<1> QED BY <1>2, <1>3, <1>4, Zenon DEF SupplyMoved

(***************************************************************************)
(* Steps on the ledger.  Address s pays: the total of property p changes   *)
(* by k, and nobody else has less than before.                             *)
(***************************************************************************)
Paid(T, U, s, p, k) ==
  /\ Sound(U)
  /\ \A q \in Property : getTotalTokens(U, q) = getTotalTokens(T, q) + At(q, p, k)
  /\ \A x \in Addr \ {s}, q \in Property, v \in HeldTypes : U[x][q][v] >= T[x][q][v]

\* The balances of s after a change of n of property p.
BalanceMoved(T, U, s, p, n) ==
  \A q \in Property : U[s][q]["BALANCE"] = T[s][q]["BALANCE"] + At(q, p, n)

\* A change of a balance within its bounds.
LEMMA BalanceChanged ==
  ASSUME NEW T, Sound(T), NEW s \in Addr, NEW p \in Property, NEW n \in Int, n # 0,
         T[s][p]["BALANCE"] + n \in Amount
  PROVE  LET U == Updated(T, s, p, "BALANCE", n)
         IN  /\ CanUpdate(T, s, p, "BALANCE", n) /\ Paid(T, U, s, p, n)
             /\ BalanceMoved(T, U, s, p, n)
<1> DEFINE U == Updated(T, s, p, "BALANCE", n)
<1>1. "BALANCE" \in TallyType /\ HeldTypes \subseteq TallyType /\ T \in Ledger
  BY HeldTallyTypes DEF Sound
<1>2. CanUpdate(T, s, p, "BALANCE", n)
  BY TallyAssumption DEF CanUpdate, isOverflow, Int64, MinInt, Amount
<1>3. Sound(U)
  BY <1>1, <1>2, UpdatedSound
<1>4. \A q \in Property : getTotalTokens(U, q) = getTotalTokens(T, q) + At(q, p, n)
  BY CreditedTotal DEF At
<1>5. ASSUME NEW x \in Addr, NEW q \in Property, NEW v \in TallyType
      PROVE  T[x][q][v] \in Int /\ U[x][q][v] = T[x][q][v] + (IF x = s /\ q = p /\ v = "BALANCE" THEN n ELSE 0)
  BY <1>1, UpdatedValue
<1> HIDE DEF U
<1>6. \A x \in Addr \ {s}, q \in Property, v \in HeldTypes : U[x][q][v] >= T[x][q][v]
  BY <1>1, <1>5
<1>7. \A q \in Property : U[s][q]["BALANCE"] = T[s][q]["BALANCE"] + At(q, p, n)
  BY <1>1, <1>5 DEF At
<1> QED BY <1>2, <1>3, <1>4, <1>6, <1>7, Zenon DEF U, Paid, BalanceMoved

\* The sender hands n tokens out: the debit and the credits of the shares.
LEMMA HandedOut ==
  ASSUME NEW T, Sound(T), NEW s \in Addr, NEW p \in Property, NEW n \in Nat \ {0},
         n <= T[s][p]["BALANCE"], getTotalTokens(T, p) <= MaxInt,
         NEW share, \A a \in Addr : share[a] \in 0..n, SumUpTo(share, NumAddr) = n
  PROVE  LET D == Updated(T, s, p, "BALANCE", -n)
         IN  /\ CanUpdate(T, s, p, "BALANCE", -n) /\ CanCredit(D, p, share)
             /\ Paid(T, SharesCredited(D, p, share), s, p, 0)
<1> DEFINE D == Updated(T, s, p, "BALANCE", -n)
           C == SharesCredited(D, p, share)
<1>1. T[s][p]["BALANCE"] \in Nat /\ T[s][p]["BALANCE"] <= MaxInt
  BY RecordNat, HeldTallyTypes, TallyAssumption DEF Amount
<1>2. -n \in Int /\ -n # 0 /\ T[s][p]["BALANCE"] + (-n) \in Amount
  BY <1>1, TallyAssumption DEF Amount
<1>3. CanUpdate(T, s, p, "BALANCE", -n) /\ Paid(T, D, s, p, -n)
  BY <1>2, BalanceChanged
<1> HIDE DEF D
<1>4. Sound(D) /\ getTotalTokens(D, p) = getTotalTokens(T, p) + (-n)
  BY <1>3 DEF Paid, At
<1>5. getTotalTokens(T, p) \in Nat /\ getTotalTokens(D, p) \in Nat
  BY <1>4, TotalNat
<1>6. \A a \in Addr : D[a][p]["BALANCE"] \in Nat /\ D[a][p]["BALANCE"] <= getTotalTokens(D, p)
  BY <1>4, TotalNat, RecordNat, HeldTallyTypes
<1>7. \A a \in Addr : share[a] \in Nat /\ share[a] <= n
  OBVIOUS
<1>8. \A a \in Addr : D[a][p]["BALANCE"] + share[a] <= MaxInt
  BY <1>4, <1>5, <1>6, <1>7, TallyAssumption
<1>9. CreditRule(D, p, SumUpTo(share, NumAddr), share, C)
  BY <1>4, <1>7, <1>8, CreditedShares, Zenon
<1>10. CreditRule(D, p, n, share, C)
  BY <1>9
<1> HIDE DEF C
<1>11. ASSUME NEW q \in Property
       PROVE  getTotalTokens(C, q) = getTotalTokens(T, q) + At(q, p, 0)
  <2>1. getTotalTokens(C, q) = getTotalTokens(D, q) + At(q, p, n)
    BY <1>10, Zenon DEF CreditRule, At
  <2>2. getTotalTokens(D, q) = getTotalTokens(T, q) + At(q, p, -n)
    BY <1>3, Zenon DEF Paid
  <2>3. getTotalTokens(T, q) \in Nat
    BY TotalNat, Zenon
  <2> QED BY <2>1, <2>2, <2>3 DEF At
<1>12. ASSUME NEW x \in Addr \ {s}, NEW q \in Property, NEW v \in HeldTypes
       PROVE  C[x][q][v] >= T[x][q][v]
  <2>1. C[x][q][v] = D[x][q][v] + (IF q = p /\ v = "BALANCE" THEN share[x] ELSE 0)
    <3>1. x \in Addr /\ v \in TallyType
      BY HeldTallyTypes
    <3> QED BY <1>10, <3>1, ZenonT(40) DEF CreditRule
  <2>2. D[x][q][v] >= T[x][q][v]
    BY <1>3, Zenon DEF Paid
  <2>3. D[x][q][v] \in Nat /\ T[x][q][v] \in Nat
    BY <1>4, RecordNat
  <2> QED BY <2>1, <2>2, <2>3, <1>7
<1> QED BY <1>3, <1>10, <1>11, <1>12, Zenon DEF Paid, CreditRule, C, D

(***************************************************************************)
(* What EvalCache does when its asserts hold: nothing, or what is cached   *)
(* is handed out.  They hold when someone owns OMNI.                       *)
(***************************************************************************)
EvalRule(T, c, p, t, E) ==
  /\ (\E a \in Addr : Holding(T, a, FeeTarget(p)) > 0) => E.ok
  /\ E.ok => /\ FeeRule(T, c, p, 0, E.tally, E.cached)
             /\ E.cached[p] = 0 \/ E.cached[p] < t
  /\ c[p] < t => E.cached = c

LEMMA Evaluated ==
  ASSUME NEW T, Sound(T), NEW c \in [Property -> Nat], NEW p \in Property, NEW t \in Nat,
         FeeTarget(p) \in Property,
         \A a \in Addr : T[a][p]["BALANCE"] + c[p] <= MaxInt
  PROVE  EvalRule(T, c, p, t, EvalCache(T, c, p, t))
<1> DEFINE E == EvalCache(T, c, p, t)
           n == c[p]
           share == STO_GetReceivers(T, 0, FeeTarget(p), n)
<1>1. E = IF n >= t
            THEN [tally |-> SharesCredited(T, p, share), cached |-> [c EXCEPT ![p] = 0],
                  ok |-> CanCredit(T, p, share) /\ SumUpTo(share, NumAddr) = n]
            ELSE [tally |-> T, cached |-> c, ok |-> TRUE]
  BY Zenon DEF EvalCache
<1>2. n \in Nat /\ c[p] = n
  OBVIOUS
<1>3. \A x \in Addr, q \in Property, v \in TallyType : T[x][q][v] \in Int
  <2>1. \A x \in Addr, q \in Property, v \in TallyType : T[x][q][v] \in Int64
    BY DEF Ledger, Sound
  <2> QED BY <2>1, TallyAssumption DEF Int64, MinInt
<1>4. \A q \in Property : getTotalTokens(T, q) \in Nat
  BY TotalNat
<1>5. CASE n >= t
  <2>1. /\ \A a \in Addr : share[a] \in 0..n
        /\ (\E a \in Addr \ {0} : Holding(T, a, FeeTarget(p)) > 0) => SumUpTo(share, NumAddr) = n
    <3> HIDE DEF n
    <3> QED BY <1>2, DistributionExact, Zenon
  <2>2. E.tally = SharesCredited(T, p, share) /\ E.cached = [c EXCEPT ![p] = 0]
        /\ E.ok = (CanCredit(T, p, share) /\ SumUpTo(share, NumAddr) = n)
    BY <1>1, <1>5
  <2>3. E.cached \in [Property -> Nat] /\ E.cached[p] = 0 /\ \A q \in Property : q # p => E.cached[q] = c[q]
    BY <2>2
  <2> HIDE DEF share, n, E
  <2>4. \A a \in Addr : share[a] \in Nat /\ share[a] <= n
    BY <2>1, <1>2
  <2>5. \A a \in Addr : T[a][p]["BALANCE"] \in Nat
    BY RecordNat, HeldTallyTypes
  <2>6. \A a \in Addr : T[a][p]["BALANCE"] + share[a] <= MaxInt
    BY <2>4, <2>5, <1>2, TallyAssumption
  <2>7. CreditRule(T, p, SumUpTo(share, NumAddr), share, E.tally)
    <3>1. CreditRule(T, p, SumUpTo(share, NumAddr), share, SharesCredited(T, p, share))
      BY <2>4, <2>6, CreditedShares, Zenon
    <3> QED BY <2>2, <3>1, Zenon
  <2>8. (\E a \in Addr : Holding(T, a, FeeTarget(p)) > 0) => E.ok
    <3>1. Addr \ {0} = Addr
      BY AddrFacts
    <3> QED BY <2>1, <2>2, <2>7, <3>1, Zenon DEF CreditRule
  <2>9. ASSUME E.ok PROVE FeeRule(T, c, p, 0, E.tally, E.cached)
    <3>1. CreditRule(T, p, n, share, E.tally)
      BY <2>2, <2>7, <2>9, Zenon
    <3>2. ASSUME NEW q \in Property
          PROVE  getTotalTokens(E.tally, q) + E.cached[q] = getTotalTokens(T, q) + c[q] + At(q, p, 0)
      <4>1. getTotalTokens(E.tally, q) = getTotalTokens(T, q) + At(q, p, n)
        BY <3>1, Zenon DEF CreditRule, At
      <4>2. E.cached[q] = (IF q = p THEN 0 ELSE c[q]) /\ c[q] \in Nat
        BY <2>3
      <4> QED BY <4>1, <4>2, <1>2, <1>4 DEF At
    <3>3. ASSUME NEW x \in Addr, NEW q \in Property, NEW v \in TallyType
          PROVE  E.tally[x][q][v] >= T[x][q][v] /\ (q # p \/ v # "BALANCE" => E.tally[x][q][v] = T[x][q][v])
      <4>1. E.tally[x][q][v] = T[x][q][v] + (IF q = p /\ v = "BALANCE" THEN share[x] ELSE 0)
        BY <3>1, Zenon DEF CreditRule
      <4> QED BY <4>1, <2>4, <1>3
    <3> QED BY <2>3, <3>1, <3>2, <3>3, Zenon DEF FeeRule, CreditRule, At
  <2>10. ~ (c[p] < t)
    BY <1>2, <1>5
  <2> QED BY <2>3, <2>8, <2>9, <2>10, Zenon DEF E, EvalRule
<1>6. CASE n < t
  <2>1. E.tally = T /\ E.cached = c /\ E.ok
    BY <1>1, <1>2, <1>6
  <2> HIDE DEF E
  <2>2. \A q \in Property : getTotalTokens(T, q) + c[q] = getTotalTokens(T, q) + c[q] + At(q, p, 0)
    BY <1>4 DEF At
  <2>3. \A x \in Addr, q \in Property, v \in TallyType : T[x][q][v] >= T[x][q][v]
    BY <1>3
  <2>4. FeeRule(T, c, p, 0, T, c)
    BY <2>2, <2>3, Zenon DEF FeeRule, At
  <2> QED BY <1>6, <2>1, <2>4, Zenon DEF E, EvalRule
<1> QED BY <1>2, <1>5, <1>6

\* What AddFee does: the fee is cached and the cache evaluated.
LEMMA FeeAdded ==
  ASSUME NEW T, Sound(T), NEW c \in [Property -> Nat], NEW p \in Property, NEW t \in Nat,
         NEW n \in Nat, FeeTarget(p) \in Property,
         \A a \in Addr : T[a][p]["BALANCE"] + (c[p] + n) <= MaxInt
  PROVE  LET F == AddFee(T, c, p, t, n)
         IN  /\ (\E a \in Addr : Holding(T, a, FeeTarget(p)) > 0) => F.ok
             /\ F.ok => /\ FeeRule(T, c, p, n, F.tally, F.cached)
                        /\ F.cached[p] = 0 \/ F.cached[p] < t
<1> DEFINE e == [c EXCEPT ![p] = @ + n]
           F == EvalCache(T, e, p, t)
<1>1. e \in [Property -> Nat] /\ e[p] = c[p] + n /\ \A q \in Property : q # p => e[q] = c[q]
  OBVIOUS
<1>2. F = AddFee(T, c, p, t, n)
  BY Zenon DEF AddFee
<1> HIDE DEF e
<1>3. \A a \in Addr : T[a][p]["BALANCE"] + e[p] <= MaxInt
  BY <1>1
<1>4. /\ (\E a \in Addr : Holding(T, a, FeeTarget(p)) > 0) => F.ok
      /\ F.ok => /\ FeeRule(T, e, p, 0, F.tally, F.cached)
                 /\ F.cached[p] = 0 \/ F.cached[p] < t
  <2>1. EvalRule(T, e, p, t, F)
    BY <1>1, <1>3, Evaluated, Zenon
  <2> HIDE DEF F
  <2> QED BY <2>1, Zenon DEF EvalRule
<1> HIDE DEF F
<1>5. ASSUME F.ok PROVE FeeRule(T, c, p, n, F.tally, F.cached)
  <2>1. FeeRule(T, e, p, 0, F.tally, F.cached)
    BY <1>4, <1>5, Zenon
  <2>2. ASSUME NEW q \in Property
        PROVE  getTotalTokens(F.tally, q) + F.cached[q] = getTotalTokens(T, q) + c[q] + At(q, p, n)
    <3>1. getTotalTokens(F.tally, q) + F.cached[q] = getTotalTokens(T, q) + e[q] + At(q, p, 0)
      BY <2>1, Zenon DEF FeeRule, At
    <3>2. getTotalTokens(T, q) \in Nat
      BY TotalNat, Zenon
    <3>3. e[q] = c[q] + At(q, p, n) /\ e[q] \in Nat /\ c[q] \in Nat
      BY <1>1 DEF At
    <3> QED BY <3>1, <3>2, <3>3 DEF At
  <2>3. \A q \in Property : q # p => F.cached[q] = c[q]
    BY <1>1, <2>1, Zenon DEF FeeRule
  <2> QED BY <2>1, <2>2, <2>3, Zenon DEF FeeRule, At
<1> QED BY <1>2, <1>4, <1>5, Zenon

(***************************************************************************)
(* The inductive invariant.  TokensAccounted alone is not inductive: that  *)
(* no update is refused needs the bound of every supply, that no fee waits *)
(* needs the thresholds to follow the supply (TOMNI has threshold 0, so    *)
(* nothing of it is ever cached), and a rollback needs one entry per       *)
(* block.                                                                  *)
(***************************************************************************)
Accounted(T, c, i) ==
  /\ Sound(T) /\ c \in [Property -> Nat] /\ i \in [Property -> Nat]
  /\ \A q \in Property : getTotalTokens(T, q) + c[q] = i[q] /\ i[q] <= MaxInt

Distributed(c, th, i) ==
  /\ th \in [Property -> Nat]
  /\ \A q \in Property : IF q = TMSC THEN th[q] = 0 /\ c[q] = 0
                         ELSE th[q] = DistributionThreshold(i[q]) /\ c[q] < th[q]

FewOwners ==
  \E p \in Property, s \in Addr : \A a \in Addr \ {s} : Holding(tally, a, FeeTarget(p)) = 0

RollsBack(h, n, ps, q) ==
  \A b \in 1..n :
    b >= n - MaxHistory /\ ~ (DebugFees /\ RollBackCache(h, b) = {}) =>
      GetCachedAmount(RollBackCache(h, b)) = IF b = 1 THEN 0 ELSE ps[b - 1][q]

HistoryInv ==
  /\ block \in 1..MaxBlock
  /\ history \in [Property -> SUBSET ((1..block) \X Amount)]
  /\ \A q \in Property : IsHistory(history[q], block) /\ RollsBack(history[q], block, past, q)
  /\ past \in [1..MaxBlock -> [Property -> Nat]]

IInv ==
  /\ Accounted(tally, Cached, issued) /\ Distributed(Cached, thresholds, issued)
  /\ HistoryInv
  /\ alive \in BOOLEAN /\ (alive \/ FewOwners)

\* A handler that ends well keeps the invariant, and so does a failed assert
\* where OMNI has few owners.
LEMMA CommitKeeps ==
  ASSUME IInv, NEW ok \in BOOLEAN, NEW T, NEW c, NEW P, NEW th, Commit(ok, T, c, P, th),
         ok => /\ Accounted(T, c, issued') /\ Distributed(c, th, issued')
               /\ \A q \in Property \ P : c[q] = Cached[q],
         ~ ok => issued' = issued /\ FewOwners
  PROVE  IInv'
\* The cached amount is that of the entry nothing is later than.
<1>LatestAmount.
      ASSUME NEW n \in Nat, NEW h, IsHistory(h, n), NEW e \in h, \A f \in h : f[1] <= e[1]
      PROVE  GetCachedAmount(h) = e[2]
  <2> USE <1>LatestAmount
  <2> DEFINE L == CHOOSE d \in h : \A f \in h : f[1] <= d[1]
  <2>1. L \in h /\ \A f \in h : f[1] <= L[1]
    BY Zenon
  <2>2. h # {}
    OBVIOUS
  <2> HIDE DEF L
  <2>3. e[1] \in Nat /\ L[1] \in Nat
    BY <2>1 DEF IsHistory
  <2>4. L[1] <= e[1] /\ e[1] <= L[1]
    BY <2>1
  <2>5. L[1] = e[1]
    BY <2>3, <2>4
  <2>6. L = e
    BY <2>1, <2>5, Zenon DEF IsHistory
  <2> QED BY <2>2, <2>6, Zenon DEF GetCachedAmount, L
\* A history that is not empty has a latest entry.
<1>LatestExists.
      ASSUME NEW n \in Nat, NEW h, IsHistory(h, n), h # {}
      PROVE  \E e \in h : \A f \in h : f[1] <= e[1]
  <2> USE <1>LatestExists
  <2> DEFINE Age == {n - e[1] : e \in h}
  <2>1. \A e \in h : e[1] \in Nat /\ n - e[1] \in Nat
    BY DEF IsHistory
  <2>2. Age \subseteq Nat /\ Age # {}
    BY <2>1
  <2>3. PICK m \in Age : \A k \in Age : m <= k
    BY <2>2, LeastElement, Zenon
  <2>4. PICK e \in h : m = n - e[1]
    BY <2>3
  <2>5. \A f \in h : n - e[1] <= n - f[1]
    BY <2>3, <2>4
  <2> HIDE DEF Age
  <2> QED BY <2>1, <2>5
\* A written history is one, and v is cached.
<1>WrittenAmount.
      ASSUME NEW n \in Nat \ {0}, NEW h, IsHistory(h, n), NEW v \in Amount
      PROVE  IsHistory(Written(h, n, v), n) /\ GetCachedAmount(Written(h, n, v)) = v
  <2> USE <1>WrittenAmount
  <2> DEFINE H == Written(h, n, v)
  <2>1. <<n, v>> \in H
    BY FeesAssumption DEF Written, PruneCache
  <2>2. \A e \in H : e = <<n, v>> \/ (e \in h /\ e[1] # n)
    BY DEF Written, PruneCache
  <2> HIDE DEF H
  <2>3. \A e \in h : e \in (1..n) \X Amount
    BY Zenon DEF IsHistory
  <2>4. <<n, v>> \in (1..n) \X Amount
    OBVIOUS
  <2>5. H \subseteq (1..n) \X Amount
    BY <2>2, <2>3, <2>4, Zenon
  <2>6. \A e, f \in H : e[1] = f[1] => e = f
    <3> SUFFICES ASSUME NEW e \in H, NEW f \in H, e[1] = f[1] PROVE e = f
      OBVIOUS
    <3>1. <<n, v>>[1] = n
      OBVIOUS
    <3> QED BY <2>2, <3>1, Zenon DEF IsHistory
  <2>7. IsHistory(H, n)
    BY <2>5, <2>6, Zenon DEF IsHistory
  <2>8. \A f \in H : f[1] <= <<n, v>>[1]
    BY <2>5
  <2>9. GetCachedAmount(H) = <<n, v>>[2]
    BY <2>1, <2>7, <2>8, <1>LatestAmount, Zenon
  <2> QED BY <2>7, <2>9 DEF H
\* Rolled back to a block within reach, a written history is as before, or
\* empty.
<1>WrittenRollsBack.
      ASSUME NEW n \in Nat \ {0}, NEW h, IsHistory(h, n), NEW v \in Amount, NEW b \in 1..n,
             ~ (DebugFees /\ RollBackCache(Written(h, n, v), b) = {})
      PROVE  /\ GetCachedAmount(RollBackCache(Written(h, n, v), b)) = GetCachedAmount(RollBackCache(h, b))
             /\ ~ (DebugFees /\ RollBackCache(h, b) = {})
  <2> USE <1>WrittenRollsBack
  <2> DEFINE H == RollBackCache(Written(h, n, v), b)
             K == RollBackCache(h, b)
  <2>1. CASE ~ DebugFees
    <3>1. H = K
      BY <2>1 DEF RollBackCache, Written, PruneCache
    <3> QED BY <2>1, <3>1
  <2>2. CASE DebugFees
    <3>1. H = {e \in K : e[1] >= n - MaxHistory}
      BY <2>2 DEF RollBackCache, Written, PruneCache
    <3>2. IsHistory(K, n) /\ IsHistory(H, n)
      <4>1. K \subseteq h /\ H \subseteq h
        BY <3>1 DEF RollBackCache
      <4> HIDE DEF H, K
      <4> QED BY <4>1, Zenon DEF IsHistory
    <3>3. H # {}
      BY <2>2
    <3> HIDE DEF H, K
    <3>4. PICK g \in H : TRUE
      BY <3>3
    <3>5. g \in K /\ K # {}
      BY <3>1, <3>4
    <3>6. PICK e \in K : \A f \in K : f[1] <= e[1]
      BY <3>2, <3>5, <1>LatestExists, Zenon
    <3>7. g[1] \in Nat /\ e[1] \in Nat /\ MaxHistory \in Nat
      BY <3>2, <3>5, FeesAssumption DEF IsHistory
    <3>8. g[1] >= n - MaxHistory /\ g[1] <= e[1]
      BY <3>1, <3>4, <3>5, <3>6
    <3>9. e \in H
      <4>1. e[1] >= n - MaxHistory
        BY <3>7, <3>8
      <4> QED BY <3>1, <4>1
    <3>10. \A f \in H : f[1] <= e[1]
      BY <3>1, <3>6
    <3>11. GetCachedAmount(K) = e[2] /\ GetCachedAmount(H) = e[2]
      BY <3>2, <3>6, <3>9, <3>10, <1>LatestAmount, Zenon
    <3> QED BY <3>5, <3>11 DEF H, K
  <2> QED BY <2>1, <2>2
<1>0. /\ block \in Nat \ {0} /\ block' = block /\ past' = past
      /\ Cached = [q \in Property |-> GetCachedAmount(history[q])]
      /\ Cached' = [q \in Property |-> GetCachedAmount(history'[q])]
  BY FeesAssumption DEF IInv, HistoryInv, Commit, Cached
<1>1. CASE ok
  <2>1. alive' = TRUE /\ tally' = T /\ history' = Recorded(P, c) /\ thresholds' = th
    BY <1>1 DEF Commit
  <2>2. Accounted(T, c, issued') /\ Distributed(c, th, issued') /\ \A q \in Property \ P : c[q] = Cached[q]
    BY <1>1
  <2>3. \A q \in Property : history'[q] = IF q \in P THEN Written(history[q], block, c[q]) ELSE history[q]
    BY <2>1 DEF Recorded, Written
  <2>4. \A q \in Property : c[q] \in Amount
    <3> SUFFICES ASSUME NEW q \in Property PROVE c[q] \in Amount
      OBVIOUS
    <3>1. getTotalTokens(T, q) \in Nat
      BY <2>2, TotalNat DEF Accounted
    <3>2. c[q] \in Nat /\ getTotalTokens(T, q) + c[q] <= MaxInt
      BY <2>2 DEF Accounted
    <3> QED BY <3>1, <3>2, TallyAssumption DEF Amount
  <2>5. ASSUME NEW q \in Property
        PROVE  /\ IsHistory(history'[q], block) /\ GetCachedAmount(history'[q]) = c[q]
               /\ RollsBack(history'[q], block, past, q)
    <3>1. IsHistory(history[q], block) /\ RollsBack(history[q], block, past, q)
      BY Zenon DEF IInv, HistoryInv
    <3>2. CASE q \in P
      <4>1. history'[q] = Written(history[q], block, c[q])
        BY <2>3, <3>2
      <4>2. IsHistory(history'[q], block) /\ GetCachedAmount(history'[q]) = c[q]
        <5>1. LET W == Written(history[q], block, c[q])
              IN  IsHistory(W, block) /\ GetCachedAmount(W) = c[q]
          BY <1>0, <2>4, <3>1, <1>WrittenAmount, Zenon
        <5> QED BY <4>1, <5>1, Zenon
      <4>3. ASSUME NEW b \in 1..block, b >= block - MaxHistory,
                   ~ (DebugFees /\ RollBackCache(history'[q], b) = {})
            PROVE  GetCachedAmount(RollBackCache(history'[q], b)) = IF b = 1 THEN 0 ELSE past[b - 1][q]
        <5>1. /\ GetCachedAmount(RollBackCache(history'[q], b)) = GetCachedAmount(RollBackCache(history[q], b))
              /\ ~ (DebugFees /\ RollBackCache(history[q], b) = {})
          <6> DEFINE W == Written(history[q], block, c[q])
          <6>1. ~ (DebugFees /\ RollBackCache(W, b) = {})
            BY <4>1, <4>3, Zenon
          <6>2. /\ GetCachedAmount(RollBackCache(W, b)) = GetCachedAmount(RollBackCache(history[q], b))
                /\ ~ (DebugFees /\ RollBackCache(history[q], b) = {})
            BY <1>0, <2>4, <3>1, <4>3, <6>1, <1>WrittenRollsBack, Zenon
          <6> QED BY <4>1, <6>2, Zenon
        <5> QED BY <3>1, <4>3, <5>1, Zenon DEF RollsBack
      <4> QED BY <4>2, <4>3, Zenon DEF RollsBack
    <3>3. CASE q \notin P
      <4>1. history'[q] = history[q]
        BY <2>3, <3>3
      <4>2. GetCachedAmount(history[q]) = c[q]
        BY <1>0, <2>2, <3>3
      <4> QED BY <3>1, <4>1, <4>2, Zenon
    <3> QED BY <3>2, <3>3
  <2>6. Cached' = c
    <3>1. c \in [Property -> Nat]
      BY <2>2, Zenon DEF Accounted
    <3>2. \A q \in Property : GetCachedAmount(history'[q]) = c[q]
      BY <2>5, Zenon
    <3> QED BY <1>0, <3>1, <3>2
  <2>7. history' \in [Property -> SUBSET ((1..block) \X Amount)]
    <3>1. history' = [q \in Property |-> history'[q]]
      BY <2>1 DEF Recorded
    <3>2. \A q \in Property : history'[q] \in SUBSET ((1..block) \X Amount)
      BY <2>5, Zenon DEF IsHistory
    <3> QED BY <3>1, <3>2
  <2>8. HistoryInv'
    BY <1>0, <2>5, <2>7, Zenon DEF IInv, HistoryInv
  <2> QED BY <2>1, <2>2, <2>6, <2>8, Zenon DEF IInv
<1>2. CASE ~ ok
  <2>1. /\ alive' = FALSE /\ tally' = tally /\ history' = history /\ thresholds' = thresholds
        /\ issued' = issued /\ FewOwners
    BY <1>2 DEF Commit
  <2>2. Cached' = Cached
    BY <1>0, <2>1, Zenon
  <2>3. FewOwners'
    BY <2>1, Zenon DEF FewOwners
  <2>4. HistoryInv'
    BY <1>0, <2>1, Zenon DEF IInv, HistoryInv
  <2> QED BY <2>1, <2>2, <2>3, <2>4, Zenon DEF IInv
<1> QED BY <1>1, <1>2

\* Fees are paid in OMNI or TOMNI, which exist.
LEMMA TargetExists ==
  ASSUME NEW p \in Property
  PROVE  FeeTarget(p) \in Property /\ FeeTarget(p) \in {MSC, TMSC} /\ MSC \in Property
         /\ MSC # TMSC /\ FeeTarget(MSC) = MSC
BY FeesAssumption, FeeCacheAssumption DEF FeeTarget, MSC, TMSC

\* A threshold is positive and an amount.
LEMMA ThresholdPositive ==
  ASSUME NEW i \in Nat, i <= MaxInt
  PROVE  DistributionThreshold(i) \in Amount /\ DistributionThreshold(i) \in Nat /\ DistributionThreshold(i) > 0
<1> DEFINE d == i \div FeeThreshold
<1>1. FeeThreshold \in Nat /\ FeeThreshold > 0 /\ MaxInt \in Nat /\ MaxInt > 0
  BY FeeCacheAssumption, TallyAssumption
<1>2. d \in Int /\ d * FeeThreshold <= i
  BY <1>1
<1>3. DistributionThreshold(i) = IF d <= 0 THEN 1 ELSE d
  BY DEF DistributionThreshold
<1> HIDE DEF d
<1>4. d <= i
  BY <1>1, <1>2
<1> QED BY <1>1, <1>2, <1>3, <1>4 DEF Amount

\* With enough owners, someone beside the payer s owns what fees are paid in.
LEMMA OwnerLeft ==
  ASSUME ~ FewOwners, Sound(tally), NEW s \in Addr, NEW U, Sound(U), NEW p \in Property,
         \A x \in Addr \ {s}, q \in Property, v \in HeldTypes : U[x][q][v] >= tally[x][q][v]
  PROVE  \E a \in Addr : Holding(U, a, FeeTarget(p)) > 0
\* An owner of property q, the payer excepted, stays one.
<1>OwnerStays.
      ASSUME NEW T, Sound(T), NEW W, Sound(W), NEW q \in Property, NEW a \in Addr,
             \A v \in HeldTypes : W[a][q][v] >= T[a][q][v], Holding(T, a, q) # 0
      PROVE  Holding(W, a, q) > 0
  <2> USE <1>OwnerStays
  <2>1. Holding(T, a, q) > 0
    BY HoldingNat
  <2>2. \A v \in HeldTypes : T[a][q][v] \in Nat /\ W[a][q][v] \in Nat
    BY RecordNat
  <2>3. HeldTypes = {"BALANCE", "SELLOFFER_RESERVE", "ACCEPT_RESERVE", "METADEX_RESERVE"}
    BY Zenon DEF HeldTypes
  <2> QED BY <2>1, <2>2, <2>3 DEF Holding
<1>1. PICK a \in Addr \ {s} : Holding(tally, a, FeeTarget(p)) # 0
  BY Zenon DEF FewOwners
<1>2. FeeTarget(p) \in Property
  BY TargetExists
<1>3. \A v \in HeldTypes : U[a][FeeTarget(p)][v] >= tally[a][FeeTarget(p)][v]
  BY <1>1, <1>2, Zenon
<1>4. Holding(U, a, FeeTarget(p)) > 0
  BY <1>1, <1>2, <1>3, <1>OwnerStays
<1> QED BY <1>1, <1>4, Zenon

\* A cache that changed in one property, below its threshold.
LEMMA StillDistributed ==
  ASSUME NEW c, NEW th, NEW i \in [Property -> Nat], Distributed(c, th, i),
         \A q \in Property : i[q] <= MaxInt,
         NEW p \in Property, NEW d \in [Property -> Nat], \A q \in Property : q # p => d[q] = c[q],
         d[p] = 0 \/ d[p] < th[p]
  PROVE  Distributed(d, th, i)
<1> SUFFICES ASSUME NEW q \in Property
             PROVE  IF q = TMSC THEN th[q] = 0 /\ d[q] = 0
                    ELSE th[q] = DistributionThreshold(i[q]) /\ d[q] < th[q]
  BY Zenon DEF Distributed
<1>1. IF q = TMSC THEN th[q] = 0 /\ c[q] = 0
      ELSE th[q] = DistributionThreshold(i[q]) /\ c[q] < th[q]
  BY Zenon DEF Distributed
<1>2. d[q] \in Nat /\ i[q] \in Nat /\ i[q] <= MaxInt
  OBVIOUS
<1>3. DistributionThreshold(i[q]) \in Nat /\ DistributionThreshold(i[q]) > 0
  BY <1>2, ThresholdPositive
<1>4. CASE q = p
  BY <1>1, <1>2, <1>3, <1>4
<1>5. CASE q # p
  BY <1>1, <1>5
<1> QED BY <1>4, <1>5

(***************************************************************************)
(* NotifyTotalTokensChanged keeps the invariant when the ledger T accounts *)
(* for the new supply i of property p.                                     *)
(***************************************************************************)
LEMMA NotifyKeeps ==
  ASSUME IInv, NEW ok, ok, NEW T, NEW i, NEW p \in Property \ {TMSC},
         NotifyTotalTokensChanged(ok, T, Cached, p), issued' = IF alive' THEN i ELSE issued,
         Accounted(T, Cached, i), \A q \in Property \ {p, TMSC} : i[q] = issued[q],
         FewOwners \/ \E a \in Addr : Holding(T, a, FeeTarget(p)) > 0
  PROVE  IInv'
\* In an accounted ledger, no balance and cached amount together overflow.
<1>CacheFits.
      ASSUME NEW L, NEW c, NEW j, Accounted(L, c, j), NEW r \in Property, NEW a \in Addr
      PROVE  L[a][r]["BALANCE"] + c[r] <= MaxInt
  <2> USE <1>CacheFits
  <2>1. L[a][r]["BALANCE"] \in Nat /\ getTotalTokens(L, r) \in Nat
        /\ L[a][r]["BALANCE"] <= getTotalTokens(L, r)
    BY TotalNat, RecordNat, HeldTallyTypes, Zenon DEF Accounted
  <2>2. c[r] \in Nat /\ getTotalTokens(L, r) + c[r] <= MaxInt
    BY DEF Accounted
  <2> QED BY <2>1, <2>2, TallyAssumption
<1> DEFINE th == UpdatedThresholds(T, Cached, p)
           E  == EvalCache(T, Cached, p, th[p])
           P  == IF Cached[p] >= th[p] THEN {p} ELSE {}
<1>1. Commit(ok /\ E.ok, E.tally, E.cached, P, th)
  BY Zenon DEF NotifyTotalTokensChanged
<1>2. /\ Sound(T) /\ Cached \in [Property -> Nat] /\ i \in [Property -> Nat]
      /\ \A q \in Property : getTotalTokens(T, q) + Cached[q] = i[q] /\ i[q] <= MaxInt
  BY Zenon DEF Accounted
<1>3. Distributed(Cached, thresholds, issued)
  BY Zenon DEF IInv
<1>4. th[p] = DistributionThreshold(i[p]) /\ \A q \in Property \ {p} : th[q] = thresholds[q]
  <2>1. TotalWithFees(T, Cached, p) = i[p]
    BY <1>2, Zenon DEF TotalWithFees
  <2>2. thresholds \in [Property -> Nat]
    BY <1>3, Zenon DEF Distributed
  <2> QED BY <2>1, <2>2, Zenon DEF UpdatedThresholds
<1>5. th[p] \in Nat /\ th[p] > 0
  BY <1>2, <1>4, ThresholdPositive, Zenon
<1>6. th \in [Property -> Nat]
  <2>1. DOMAIN th = Property /\ th = [q \in Property |-> th[q]]
    BY <1>3, Zenon DEF UpdatedThresholds, Distributed
  <2>2. \A q \in Property : th[q] \in Nat
    BY <1>3, <1>4, <1>5, Zenon DEF Distributed
  <2> HIDE DEF th
  <2> QED BY <2>1, <2>2
<1> HIDE DEF th
<1>7. /\ (\E a \in Addr : Holding(T, a, FeeTarget(p)) > 0) => E.ok
      /\ E.ok => /\ FeeRule(T, Cached, p, 0, E.tally, E.cached)
                 /\ E.cached[p] = 0 \/ E.cached[p] < th[p]
      /\ Cached[p] < th[p] => E.cached = Cached
  <2>1. \A a \in Addr : T[a][p]["BALANCE"] + Cached[p] <= MaxInt
    BY <1>CacheFits, Zenon
  <2>2. FeeTarget(p) \in Property
    BY TargetExists
  <2>3. EvalRule(T, Cached, p, th[p], E)
    BY <1>2, <1>5, <2>1, <2>2, Evaluated, Zenon
  <2> HIDE DEF E
  <2> QED BY <2>3, Zenon DEF EvalRule
<1> HIDE DEF E
<1>8. CASE E.ok
  <2>1. FeeRule(T, Cached, p, 0, E.tally, E.cached)
    BY <1>7, <1>8, Zenon
  <2>2. /\ Sound(E.tally) /\ E.cached \in [Property -> Nat]
        /\ \A q \in Property : q # p => E.cached[q] = Cached[q]
    BY <2>1, Zenon DEF FeeRule
  <2>3. ASSUME NEW q \in Property PROVE getTotalTokens(E.tally, q) + E.cached[q] = i[q]
    <3>1. getTotalTokens(E.tally, q) + E.cached[q]
            = getTotalTokens(T, q) + Cached[q] + At(q, p, 0)
      BY <2>1, Zenon DEF FeeRule, At
    <3>2. getTotalTokens(T, q) + Cached[q] = i[q] /\ i[q] \in Nat
      BY <1>2
    <3> QED BY <3>1, <3>2 DEF At
  <2>4. Accounted(E.tally, E.cached, i)
    BY <1>2, <2>2, <2>3, Zenon DEF Accounted
  <2>5. Distributed(E.cached, th, i)
    <3> SUFFICES ASSUME NEW q \in Property
                 PROVE  IF q = TMSC THEN th[q] = 0 /\ E.cached[q] = 0
                        ELSE th[q] = DistributionThreshold(i[q]) /\ E.cached[q] < th[q]
      BY <1>6, Zenon DEF Distributed
    <3>1. CASE q = p
      <4>1. E.cached[p] = 0 \/ E.cached[p] < th[p]
        BY <1>7, <1>8, Zenon
      <4> QED BY <1>4, <1>5, <3>1, <4>1, Zenon
    <3>2. CASE q # p
      <4>1. IF q = TMSC THEN thresholds[q] = 0 /\ Cached[q] = 0
            ELSE thresholds[q] = DistributionThreshold(issued[q]) /\ Cached[q] < thresholds[q]
        BY <1>3, Zenon DEF Distributed
      <4>2. th[q] = thresholds[q] /\ E.cached[q] = Cached[q] /\ (q # TMSC => i[q] = issued[q])
        BY <1>4, <2>2, <3>2, Zenon
      <4> QED BY <4>1, <4>2, Zenon
    <3> QED BY <3>1, <3>2, Zenon
  <2>6. \A q \in Property \ P : E.cached[q] = Cached[q]
    <3>1. CASE Cached[p] >= th[p]
      BY <2>2, <3>1, Zenon
    <3>2. CASE Cached[p] < th[p]
      BY <1>7, <3>2, Zenon
    <3> QED BY <1>2, <1>5, <3>1, <3>2
  <2>7. alive' = (ok /\ E.ok)
    BY <1>1, Zenon DEF Commit
  <2>8. issued' = i
    BY <1>8, <2>7, Zenon
  <2> HIDE DEF P
  <2> QED BY <1>1, <1>8, <2>4, <2>5, <2>6, <2>8, CommitKeeps, Zenon
<1>9. CASE ~ E.ok
  <2>1. FewOwners
    BY <1>7, <1>9, Zenon
  <2>2. alive' = (ok /\ E.ok)
    BY <1>1, Zenon DEF Commit
  <2>3. issued' = issued
    BY <1>9, <2>2, Zenon
  <2> HIDE DEF P
  <2> QED BY <1>1, <1>9, <2>1, <2>3, CommitKeeps, Zenon
<1> QED BY <1>8, <1>9

(***************************************************************************)
(* The actions.                                                            *)
(***************************************************************************)
LEMMA InvFacts ==
  ASSUME IInv
  PROVE  /\ Accounted(tally, Cached, issued) /\ Distributed(Cached, thresholds, issued)
         /\ Sound(tally) /\ Cached \in [Property -> Nat] /\ issued \in [Property -> Nat]
         /\ thresholds \in [Property -> Nat]
         /\ \A q \in Property : /\ getTotalTokens(tally, q) + Cached[q] = issued[q] /\ issued[q] <= MaxInt
                                /\ getTotalTokens(tally, q) \in Nat /\ Cached[q] \in Nat /\ issued[q] \in Nat
                                /\ thresholds[q] \in Nat
<1>1. Accounted(tally, Cached, issued) /\ Distributed(Cached, thresholds, issued)
  BY Zenon DEF IInv
<1>2. /\ Sound(tally) /\ Cached \in [Property -> Nat] /\ issued \in [Property -> Nat]
      /\ \A q \in Property : getTotalTokens(tally, q) + Cached[q] = issued[q] /\ issued[q] <= MaxInt
  BY <1>1, Zenon DEF Accounted
<1>3. thresholds \in [Property -> Nat]
  BY <1>1, Zenon DEF Distributed
<1>4. \A q \in Property : getTotalTokens(tally, q) \in Nat
  BY <1>2, TotalNat
<1> QED BY <1>1, <1>2, <1>3, <1>4

\* A grant or a revocation: the balance of the issuer changes by k.
LEMMA SupplyChanged ==
  ASSUME IInv, NEW s \in Addr, NEW p \in Property \ {MSC, TMSC}, NEW k \in Int, k # 0, NEW ok, ok,
         tally[s][p]["BALANCE"] + k >= 0, getTotalTokens(tally, p) + Cached[p] + k <= MaxInt,
         NotifyTotalTokensChanged(ok, Updated(tally, s, p, "BALANCE", k), Cached, p),
         issued' = IF alive' THEN [issued EXCEPT ![p] = @ + k] ELSE issued
  PROVE  IInv'
<1> DEFINE T == Updated(tally, s, p, "BALANCE", k)
           i == [issued EXCEPT ![p] = @ + k]
<1>1. /\ tally[s][p]["BALANCE"] \in Nat /\ tally[s][p]["BALANCE"] <= getTotalTokens(tally, p)
      /\ getTotalTokens(tally, p) \in Nat /\ Cached[p] \in Nat /\ MaxInt \in Nat
  BY InvFacts, TotalNat, RecordNat, HeldTallyTypes, TallyAssumption, Zenon
<1>2. tally[s][p]["BALANCE"] + k \in Amount
  BY <1>1 DEF Amount
<1>3. Paid(tally, T, s, p, k)
  BY <1>2, InvFacts, BalanceChanged, Zenon
<1> HIDE DEF T
<1>4. /\ i = [q \in Property |-> i[q]]
      /\ \A q \in Property : i[q] = issued[q] + At(q, p, k)
      /\ \A q \in Property \ {p} : i[q] = issued[q]
  <2>1. SupplyMoved(issued, i, p, k)
    BY InvFacts, SupplyAt, Zenon
  <2> HIDE DEF i
  <2> QED BY <2>1, Zenon DEF SupplyMoved
<1> HIDE DEF i
<1>5. ASSUME NEW q \in Property
      PROVE  getTotalTokens(T, q) + Cached[q] = i[q] /\ i[q] \in Nat /\ i[q] <= MaxInt
  <2> DEFINE d == At(q, p, k)
  <2>1. getTotalTokens(T, q) = getTotalTokens(tally, q) + d /\ i[q] = issued[q] + d
    BY <1>3, <1>4, Zenon DEF Paid
  <2>2. /\ getTotalTokens(tally, q) + Cached[q] = issued[q] /\ issued[q] <= MaxInt
        /\ getTotalTokens(tally, q) \in Nat /\ Cached[q] \in Nat /\ issued[q] \in Nat
    BY InvFacts, Zenon
  <2>3. getTotalTokens(T, q) \in Nat
    BY <1>3, TotalNat, Zenon DEF Paid
  <2>4. d \in Int
    BY DEF At
  <2>5. i[q] <= MaxInt
    <3>1. CASE q = p
      <4>1. i[p] = issued[p] + k
        BY <2>1, <3>1, Zenon DEF At
      <4>2. getTotalTokens(tally, p) + Cached[p] = issued[p]
        BY <2>2, <3>1, Zenon
      <4> QED BY <3>1, <4>1, <4>2, Zenon
    <3>2. CASE q # p
      BY <1>4, <2>2, <3>2, Zenon
    <3> QED BY <3>1, <3>2, Zenon
  <2> HIDE DEF d
  <2>6. /\ (getTotalTokens(tally, q) + d) + Cached[q] = (getTotalTokens(tally, q) + Cached[q]) + d
        /\ (getTotalTokens(tally, q) + Cached[q]) + d \in Nat
    BY <2>1, <2>2, <2>3, <2>4, SupplyMoves, Zenon
  <2> QED BY <2>1, <2>2, <2>5, <2>6, Zenon
<1>6. Accounted(T, Cached, i)
  <2>1. i \in [Property -> Nat]
    BY <1>4, <1>5, Zenon
  <2> QED BY <1>3, <1>5, <2>1, InvFacts, Zenon DEF Accounted, Paid
<1>7. \A q \in Property \ {p, TMSC} : i[q] = issued[q]
  BY <1>4, Zenon
<1>8. FewOwners \/ \E a \in Addr : Holding(T, a, FeeTarget(p)) > 0
  <2>1. Sound(tally) /\ Sound(T)
    BY <1>3, InvFacts, Zenon DEF Paid
  <2>2. \A x \in Addr \ {s}, q \in Property, v \in HeldTypes : T[x][q][v] >= tally[x][q][v]
    BY <1>3, Zenon DEF Paid
  <2> QED BY <2>1, <2>2, OwnerLeft, Zenon
<1> QED BY <1>6, <1>7, <1>8, NotifyKeeps, Zenon DEF T, i

LEMMA GrantStep ==
  ASSUME IInv, NEW s \in Addr, NEW p \in Property \ {MSC, TMSC}, NEW n \in Amount, GrantTokens(s, p, n)
  PROVE  IInv'
<1>1. /\ n \in Nat /\ n > 0 /\ TotalWithFees(tally, Cached, p) + n <= MaxInt
      /\ NotifyTotalTokensChanged(CanUpdate(tally, s, p, "BALANCE", n),
                                  Updated(tally, s, p, "BALANCE", n), Cached, p)
      /\ issued' = IF alive' THEN [issued EXCEPT ![p] = @ + n] ELSE issued
  BY TallyAssumption DEF GrantTokens, Amount
<1>2. /\ tally[s][p]["BALANCE"] \in Nat /\ tally[s][p]["BALANCE"] <= getTotalTokens(tally, p)
      /\ getTotalTokens(tally, p) \in Nat /\ Cached[p] \in Nat /\ MaxInt \in Nat
  BY InvFacts, TotalNat, RecordNat, HeldTallyTypes, TallyAssumption, Zenon
<1>3. getTotalTokens(tally, p) + Cached[p] + n <= MaxInt
  BY <1>1 DEF TotalWithFees
<1>4. tally[s][p]["BALANCE"] + n \in Amount /\ tally[s][p]["BALANCE"] + n >= 0 /\ n \in Int /\ n # 0
  BY <1>1, <1>2, <1>3 DEF Amount
<1>5. CanUpdate(tally, s, p, "BALANCE", n)
  BY <1>4, InvFacts, BalanceChanged, Zenon
<1> QED BY <1>1, <1>3, <1>4, <1>5, SupplyChanged, Zenon

LEMMA RevokeStep ==
  ASSUME IInv, NEW s \in Addr, NEW p \in Property \ {MSC, TMSC}, NEW n \in Amount, RevokeTokens(s, p, n)
  PROVE  IInv'
<1>0. n \in Nat
  BY TallyAssumption DEF Amount
<1>1. /\ n > 0 /\ tally[s][p]["BALANCE"] >= n
      /\ NotifyTotalTokensChanged(TRUE, Updated(tally, s, p, "BALANCE", -n), Cached, p)
      /\ issued' = IF alive' THEN [issued EXCEPT ![p] = @ - n] ELSE issued
  BY Zenon DEF RevokeTokens
<1>2. /\ tally[s][p]["BALANCE"] \in Nat /\ getTotalTokens(tally, p) \in Nat /\ Cached[p] \in Nat
      /\ getTotalTokens(tally, p) + Cached[p] <= MaxInt /\ MaxInt \in Nat
  BY InvFacts, RecordNat, HeldTallyTypes, TallyAssumption, Zenon
<1>3. /\ -n \in Int /\ -n # 0 /\ tally[s][p]["BALANCE"] + (-n) >= 0
      /\ getTotalTokens(tally, p) + Cached[p] + (-n) <= MaxInt
  BY <1>0, <1>1, <1>2
<1>4. [issued EXCEPT ![p] = @ - n] = [issued EXCEPT ![p] = @ + (-n)]
  <2>1. issued[p] - n = issued[p] + (-n)
    BY <1>0, InvFacts
  <2> QED BY <2>1, Zenon
<1> QED BY <1>1, <1>3, <1>4, SupplyChanged, Zenon

\* A ledger and a cache that account for the supply, fee included, once it is added.
LEMMA FeeAccounted ==
  ASSUME IInv, NEW T, NEW p \in Property, NEW n \in Nat, NEW s \in Addr, Sound(T),
         \A a \in Addr : T[a][p]["BALANCE"] + (Cached[p] + n) <= MaxInt,
         \A x \in Addr \ {s}, q \in Property, v \in HeldTypes : T[x][q][v] >= tally[x][q][v]
  PROVE  LET F == AddFee(T, Cached, p, thresholds[p], n)
         IN  /\ F.ok \/ FewOwners
             /\ F.ok => /\ FeeRule(T, Cached, p, n, F.tally, F.cached)
                        /\ Distributed(F.cached, thresholds, issued)
<1> DEFINE F == AddFee(T, Cached, p, thresholds[p], n)
<1>1. FeeTarget(p) \in Property
  BY TargetExists, Zenon
<1>2. /\ (\E a \in Addr : Holding(T, a, FeeTarget(p)) > 0) => F.ok
      /\ F.ok => /\ FeeRule(T, Cached, p, n, F.tally, F.cached)
                 /\ F.cached[p] = 0 \/ F.cached[p] < thresholds[p]
  <2>1. Cached \in [Property -> Nat] /\ thresholds[p] \in Nat
    BY InvFacts, Zenon
  <2> QED BY <1>1, <2>1, FeeAdded, Zenon
<1> HIDE DEF F
<1>3. F.ok \/ FewOwners
  BY <1>2, InvFacts, OwnerLeft, Zenon
<1>4. ASSUME F.ok PROVE Distributed(F.cached, thresholds, issued)
  <2>1. F.cached \in [Property -> Nat] /\ \A q \in Property : q # p => F.cached[q] = Cached[q]
    BY <1>2, <1>4, Zenon DEF FeeRule
  <2>2. F.cached[p] = 0 \/ F.cached[p] < thresholds[p]
    BY <1>2, <1>4, Zenon
  <2> QED BY <2>1, <2>2, InvFacts, StillDistributed, Zenon
<1> QED BY <1>2, <1>3, <1>4, Zenon DEF F

LEMMA TradeStep ==
  ASSUME IInv, NEW a \in Addr, NEW b \in Addr, NEW p \in Property \ {MSC, TMSC},
         NEW n \in Amount, NEW fee \in Amount, TradeFee(a, b, p, n, fee)
  PROVE  IInv'
<1> DEFINE F  == AddFee(tally, Cached, p, thresholds[p], fee)
           D  == Updated(F.tally, a, p, "METADEX_RESERVE", -n)
           V  == Updated(D, b, p, "BALANCE", n - fee)
           ok == /\ F.ok
                 /\ CanUpdate(F.tally, a, p, "METADEX_RESERVE", -n)
                 /\ CanUpdate(D, b, p, "BALANCE", n - fee)
<1>1. n > fee /\ tally[a][p]["METADEX_RESERVE"] >= n /\ issued' = issued
      /\ Commit(ok, V, F.cached, {p}, thresholds)
  BY Zenon DEF TradeFee
<1>2. n \in Nat \ {0} /\ fee \in Nat /\ MaxInt \in Nat /\ n - fee \in Int /\ n - fee # 0
  BY <1>1, AmountFacts, Zenon
<1>3. "METADEX_RESERVE" \in HeldTypes /\ "METADEX_RESERVE" \in TallyType /\ "BALANCE" \in HeldTypes
  BY HeldTallyTypes
<1>4. /\ getTotalTokens(tally, p) + Cached[p] <= MaxInt
      /\ getTotalTokens(tally, p) \in Nat /\ Cached[p] \in Nat /\ Sound(tally)
  BY InvFacts
<1>5. tally[a][p]["METADEX_RESERVE"] \in Nat
  BY <1>3, <1>4, RecordNat, Zenon
<1>6. ASSUME NEW x \in Addr PROVE tally[x][p]["BALANCE"] + (Cached[p] + fee) <= MaxInt
  <2>1. tally[x][p]["BALANCE"] \in Nat
    BY <1>3, <1>4, RecordNat
  <2>2. n <= tally[a][p]["METADEX_RESERVE"]
    BY <1>1, <1>2, <1>5, Zenon
  <2>3. tally[x][p]["BALANCE"] + n <= getTotalTokens(tally, p)
    BY <1>2, <1>4, <2>2, TwoWithinTotal
  <2> QED BY <1>1, <1>2, <1>4, <2>1, <2>3, FeeFits, Zenon
<1>7. /\ F.ok \/ FewOwners
      /\ F.ok => /\ FeeRule(tally, Cached, p, fee, F.tally, F.cached)
                 /\ Distributed(F.cached, thresholds, issued)
  <2>1. \A x \in Addr \ {a}, q \in Property, v \in HeldTypes : tally[x][q][v] >= tally[x][q][v]
    BY <1>4, RecordNat
  <2> QED BY <1>2, <1>4, <1>6, <2>1, FeeAccounted, Zenon
<1> HIDE DEF F
<1>8. CASE F.ok
  <2>1. FeeRule(tally, Cached, p, fee, F.tally, F.cached)
    BY <1>7, <1>8, Zenon
  <2>2. /\ Sound(F.tally) /\ F.cached \in [Property -> Nat]
        /\ F.tally[a][p]["METADEX_RESERVE"] = tally[a][p]["METADEX_RESERVE"]
        /\ \A q \in Property : q # p => F.cached[q] = Cached[q]
    <3>1. "METADEX_RESERVE" # "BALANCE"
      OBVIOUS
    <3> QED BY <1>3, <2>1, <3>1, Zenon DEF FeeRule
  <2>3. n <= F.tally[a][p]["METADEX_RESERVE"]
    BY <1>1, <1>2, <1>5, <2>2, Zenon
  <2>4. /\ CanUpdate(F.tally, a, p, "METADEX_RESERVE", -n) /\ Sound(D)
        /\ \A q \in Property : getTotalTokens(D, q) = getTotalTokens(F.tally, q) - At(q, p, n)
    <3> SUFFICES ASSUME NEW q \in Property
                 PROVE  /\ CanUpdate(F.tally, a, p, "METADEX_RESERVE", -n) /\ Sound(D)
                        /\ getTotalTokens(D, q) = getTotalTokens(F.tally, q) - At(q, p, n)
      BY Zenon
    <3>1. CanUpdate(F.tally, a, p, "METADEX_RESERVE", -n) /\ Sound(D)
      BY <1>2, <2>2, <2>3, DebitedTotal, Zenon
    <3>2. getTotalTokens(D, q) = getTotalTokens(F.tally, q) - At(q, p, n)
      BY <1>2, <2>2, <2>3, DebitedTotal DEF At
    <3> QED BY <3>1, <3>2, Zenon
  <2> HIDE DEF D
  <2>5. ASSUME NEW q \in Property
        PROVE  /\ getTotalTokens(D, q) + F.cached[q] = issued[q] - At(q, p, n - fee)
               /\ (getTotalTokens(D, q) + At(q, p, n - fee)) + F.cached[q] = issued[q]
               /\ getTotalTokens(D, q) \in Nat /\ F.cached[q] \in Nat
               /\ issued[q] \in Nat /\ issued[q] <= MaxInt
    <3>1. getTotalTokens(F.tally, q) + F.cached[q]
            = getTotalTokens(tally, q) + Cached[q] + At(q, p, fee)
      BY <2>1, Zenon DEF FeeRule, At
    <3>2. getTotalTokens(D, q) = getTotalTokens(F.tally, q) - At(q, p, n)
      BY <2>4, Zenon
    <3>3. /\ getTotalTokens(tally, q) + Cached[q] = issued[q] /\ issued[q] <= MaxInt
          /\ issued[q] \in Nat /\ F.cached[q] \in Nat
      BY <2>2, InvFacts, Zenon
    <3>4. getTotalTokens(D, q) \in Nat /\ getTotalTokens(F.tally, q) \in Nat
      BY <2>2, <2>4, TotalNat, Zenon
    <3>5. getTotalTokens(F.tally, q) + F.cached[q] = issued[q] + At(q, p, fee)
      BY <3>1, <3>3, Zenon
    <3>6. TradeMoved(getTotalTokens(F.tally, q), F.cached[q], issued[q], n, fee, q, p)
      BY <1>2, <3>3, <3>4, <3>5, TradeMoves, Zenon
    <3> QED BY <3>2, <3>3, <3>4, <3>6, Zenon DEF TradeMoved
  <2>6. D[b][p]["BALANCE"] \in Nat /\ D[b][p]["BALANCE"] <= getTotalTokens(D, p)
    BY <1>3, <2>4, TotalNat, RecordNat, Zenon
  <2>7. D[b][p]["BALANCE"] + (n - fee) \in Amount
    <3>1. /\ getTotalTokens(D, p) + F.cached[p] = issued[p] - (n - fee)
          /\ getTotalTokens(D, p) \in Nat /\ F.cached[p] \in Nat /\ issued[p] \in Nat /\ issued[p] <= MaxInt
      BY <2>5, Zenon DEF At
    <3> QED BY <1>1, <1>2, <2>6, <3>1, PriceFits, Zenon
  <2>8. CanUpdate(D, b, p, "BALANCE", n - fee) /\ Paid(D, V, b, p, n - fee)
    BY <1>2, <2>4, <2>7, BalanceChanged, Zenon
  <2> HIDE DEF V
  <2>9. ASSUME NEW q \in Property PROVE getTotalTokens(V, q) + F.cached[q] = issued[q]
    <3>1. getTotalTokens(V, q) = getTotalTokens(D, q) + At(q, p, n - fee)
      BY <2>8, Zenon DEF Paid
    <3> QED BY <2>5, <3>1, Zenon
  <2>10. Accounted(V, F.cached, issued)
    BY <2>2, <2>8, <2>9, InvFacts, Zenon DEF Accounted, Paid
  <2>11. Distributed(F.cached, thresholds, issued) /\ \A q \in Property \ {p} : F.cached[q] = Cached[q]
    BY <1>7, <1>8, <2>2, Zenon
  <2>12. ok /\ ok \in BOOLEAN
    BY <1>8, <2>4, <2>8, Zenon
  <2>13. Accounted(V, F.cached, issued') /\ Distributed(F.cached, thresholds, issued')
    BY <1>1, <2>10, <2>11, Zenon
  <2> HIDE DEF ok
  <2> QED BY <1>1, <2>11, <2>12, <2>13, CommitKeeps, Zenon
<1>9. CASE ~ F.ok
  <2>1. ~ ok /\ ok \in BOOLEAN /\ FewOwners
    BY <1>7, <1>9, Zenon
  <2> HIDE DEF ok
  <2> QED BY <1>1, <2>1, CommitKeeps, Zenon
<1> QED BY <1>8, <1>9

\* The number of receivers.
ReceiverCount(share) == SumUpTo([a \in Addr |-> IF share[a] > 0 THEN 1 ELSE 0], NumAddr)

\* When someone receives, the whole amount is received.
LEMMA SharesOfSend ==
  ASSUME NEW T, Sound(T), NEW s, NEW r \in Property, NEW n \in Nat,
         ReceiverCount(STO_GetReceivers(T, s, r, n)) > 0
  PROVE  LET share == STO_GetReceivers(T, s, r, n)
         IN  /\ \A a \in Addr : share[a] \in 0..n
             /\ SumUpTo(share, NumAddr) = n /\ ReceiverCount(share) \in Nat \ {0}
<1> DEFINE share == STO_GetReceivers(T, s, r, n)
           count == ReceiverCount(share)
           g == [a \in Addr |-> IF share[a] > 0 THEN 1 ELSE 0]
<1>1. /\ \A a \in Addr : share[a] \in 0..n
      /\ SumUpTo(share, NumAddr) = n \/ \A a \in Addr : share[a] = 0
  BY DistributionExact, Zenon
<1> HIDE DEF share
<1>2. NumAddr \in Nat /\ Addr = 1..NumAddr
  BY AddrFacts
<1>3. \A a \in 1..NumAddr : g[a] \in Nat
  BY <1>2
<1>4. (\A a \in Addr : share[a] = 0) => \A a \in 1..NumAddr : g[a] = 0
  BY <1>2
<1>5. count = SumUpTo(g, NumAddr) /\ count > 0
  BY Zenon DEF ReceiverCount, share
<1> HIDE DEF g, count
<1>6. count \in Nat
  BY <1>2, <1>3, <1>5, SumNat
<1>7. (\A a \in Addr : share[a] = 0) => count = 0
  BY <1>2, <1>4, <1>5, SumOfZeros
<1>8. SumUpTo(share, NumAddr) = n /\ count \in Nat \ {0}
  BY <1>1, <1>5, <1>6, <1>7
<1> QED BY <1>1, <1>8, Zenon DEF share, count

\* The sender pays the fee and still has the amount.
LEMMA FeePaid ==
  ASSUME IInv, NEW s \in Addr, NEW p \in Property, NEW n \in Nat \ {0}, NEW f \in Property,
         NEW fee \in Nat \ {0}, tally[s][p]["BALANCE"] >= n, CoversFee(s, p, n, f, fee)
  PROVE  LET U == Updated(tally, s, f, "BALANCE", -fee)
         IN  /\ CanUpdate(tally, s, f, "BALANCE", -fee) /\ Paid(tally, U, s, f, -fee)
             /\ n <= U[s][p]["BALANCE"]
<1> DEFINE U == Updated(tally, s, f, "BALANCE", -fee)
<1>1. /\ tally[s][f]["BALANCE"] \in Amount /\ tally[s][f]["BALANCE"] \in Nat
      /\ tally[s][p]["BALANCE"] \in Nat
  BY InvFacts, RecordNat, HeldTallyTypes, Zenon
<1>2. tally[s][f]["BALANCE"] >= IF f = p THEN n + fee ELSE fee
  BY DEF CoversFee
<1>3. -fee \in Int /\ -fee # 0 /\ tally[s][f]["BALANCE"] + (-fee) \in Amount
  BY <1>1, <1>2, TallyAssumption DEF Amount
<1>4. CanUpdate(tally, s, f, "BALANCE", -fee) /\ Paid(tally, U, s, f, -fee)
      /\ U[s][p]["BALANCE"] = tally[s][p]["BALANCE"] + At(p, f, -fee)
  <2>1. Sound(tally)
    BY InvFacts, Zenon
  <2>2. /\ CanUpdate(tally, s, f, "BALANCE", -fee) /\ Paid(tally, U, s, f, -fee)
        /\ BalanceMoved(tally, U, s, f, -fee)
    BY <1>3, <2>1, BalanceChanged, Zenon
  <2> HIDE DEF U
  <2> QED BY <2>2, Zenon DEF BalanceMoved
<1> HIDE DEF U
<1>5. n <= U[s][p]["BALANCE"]
  <2>1. n <= tally[s][p]["BALANCE"] + At(p, f, -fee)
    BY <1>1, <1>2, AmountLeft, Zenon
  <2> QED BY <1>4, <2>1, Zenon
<1> QED BY <1>4, <1>5, Zenon DEF U

\* A send of version 0: the fee is destroyed.
BurnsFee(s, p, n, f, fee, share) ==
  \E T1, T2, T3, ok :
    /\ T1 = Updated(tally, s, f, "BALANCE", -fee)
    /\ T2 = Updated(T1, s, p, "BALANCE", -n) /\ T3 = SharesCredited(T2, p, share)
    /\ ok = /\ CanUpdate(tally, s, f, "BALANCE", -fee) /\ CanUpdate(T1, s, p, "BALANCE", -n)
            /\ CanCredit(T2, p, share) /\ SumUpTo(share, NumAddr) = n
    /\ NotifyTotalTokensChanged(ok, T3, Cached, MSC)
    /\ issued' = IF alive' THEN [issued EXCEPT ![f] = @ - fee] ELSE issued

LEMMA BurningSend ==
  ASSUME IInv, NEW s \in Addr, NEW p \in Property, NEW n \in Nat \ {0}, NEW f \in {MSC, TMSC}, f \in Property,
         NEW fee \in Nat \ {0}, tally[s][p]["BALANCE"] >= n, CoversFee(s, p, n, f, fee),
         NEW share, \A a \in Addr : share[a] \in 0..n, SumUpTo(share, NumAddr) = n,
         BurnsFee(s, p, n, f, fee, share)
  PROVE  IInv'
<1>0. PICK T1, T2, T3, ok :
        /\ T1 = Updated(tally, s, f, "BALANCE", -fee)
        /\ T2 = Updated(T1, s, p, "BALANCE", -n) /\ T3 = SharesCredited(T2, p, share)
        /\ ok = /\ CanUpdate(tally, s, f, "BALANCE", -fee) /\ CanUpdate(T1, s, p, "BALANCE", -n)
                /\ CanCredit(T2, p, share) /\ SumUpTo(share, NumAddr) = n
        /\ NotifyTotalTokensChanged(ok, T3, Cached, MSC)
        /\ issued' = IF alive' THEN [issued EXCEPT ![f] = @ - fee] ELSE issued
  BY Zenon DEF BurnsFee
<1> DEFINE i == [issued EXCEPT ![f] = @ + (-fee)]
<1>1. CanUpdate(tally, s, f, "BALANCE", -fee) /\ Paid(tally, T1, s, f, -fee) /\ n <= T1[s][p]["BALANCE"]
  BY <1>0, FeePaid, Zenon
<1>2. ASSUME NEW q \in Property
      PROVE  /\ getTotalTokens(T1, q) + Cached[q] = issued[q] + At(q, f, -fee)
             /\ issued[q] + At(q, f, -fee) \in Nat /\ issued[q] + At(q, f, -fee) <= MaxInt
             /\ getTotalTokens(T1, q) \in Nat /\ getTotalTokens(T1, q) <= MaxInt
  <2>1. getTotalTokens(T1, q) = getTotalTokens(tally, q) + At(q, f, -fee)
    BY <1>1, Zenon DEF Paid
  <2>2. /\ getTotalTokens(tally, q) + Cached[q] = issued[q] /\ issued[q] <= MaxInt
        /\ getTotalTokens(tally, q) \in Nat /\ Cached[q] \in Nat
    BY InvFacts, Zenon
  <2>3. getTotalTokens(T1, q) \in Nat
    BY <1>1, TotalNat, Zenon DEF Paid
  <2>4. FeeAway(getTotalTokens(tally, q), Cached[q], q, f, fee)
    BY <2>1, <2>2, <2>3, FeeLeaves, Zenon
  <2> QED BY <2>1, <2>2, <2>3, <2>4, Zenon DEF FeeAway
<1>3. Sound(T1) /\ getTotalTokens(T1, p) <= MaxInt
  BY <1>1, <1>2, Zenon DEF Paid
<1>4. CanUpdate(T1, s, p, "BALANCE", -n) /\ CanCredit(T2, p, share) /\ Paid(T1, T3, s, p, 0)
  BY <1>0, <1>1, <1>3, HandedOut, Zenon
<1>5. ok
  BY <1>0, <1>1, <1>4, Zenon
<1>6. /\ i = [issued EXCEPT ![f] = @ - fee] /\ i = [q \in Property |-> i[q]]
      /\ \A q \in Property : i[q] = issued[q] + At(q, f, -fee)
      /\ \A q \in Property \ {f} : i[q] = issued[q]
  <2>1. fee \in Int /\ -fee \in Int
    BY FeeNumber, Zenon
  <2>2. issued \in [Property -> Nat]
    BY InvFacts, Zenon
  <2>3. [issued EXCEPT ![f] = @ - fee] = i
    BY <2>1, <2>2, SupplyAt, Zenon
  <2>4. SupplyMoved(issued, i, f, -fee)
    BY <2>1, <2>2, SupplyAt, Zenon
  <2> HIDE DEF i
  <2> QED BY <2>3, <2>4, Zenon DEF SupplyMoved
<1> HIDE DEF i
<1>7. ASSUME NEW q \in Property
      PROVE  getTotalTokens(T3, q) + Cached[q] = i[q] /\ i[q] \in Nat /\ i[q] <= MaxInt
  <2>1. getTotalTokens(T3, q) = getTotalTokens(T1, q) + At(q, p, 0)
    BY <1>4, Zenon DEF Paid
  <2>2. getTotalTokens(T3, q) = getTotalTokens(T1, q)
    BY <1>2, <2>1, NoChange, Zenon
  <2> QED BY <1>2, <1>6, <2>2, Zenon
<1>8. Accounted(T3, Cached, i)
  <2>1. i \in [Property -> Nat]
    BY <1>6, <1>7, Zenon
  <2> QED BY <1>4, <1>7, <2>1, InvFacts, Zenon DEF Accounted, Paid
<1>9. MSC \in Property \ {TMSC}
  BY TargetExists, Zenon
<1>10. \A q \in Property \ {MSC, TMSC} : i[q] = issued[q]
  BY <1>6, Zenon
<1>11. FewOwners \/ \E a \in Addr : Holding(T3, a, FeeTarget(MSC)) > 0
  <2>1. Sound(tally) /\ Sound(T1) /\ Sound(T3) /\ MSC \in Property
    BY <1>1, <1>4, <1>9, InvFacts, Zenon DEF Paid
  <2>2. ASSUME NEW x \in Addr \ {s}, NEW q \in Property, NEW v \in HeldTypes
        PROVE  T3[x][q][v] >= tally[x][q][v]
    <3>1. T3[x][q][v] >= T1[x][q][v] /\ T1[x][q][v] >= tally[x][q][v]
      BY <1>1, <1>4, Zenon DEF Paid
    <3>2. T3[x][q][v] \in Nat /\ T1[x][q][v] \in Nat /\ tally[x][q][v] \in Nat
      BY <2>1, RecordNat, Zenon
    <3> QED BY <3>1, <3>2, Chained, Zenon
  <2> QED BY <2>1, <2>2, OwnerLeft, Zenon
<1> QED BY <1>0, <1>5, <1>6, <1>8, <1>9, <1>10, <1>11, NotifyKeeps, Zenon

\* A send of version 1: the fee is added to the cache.
CachesFee(s, p, n, f, fee, share) ==
  \E T1, F, T2, T3, ok :
    /\ T1 = Updated(tally, s, f, "BALANCE", -fee)
    /\ F = AddFee(T1, Cached, f, thresholds[f], fee)
    /\ T2 = Updated(F.tally, s, p, "BALANCE", -n) /\ T3 = SharesCredited(T2, p, share)
    /\ ok = /\ CanUpdate(tally, s, f, "BALANCE", -fee) /\ F.ok
            /\ CanUpdate(F.tally, s, p, "BALANCE", -n)
            /\ CanCredit(T2, p, share) /\ SumUpTo(share, NumAddr) = n
    /\ Commit(ok, T3, F.cached, {f}, thresholds) /\ issued' = issued

LEMMA CachingSend ==
  ASSUME IInv, NEW s \in Addr, NEW p \in Property, NEW n \in Nat \ {0}, NEW f \in Property,
         NEW fee \in Nat \ {0}, tally[s][p]["BALANCE"] >= n, CoversFee(s, p, n, f, fee),
         NEW share, \A a \in Addr : share[a] \in 0..n, SumUpTo(share, NumAddr) = n,
         CachesFee(s, p, n, f, fee, share)
  PROVE  IInv'
<1>0. PICK T1, F, T2, T3, ok :
        /\ T1 = Updated(tally, s, f, "BALANCE", -fee)
        /\ F = AddFee(T1, Cached, f, thresholds[f], fee)
        /\ T2 = Updated(F.tally, s, p, "BALANCE", -n) /\ T3 = SharesCredited(T2, p, share)
        /\ ok = /\ CanUpdate(tally, s, f, "BALANCE", -fee) /\ F.ok
                /\ CanUpdate(F.tally, s, p, "BALANCE", -n)
                /\ CanCredit(T2, p, share) /\ SumUpTo(share, NumAddr) = n
        /\ Commit(ok, T3, F.cached, {f}, thresholds) /\ issued' = issued
  BY Zenon DEF CachesFee
<1>1. CanUpdate(tally, s, f, "BALANCE", -fee) /\ Paid(tally, T1, s, f, -fee) /\ n <= T1[s][p]["BALANCE"]
  BY <1>0, FeePaid, Zenon
<1>2. Sound(T1) /\ Sound(tally) /\ MaxInt \in Nat
  BY <1>1, InvFacts, TallyAssumption, Zenon DEF Paid
<1>3. ASSUME NEW q \in Property
      PROVE  /\ getTotalTokens(T1, q) + Cached[q] + At(q, f, fee) = issued[q]
             /\ issued[q] <= MaxInt /\ getTotalTokens(T1, q) \in Nat
             /\ Cached[q] \in Nat /\ issued[q] \in Nat
  <2>1. getTotalTokens(T1, q) = getTotalTokens(tally, q) + At(q, f, -fee)
    BY <1>1, Zenon DEF Paid
  <2>2. /\ getTotalTokens(tally, q) + Cached[q] = issued[q] /\ issued[q] <= MaxInt
        /\ getTotalTokens(tally, q) \in Nat /\ Cached[q] \in Nat /\ issued[q] \in Nat
    BY InvFacts, Zenon
  <2>3. getTotalTokens(T1, q) \in Nat
    BY <1>2, TotalNat, Zenon
  <2>4. FeeAway(getTotalTokens(tally, q), Cached[q], q, f, fee)
    BY <2>1, <2>2, <2>3, FeeLeaves, Zenon
  <2> QED BY <2>1, <2>2, <2>3, <2>4, Zenon DEF FeeAway
<1>4. ASSUME NEW a \in Addr PROVE T1[a][f]["BALANCE"] + (Cached[f] + fee) <= MaxInt
  <2>1. T1[a][f]["BALANCE"] \in Nat /\ T1[a][f]["BALANCE"] <= getTotalTokens(T1, f)
    BY <1>2, TotalNat, RecordNat, HeldTallyTypes, Zenon
  <2>2. getTotalTokens(T1, f) + Cached[f] + fee <= MaxInt /\ getTotalTokens(T1, f) \in Nat /\ Cached[f] \in Nat
    <3>1. At(f, f, fee) = fee
      BY Zenon DEF At
    <3> QED BY <1>3, <3>1, Zenon
  <2>3. fee \in Nat
    BY FeeNumber, Zenon
  <2> QED BY <2>1, <2>2, <2>3, WithinTotal, Zenon
<1>5. /\ F.ok \/ FewOwners
      /\ F.ok => FeeRule(T1, Cached, f, fee, F.tally, F.cached) /\ Distributed(F.cached, thresholds, issued)
  <2>1. fee \in Nat
    BY FeeNumber, Zenon
  <2>2. \A x \in Addr \ {s}, q \in Property, v \in HeldTypes : T1[x][q][v] >= tally[x][q][v]
    BY <1>1, Zenon DEF Paid
  <2> QED BY <1>0, <1>2, <1>4, <2>1, <2>2, FeeAccounted, Zenon
<1>6. CASE F.ok
  <2>1. FeeRule(T1, Cached, f, fee, F.tally, F.cached)
    BY <1>5, <1>6, Zenon
  <2>2. /\ Sound(F.tally) /\ F.cached \in [Property -> Nat]
        /\ \A q \in Property : q # f => F.cached[q] = Cached[q]
        /\ F.tally[s][p]["BALANCE"] >= T1[s][p]["BALANCE"]
    BY <2>1, HeldTallyTypes, Zenon DEF FeeRule
  <2>3. n <= F.tally[s][p]["BALANCE"]
    <3>1. F.tally[s][p]["BALANCE"] \in Nat /\ T1[s][p]["BALANCE"] \in Nat
      BY <1>2, <2>2, RecordNat, HeldTallyTypes, Zenon
    <3> QED BY <1>1, <2>2, <3>1, Chained, Zenon
  <2>4. ASSUME NEW q \in Property
        PROVE  /\ getTotalTokens(F.tally, q) + F.cached[q] = issued[q]
               /\ getTotalTokens(F.tally, q) \in Nat /\ getTotalTokens(F.tally, q) <= MaxInt
    <3>1. getTotalTokens(F.tally, q) + F.cached[q]
            = getTotalTokens(T1, q) + Cached[q] + At(q, f, fee)
      BY <2>1, Zenon DEF FeeRule, At
    <3>2. getTotalTokens(F.tally, q) \in Nat /\ F.cached[q] \in Nat
      BY <2>2, TotalNat, Zenon
    <3>3. getTotalTokens(F.tally, q) + F.cached[q] = issued[q]
      BY <1>3, <3>1, Zenon
    <3>4. issued[q] <= MaxInt /\ issued[q] \in Nat
      BY <1>3, Zenon
    <3>5. getTotalTokens(F.tally, q) <= MaxInt
      BY <1>2, <3>2, <3>3, <3>4, PartWithin, Zenon
    <3> QED BY <3>2, <3>3, <3>5, Zenon
  <2>5. CanUpdate(F.tally, s, p, "BALANCE", -n) /\ CanCredit(T2, p, share) /\ Paid(F.tally, T3, s, p, 0)
    BY <1>0, <2>2, <2>3, <2>4, HandedOut, Zenon
  <2>6. ok /\ ok \in BOOLEAN
    BY <1>0, <1>1, <1>6, <2>5, Zenon
  <2>7. ASSUME NEW q \in Property PROVE getTotalTokens(T3, q) + F.cached[q] = issued[q]
    <3>1. getTotalTokens(T3, q) = getTotalTokens(F.tally, q) + At(q, p, 0)
      BY <2>5, Zenon DEF Paid
    <3>2. getTotalTokens(T3, q) = getTotalTokens(F.tally, q)
      BY <2>4, <3>1, NoChange, Zenon
    <3> QED BY <2>4, <3>2, Zenon
  <2>8. Accounted(T3, F.cached, issued)
    BY <2>2, <2>5, <2>7, InvFacts, Zenon DEF Accounted, Paid
  <2>9. Accounted(T3, F.cached, issued') /\ Distributed(F.cached, thresholds, issued')
    BY <1>0, <1>5, <1>6, <2>8, Zenon
  <2>10. \A q \in Property \ {f} : F.cached[q] = Cached[q]
    BY <2>2, Zenon
  <2> QED BY <1>0, <2>6, <2>9, <2>10, CommitKeeps, Zenon
<1>7. CASE ~ F.ok
  <2>1. ~ ok /\ ok \in BOOLEAN /\ FewOwners
    BY <1>0, <1>5, <1>7, Zenon
  <2> QED BY <1>0, <2>1, CommitKeeps, Zenon
<1> QED BY <1>6, <1>7, Zenon

LEMMA SendStep ==
  ASSUME IInv, NEW s \in Addr, NEW p \in Property, NEW n \in Amount, NEW r \in Property,
         NEW version \in {0, 1}, SendToOwners(s, p, n, r, version)
  PROVE  IInv'
<1> DEFINE share == STO_GetReceivers(tally, s, IF version = 0 THEN p ELSE r, n)
           count == ReceiverCount(share)
           f     == FeeTarget(p)
           fee   == count * IF version = 0 THEN FeePerOwner ELSE FeePerOwnerV1
           T1    == Updated(tally, s, f, "BALANCE", -fee)
           F     == IF version = 0 THEN [tally |-> T1, cached |-> Cached, ok |-> TRUE]
                    ELSE AddFee(T1, Cached, f, thresholds[f], fee)
           T2    == Updated(F.tally, s, p, "BALANCE", -n)
           T3    == SharesCredited(T2, p, share)
           ok    == /\ CanUpdate(tally, s, f, "BALANCE", -fee)
                    /\ F.ok
                    /\ CanUpdate(F.tally, s, p, "BALANCE", -n)
                    /\ CanCredit(T2, p, share)
                    /\ SumUpTo(share, NumAddr) = n
<1>1. /\ n > 0 /\ tally[s][p]["BALANCE"] >= n /\ count > 0 /\ CoversFee(s, p, n, f, fee)
      /\ IF version = 0
           THEN NotifyTotalTokensChanged(ok, T3, F.cached, MSC)
           ELSE Commit(ok, T3, F.cached, {f}, thresholds)
      /\ issued' = IF version = 0 /\ alive' THEN [issued EXCEPT ![f] = @ - fee] ELSE issued
  BY Zenon DEF SendToOwners, ReceiverCount
<1> HIDE DEF share, count, f, fee, T1, F, T2, T3, ok
<1>2. n \in Nat \ {0}
  BY <1>1, AmountFacts, Zenon
<1>3. Sound(tally) /\ f \in Property /\ f \in {MSC, TMSC}
  BY InvFacts, TargetExists, Zenon DEF f
<1>4. (\A a \in Addr : share[a] \in 0..n) /\ SumUpTo(share, NumAddr) = n /\ count \in Nat \ {0}
  <2>1. (IF version = 0 THEN p ELSE r) \in Property /\ n \in Nat
    BY <1>2
  <2> DEFINE of == IF version = 0 THEN p ELSE r
  <2>2. share = STO_GetReceivers(tally, s, of, n) /\ count = ReceiverCount(share)
    BY Zenon DEF share, count
  <2>3. of \in Property
    BY <2>1, Zenon
  <2> HIDE DEF of
  <2>4. ReceiverCount(STO_GetReceivers(tally, s, of, n)) > 0
    BY <1>1, <2>2, Zenon
  <2>5. LET h == STO_GetReceivers(tally, s, of, n)
        IN  /\ \A a \in Addr : h[a] \in 0..n
            /\ SumUpTo(h, NumAddr) = n /\ ReceiverCount(h) \in Nat \ {0}
    BY <1>3, <2>1, <2>3, <2>4, SharesOfSend, Zenon
  <2> QED BY <2>2, <2>5, Zenon
<1>5. fee \in Nat \ {0}
  <2>1. \A k, m \in Nat \ {0} : k * m \in Nat \ {0}
    OBVIOUS
  <2>2. (IF version = 0 THEN FeePerOwner ELSE FeePerOwnerV1) \in Nat \ {0}
    BY FeesAssumption
  <2> QED BY <1>4, <2>1, <2>2, Zenon DEF fee
<1>6. CASE version = 0
  <2>1. F.tally = T1 /\ F.cached = Cached /\ F.ok = TRUE
    BY <1>6 DEF F
  <2>2. T2 = Updated(T1, s, p, "BALANCE", -n)
    BY <2>1, Zenon DEF T2
  <2>3. ok = /\ CanUpdate(tally, s, f, "BALANCE", -fee) /\ CanUpdate(T1, s, p, "BALANCE", -n)
             /\ CanCredit(T2, p, share) /\ SumUpTo(share, NumAddr) = n
    BY <2>1, Zenon DEF ok
  <2>4. T3 = SharesCredited(T2, p, share) /\ T1 = Updated(tally, s, f, "BALANCE", -fee)
    BY Zenon DEF T1, T3
  <2>5. NotifyTotalTokensChanged(ok, T3, Cached, MSC)
    BY <1>1, <1>6, <2>1, Zenon
  <2>6. issued' = IF alive' THEN [issued EXCEPT ![f] = @ - fee] ELSE issued
    BY <1>1, <1>6, Zenon
  <2>7. BurnsFee(s, p, n, f, fee, share)
    BY <2>2, <2>3, <2>4, <2>5, <2>6, Zenon DEF BurnsFee
  <2> QED BY <1>1, <1>2, <1>3, <1>4, <1>5, <2>7, BurningSend, Zenon
<1>7. CASE version = 1
  <2>1. F = AddFee(T1, Cached, f, thresholds[f], fee) /\ version # 0
    BY <1>7 DEF F
  <2>2. /\ T1 = Updated(tally, s, f, "BALANCE", -fee) /\ T2 = Updated(F.tally, s, p, "BALANCE", -n)
        /\ T3 = SharesCredited(T2, p, share)
        /\ ok = /\ CanUpdate(tally, s, f, "BALANCE", -fee) /\ F.ok
                /\ CanUpdate(F.tally, s, p, "BALANCE", -n)
                /\ CanCredit(T2, p, share) /\ SumUpTo(share, NumAddr) = n
    BY Zenon DEF T1, T2, T3, ok
  <2>3. Commit(ok, T3, F.cached, {f}, thresholds) /\ issued' = issued
    BY <1>1, <2>1, Zenon
  <2>4. CachesFee(s, p, n, f, fee, share)
    BY <2>1, <2>2, <2>3, Zenon DEF CachesFee
  <2> QED BY <1>1, <1>2, <1>3, <1>4, <1>5, <2>4, CachingSend, Zenon
<1> QED BY <1>6, <1>7

LEMMA BlockEndStep ==
  ASSUME IInv, BlockEnd
  PROVE  IInv'
<1>1. /\ block < MaxBlock /\ block' = block + 1 /\ past' = [past EXCEPT ![block] = Cached]
      /\ tally' = tally /\ history' = history /\ thresholds' = thresholds
      /\ alive' = alive /\ issued' = issued
  BY Zenon DEF BlockEnd
<1>2. /\ block \in 1..MaxBlock /\ MaxBlock \in Nat /\ MaxHistory \in Nat
      /\ history \in [Property -> SUBSET ((1..block) \X Amount)]
      /\ past \in [1..MaxBlock -> [Property -> Nat]]
  BY FeesAssumption, Zenon DEF IInv, HistoryInv
<1>3. Cached' = Cached
  BY <1>1, Zenon DEF Cached
<1>4. past' \in [1..MaxBlock -> [Property -> Nat]]
      /\ \A k \in 1..MaxBlock, q \in Property : past'[k][q] = IF k = block THEN Cached[q] ELSE past[k][q]
  BY <1>1, <1>2, InvFacts
<1>5. ASSUME NEW q \in Property
      PROVE  IsHistory(history[q], block + 1) /\ RollsBack(history[q], block + 1, past', q)
  <2>1. IsHistory(history[q], block) /\ RollsBack(history[q], block, past, q)
    BY Zenon DEF IInv, HistoryInv
  <2>2. IsHistory(history[q], block + 1)
    <3>1. (1..block) \X Amount \subseteq (1..(block + 1)) \X Amount
      BY <1>2
    <3> QED BY <2>1, <3>1, Zenon DEF IsHistory
  <2>3. ASSUME NEW b \in 1..(block + 1), b >= (block + 1) - MaxHistory,
               ~ (DebugFees /\ RollBackCache(history[q], b) = {})
        PROVE  GetCachedAmount(RollBackCache(history[q], b)) = IF b = 1 THEN 0 ELSE past'[b - 1][q]
    <3>1. CASE b = block + 1
      <4>1. \A e \in history[q] : e[1] < b
        BY <1>2, <2>1, <3>1 DEF IsHistory
      <4>2. RollBackCache(history[q], b) = history[q]
        BY <4>1, Zenon DEF RollBackCache
      <4>3. GetCachedAmount(history[q]) = Cached[q]
        BY DEF Cached
      <4>4. b # 1 /\ b - 1 = block
        BY <1>2, <3>1
      <4>5. past'[block][q] = Cached[q]
        BY <1>2, <1>4
      <4> QED BY <4>2, <4>3, <4>4, <4>5, Zenon
    <3>2. CASE b # block + 1
      <4>1. b \in 1..block /\ b >= block - MaxHistory
        BY <1>2, <2>3, <3>2
      <4>2. GetCachedAmount(RollBackCache(history[q], b)) = IF b = 1 THEN 0 ELSE past[b - 1][q]
        BY <2>1, <2>3, <4>1, Zenon DEF RollsBack
      <4>3. b # 1 => b - 1 \in 1..MaxBlock /\ b - 1 # block
        BY <1>2, <4>1
      <4>4. b # 1 => past'[b - 1][q] = past[b - 1][q]
        BY <1>4, <4>3
      <4> QED BY <4>2, <4>4, Zenon
    <3> QED BY <3>1, <3>2
  <2>4. RollsBack(history[q], block + 1, past', q)
    BY <2>3, Zenon DEF RollsBack
  <2> QED BY <2>2, <2>4
<1>6. block + 1 \in 1..MaxBlock
  BY <1>1, <1>2
<1>7. history \in [Property -> SUBSET ((1..(block + 1)) \X Amount)]
  <2>1. SUBSET ((1..block) \X Amount) \subseteq SUBSET ((1..(block + 1)) \X Amount)
    BY <1>2
  <2> QED BY <1>2, <2>1
<1>8. HistoryInv'
  BY <1>1, <1>4, <1>5, <1>6, <1>7, Zenon DEF HistoryInv
<1>9. FewOwners' = FewOwners
  BY <1>1, Zenon DEF FewOwners
<1> QED BY <1>1, <1>3, <1>8, <1>9, Zenon DEF IInv

LEMMA InitHolds == Init => IInv
<1> SUFFICES ASSUME Init PROVE IInv
  OBVIOUS
<1>1. \A a \in Addr, q \in Property, t \in TallyType :
        tally[a][q][t] = CASE t = "BALANCE"         -> InitBalance[a][q]
                           [] t = "METADEX_RESERVE" -> InitReserve[a][q]
                           [] OTHER                 -> 0
  BY DEF Init
<1>2. \A a \in Addr, q \in Property : InitBalance[a][q] \in Amount /\ InitReserve[a][q] \in Amount
  BY FeesAssumption, Zenon
<1>3. \A m \in Amount : m \in Int64 /\ m >= 0 /\ 0 \in Int64 /\ m \in Nat
  BY TallyAssumption DEF Amount, Int64, MinInt
<1>4. \A a \in Addr, q \in Property, t \in TallyType : tally[a][q][t] \in Int64 /\ tally[a][q][t] >= 0
  BY <1>1, <1>2, <1>3
<1>5. Sound(tally)
  <2>1. tally = [a \in Addr |-> [q \in Property |-> [t \in TallyType |-> tally[a][q][t]]]]
    BY DEF Init
  <2>2. tally \in Ledger
    BY <1>4, <2>1 DEF Ledger
  <2> QED BY <1>4, <2>2, Zenon DEF Sound, NonNegative
<1>6. \A a \in Addr, q \in Property : Holding(tally, a, q) = InitBalance[a][q] + InitReserve[a][q]
  <2> SUFFICES ASSUME NEW a \in Addr, NEW q \in Property
               PROVE  Holding(tally, a, q) = InitBalance[a][q] + InitReserve[a][q]
    OBVIOUS
  <2>1. /\ "BALANCE" \in TallyType /\ "SELLOFFER_RESERVE" \in TallyType
        /\ "ACCEPT_RESERVE" \in TallyType /\ "METADEX_RESERVE" \in TallyType
    BY HeldTallyTypes
  <2>2. /\ tally[a][q]["BALANCE"] = InitBalance[a][q] /\ tally[a][q]["SELLOFFER_RESERVE"] = 0
        /\ tally[a][q]["ACCEPT_RESERVE"] = 0 /\ tally[a][q]["METADEX_RESERVE"] = InitReserve[a][q]
    BY <1>1, <2>1
  <2>3. InitBalance[a][q] \in Nat /\ InitReserve[a][q] \in Nat
    BY <1>2, <1>3
  <2> QED BY <2>2, <2>3 DEF Holding
<1>7. \A q \in Property : getTotalTokens(tally, q) \in Nat /\ getTotalTokens(tally, q) <= MaxInt
  <2> SUFFICES ASSUME NEW q \in Property
               PROVE  getTotalTokens(tally, q) \in Nat /\ getTotalTokens(tally, q) <= MaxInt
    OBVIOUS
  <2>1. [a \in Addr |-> Holding(tally, a, q)] = [a \in Addr |-> InitBalance[a][q] + InitReserve[a][q]]
    BY <1>6
  <2>2. SumUpTo([a \in Addr |-> InitBalance[a][q] + InitReserve[a][q]], NumAddr) <= MaxInt
    BY FeesAssumption, Zenon
  <2>3. getTotalTokens(tally, q) <= MaxInt
    BY <2>1, <2>2, Zenon DEF getTotalTokens
  <2> QED BY <1>5, <2>3, TotalNat
<1>8. Cached \in [Property -> Nat] /\ \A q \in Property : Cached[q] = 0
  BY DEF Init, Cached, GetCachedAmount
<1>9. issued \in [Property -> Nat] /\ \A q \in Property : issued[q] = getTotalTokens(tally, q)
  BY <1>7 DEF Init
<1>10. Accounted(tally, Cached, issued)
  <2>1. \A q \in Property : getTotalTokens(tally, q) + Cached[q] = issued[q] /\ issued[q] <= MaxInt
    BY <1>7, <1>8, <1>9
  <2> QED BY <1>5, <1>8, <1>9, <2>1, Zenon DEF Accounted
<1>11. Distributed(Cached, thresholds, issued)
  <2>1. \A q \in Property : thresholds[q] = IF q = TMSC THEN 0 ELSE DistributionThreshold(issued[q])
    BY <1>9 DEF Init
  <2>2. \A q \in Property : DistributionThreshold(issued[q]) \in Nat /\ DistributionThreshold(issued[q]) > 0
    BY <1>7, <1>9, ThresholdPositive
  <2>3. thresholds = [q \in Property |-> thresholds[q]]
    BY DEF Init
  <2>4. thresholds \in [Property -> Nat]
    BY <2>1, <2>2, <2>3
  <2> QED BY <1>8, <2>1, <2>2, <2>4 DEF Distributed
<1>12. HistoryInv
  <2>1. /\ block = 1 /\ history = [q \in Property |-> {}] /\ MaxBlock \in Nat \ {0}
        /\ past \in [1..MaxBlock -> [Property -> Nat]]
    BY FeesAssumption DEF Init
  <2>2. \A q \in Property : history[q] = {}
    BY <2>1
  <2>3. \A q \in Property : IsHistory(history[q], block)
    BY <2>2 DEF IsHistory
  <2>4. \A b : RollBackCache({}, b) = {}
    BY DEF RollBackCache
  <2>5. GetCachedAmount({}) = 0
    BY DEF GetCachedAmount
  <2>6. \A q \in Property : RollsBack(history[q], block, past, q)
    <3>1. \A b \in 1..block : b = 1
      BY <2>1
    <3> QED BY <2>2, <2>4, <2>5, <3>1, Zenon DEF RollsBack
  <2>7. block \in 1..MaxBlock /\ history \in [Property -> SUBSET ((1..block) \X Amount)]
    BY <2>1
  <2> QED BY <2>1, <2>3, <2>6, <2>7, Zenon DEF HistoryInv
<1>13. alive = TRUE
  BY DEF Init
<1> QED BY <1>10, <1>11, <1>12, <1>13, Zenon DEF IInv

LEMMA NextKeeps == IInv /\ [Next]_vars => IInv'
<1> SUFFICES ASSUME IInv, [Next]_vars PROVE IInv'
  OBVIOUS
<1>1. ASSUME NEW x \in Sends, SendToOwners(x[1], x[2], x[3], x[4], x[5]) PROVE IInv'
  <2>1. /\ x[1] \in Addr /\ x[2] \in Property /\ x[3] \in Amount /\ x[4] \in Property /\ x[5] \in {0, 1}
    BY FeesAssumption, Zenon
  <2> QED BY <1>1, <2>1, SendStep, Zenon
<1>2. ASSUME NEW x \in Fills, TradeFee(x[1], x[2], x[3], x[4], x[5]) PROVE IInv'
  <2>1. /\ x[1] \in Addr /\ x[2] \in Addr /\ x[3] \in Property \ {MSC, TMSC}
        /\ x[4] \in Amount /\ x[5] \in Amount
    BY FeesAssumption
  <2> QED BY <1>2, <2>1, TradeStep, Zenon
<1>3. ASSUME NEW x \in Issues, GrantTokens(x[1], x[2], x[3]) \/ RevokeTokens(x[1], x[2], x[3]) PROVE IInv'
  <2>1. x[1] \in Addr /\ x[2] \in Property \ {MSC, TMSC} /\ x[3] \in Amount
    BY FeesAssumption, Zenon
  <2> QED BY <1>3, <2>1, GrantStep, RevokeStep, Zenon
<1>4. CASE BlockEnd
  BY <1>4, BlockEndStep, Zenon
<1>5. CASE UNCHANGED vars
  <2>1. /\ tally' = tally /\ history' = history /\ thresholds' = thresholds /\ block' = block
        /\ alive' = alive /\ issued' = issued /\ past' = past
    BY <1>5, Zenon DEF vars
  <2>2. Cached' = Cached /\ FewOwners' = FewOwners
    BY <2>1, Zenon DEF Cached, FewOwners
  <2>3. HistoryInv'
    BY <2>1, Zenon DEF IInv, HistoryInv
  <2> QED BY <2>1, <2>2, <2>3, Zenon DEF IInv
<1> QED BY <1>1, <1>2, <1>3, <1>4, <1>5, Zenon DEF Next

\* The invariant holds in every reachable state of the fee cache.
THEOREM FeesInvariant == Spec => []IInv
<1>1. Init => IInv
  BY InitHolds
<1>2. IInv /\ [Next]_vars => IInv'
  BY NextKeeps
<1> QED BY <1>1, <1>2, PTL DEF Spec

(***************************************************************************)
(* While two addresses own OMNI, no assert of logicMath_SendToOwners,      *)
(* x_Trade and DistributeCache fails: every amount is distributed to the   *)
(* last token and no update of the ledger is refused.                      *)
(***************************************************************************)
THEOREM AssertsAlwaysHold == Spec => []AssertsHold
<1>1. ASSUME IInv PROVE AssertsHold
  <2>1. tally \in Ledger /\ NonNegative(tally)
    BY <1>1, InvFacts, Zenon DEF Sound
  <2>2. thresholds \in [Property -> Amount]
    <3>1. \A q \in Property : thresholds[q] = 0 \/ thresholds[q] = DistributionThreshold(issued[q])
      BY <1>1, InvFacts DEF Distributed
    <3>2. \A q \in Property : DistributionThreshold(issued[q]) \in Amount
      BY <1>1, InvFacts, ThresholdPositive
    <3>3. 0 \in Amount
      BY TallyAssumption DEF Amount
    <3>4. thresholds \in [Property -> Nat]
      BY <1>1, InvFacts, Zenon
    <3> QED BY <3>1, <3>2, <3>3, <3>4
  <2> QED BY <1>1, <2>1, <2>2, Zenon DEF AssertsHold, TypeOK, IInv, HistoryInv, FewOwners
<1> QED BY <1>1, FeesInvariant, PTL

(***************************************************************************)
(* No token is lost or created by fees: what was issued and not destroyed  *)
(* is held by addresses or cached (AddFee, DistributeCache, the v0 burn of *)
(* logicMath_SendToOwners, grants and revocations).                        *)
(***************************************************************************)
THEOREM TokensAlwaysAccounted == Spec => []TokensAccounted
<1>1. ASSUME IInv PROVE TokensAccounted
  BY <1>1, InvFacts, Zenon DEF TokensAccounted, TotalWithFees
<1> QED BY <1>1, FeesInvariant, PTL

(***************************************************************************)
(* No fee that reaches the threshold of the present supply waits: every    *)
(* change of a supply or of the cache is followed by EvalCache in time.    *)
(***************************************************************************)
THEOREM NoFeeEverWaits == Spec => []NoFeeWaits
<1>1. ASSUME IInv, NEW p \in Property
      PROVE  Cached[p] < DistributionThreshold(TotalWithFees(tally, Cached, p))
  <2>1. TotalWithFees(tally, Cached, p) = issued[p] /\ issued[p] \in Nat /\ issued[p] <= MaxInt
    BY <1>1, InvFacts DEF TotalWithFees
  <2>2. DistributionThreshold(issued[p]) \in Nat /\ DistributionThreshold(issued[p]) > 0
    BY <2>1, ThresholdPositive
  <2>3. Cached[p] = 0 \/ Cached[p] < DistributionThreshold(issued[p])
    BY <1>1, InvFacts DEF Distributed
  <2> QED BY <2>1, <2>2, <2>3, Zenon
<1>2. IInv => NoFeeWaits
  BY <1>1, Zenon DEF NoFeeWaits
<1> QED BY <1>2, FeesInvariant, PTL

(***************************************************************************)
(* RollBackCache restores what was cached at the begin of any block within *)
(* MAX_STATE_HISTORY, unless pruning with logging on has emptied it.       *)
(***************************************************************************)
THEOREM CacheAlwaysRollsBack == Spec => []CacheRollsBack
<1>1. ASSUME IInv PROVE CacheRollsBack
  <2>1. \A q \in Property : RollsBack(history[q], block, past, q)
    BY <1>1, Zenon DEF IInv, HistoryInv
  <2> QED BY <2>1, Zenon DEF CacheRollsBack, RollsBack
<1> QED BY <1>1, FeesInvariant, PTL
==============================================================================
