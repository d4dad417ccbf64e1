----------------------------- MODULE TallyProofs -----------------------------
(***************************************************************************)
(* Facts about sums and about the ledger that hold whatever component uses *)
(* them: what a move of tokens does to each record, that it keeps the      *)
(* total, that a covered move never fails, and that a distribution to      *)
(* owners hands out the whole amount, whatever they own and however the    *)
(* shares are rounded.                                                     *)
(***************************************************************************)
EXTENDS Owners, TLAPS

LOCAL INSTANCE WellFoundedInduction

\* Every non-empty set of naturals has a least element: the induction of these proofs.
LEMMA LeastElement ==
  ASSUME NEW T, T \subseteq Nat, T # {}
  PROVE  \E m \in T : \A k \in T : m <= k
<1> DEFINE R == {ss \in Nat \X Nat : ss[1] < ss[2]}
<1>1. IsWellFoundedOn(R, Nat)
  BY NatLessThanWellFounded, Zenon DEF OpToRel
<1> HIDE DEF R
<1>2. \A x, y \in Nat : <<y, x>> \in R <=> y < x
  BY DEF R
<1>3. PICK m \in T : \A y \in T : ~ (<<y, m>> \in R)
  BY <1>1, WFMin, Zenon
<1>4. \A k \in T : m <= k
  <2> TAKE k \in T
  <2>1. k \in Nat /\ m \in Nat
    OBVIOUS
  <2>2. ~ (k < m)
    BY <1>2, <1>3, <2>1, Zenon
  <2> QED BY <2>1, <2>2
<1> QED BY <1>4

PartialSums(s, f, n) ==
  s = [i \in 0..n |-> IF i = 0 THEN 0 ELSE s[i - 1] + f[i]]

\* SumUpTo is the last of the partial sums.
LEMMA SumUpToIsPartialSum ==
  ASSUME NEW n \in Nat, NEW f
  PROVE  \E s : PartialSums(s, f, n) /\ SumUpTo(f, n) = s[n]
<1>0. \E s : PartialSums(s, f, n)
  <2> DEFINE Bad == {k \in Nat : ~ \E s : PartialSums(s, f, k)}
  <2> SUFFICES ASSUME Bad # {} PROVE FALSE
    OBVIOUS
  <2>0. Bad \subseteq Nat
    OBVIOUS
  <2>1. PICK m \in Bad : \A k \in Bad : m <= k
    BY <2>0, LeastElement, Zenon
  <2>2. m # 0
    <3>1. PartialSums([i \in 0..0 |-> 0], f, 0)
      BY DEF PartialSums
    <3> QED BY <3>1
  <2>3. PICK s : PartialSums(s, f, m - 1)
    BY <2>1, <2>2
  <2> DEFINE g == [i \in 0..m |-> IF i = m THEN s[m - 1] + f[m] ELSE s[i]]
  <2>4. PartialSums(g, f, m)
    BY <2>2, <2>3 DEF PartialSums
  <2> QED BY <2>4
<1> DEFINE s[i \in 0..n] == IF i = 0 THEN 0 ELSE s[i - 1] + f[i]
<1>1. PartialSums(s, f, n)
  BY <1>0, Zenon DEF PartialSums
<1>2. SumUpTo(f, n) = s[n]
  BY DEF SumUpTo
<1> QED BY <1>1, <1>2, Zenon

(***************************************************************************)
(* The recursion SumUpTo obeys.                                            *)
(***************************************************************************)
LEMMA SumZero ==
  ASSUME NEW f
  PROVE  SumUpTo(f, 0) = 0
<1>1. PICK s : PartialSums(s, f, 0) /\ SumUpTo(f, 0) = s[0]
  BY SumUpToIsPartialSum
<1> QED BY <1>1 DEF PartialSums

\* The recursion of SumUpTo.
LEMMA SumStep ==
  ASSUME NEW f, NEW n \in Nat \ {0}
  PROVE  SumUpTo(f, n) = SumUpTo(f, n - 1) + f[n]
<1>1. PICK s : PartialSums(s, f, n) /\ SumUpTo(f, n) = s[n]
  BY SumUpToIsPartialSum
<1>2. PICK t : PartialSums(t, f, n - 1) /\ SumUpTo(f, n - 1) = t[n - 1]
  BY SumUpToIsPartialSum
<1>3. t[n - 1] = s[n - 1]
  <2> DEFINE Bad == {i \in 0..(n - 1) : s[i] # t[i]}
  <2> SUFFICES ASSUME Bad # {} PROVE FALSE
    OBVIOUS
  <2>0. Bad \subseteq Nat
    OBVIOUS
  <2>1. PICK k \in Bad : \A i \in Bad : k <= i
    BY <2>0, LeastElement, Zenon
  <2>2. k # 0
    BY <1>1, <1>2 DEF PartialSums
  <2>3. k - 1 \in 0..(n - 1) /\ s[k - 1] = t[k - 1]
    BY <2>1, <2>2
  <2>4. s[k] = s[k - 1] + f[k] /\ t[k] = t[k - 1] + f[k]
    BY <1>1, <1>2, <2>2 DEF PartialSums
  <2> QED BY <2>3, <2>4
<1>4. s[n] = s[n - 1] + f[n]
  BY <1>1 DEF PartialSums
<1> QED BY <1>1, <1>2, <1>3, <1>4

(***************************************************************************)
(* A sum of integers is an integer, and of naturals a natural no smaller   *)
(* than any of its terms.                                                  *)
(***************************************************************************)
LEMMA SumInt ==
  ASSUME NEW n \in Nat, NEW f, \A i \in 1..n : f[i] \in Int
  PROVE  SumUpTo(f, n) \in Int
<1> DEFINE Bad == {k \in 0..n : SumUpTo(f, k) \notin Int}
<1> SUFFICES ASSUME Bad # {} PROVE FALSE
  OBVIOUS
<1>0. Bad \subseteq Nat
  OBVIOUS
<1>1. PICK k \in Bad : \A i \in Bad : k <= i
  BY <1>0, LeastElement, Zenon
<1>2. k # 0
  BY SumZero
<1>3. SumUpTo(f, k) = SumUpTo(f, k - 1) + f[k]
  BY <1>2, SumStep
<1>4. SumUpTo(f, k - 1) \in Int
  BY <1>1, <1>2
<1> QED BY <1>2, <1>3, <1>4

\* A sum of naturals is natural and bounds its terms.
LEMMA SumNat ==
  ASSUME NEW n \in Nat, NEW f, \A i \in 1..n : f[i] \in Nat
  PROVE  /\ SumUpTo(f, n) \in Nat
         /\ \A k \in 1..n : f[k] <= SumUpTo(f, n)
<1> DEFINE OK(m) == SumUpTo(f, m) \in Nat /\ \A k \in 1..m : f[k] <= SumUpTo(f, m)
           Bad == {m \in 0..n : ~ OK(m)}
<1> SUFFICES ASSUME Bad # {} PROVE FALSE
  OBVIOUS
<1>0. Bad \subseteq Nat
  OBVIOUS
<1>1. PICK m \in Bad : \A i \in Bad : m <= i
  BY <1>0, LeastElement, Zenon
<1>2. m # 0
  BY SumZero
<1>3. SumUpTo(f, m) = SumUpTo(f, m - 1) + f[m]
  BY <1>2, SumStep
<1>4. OK(m - 1)
  BY <1>1, <1>2
<1> QED BY <1>2, <1>3, <1>4

(***************************************************************************)
(* Sums are additive, and compare term by term.                            *)
(***************************************************************************)
LEMMA SumAdd ==
  ASSUME NEW n \in Nat, NEW f, NEW g, NEW h,
         \A i \in 1..n : f[i] \in Int /\ g[i] \in Int /\ h[i] = f[i] + g[i]
  PROVE  SumUpTo(h, n) = SumUpTo(f, n) + SumUpTo(g, n)
<1> DEFINE Bad == {k \in 0..n : SumUpTo(h, k) # SumUpTo(f, k) + SumUpTo(g, k)}
<1> SUFFICES ASSUME Bad # {} PROVE FALSE
  OBVIOUS
<1>0. Bad \subseteq Nat
  OBVIOUS
<1>1. PICK k \in Bad : \A i \in Bad : k <= i
  BY <1>0, LeastElement, Zenon
<1>2. k # 0
  BY SumZero
<1>3. SumUpTo(h, k - 1) = SumUpTo(f, k - 1) + SumUpTo(g, k - 1)
  BY <1>1, <1>2
<1>4. /\ SumUpTo(f, k) = SumUpTo(f, k - 1) + f[k]
      /\ SumUpTo(g, k) = SumUpTo(g, k - 1) + g[k]
      /\ SumUpTo(h, k) = SumUpTo(h, k - 1) + h[k]
  BY <1>2, SumStep
<1>5. SumUpTo(f, k - 1) \in Int /\ SumUpTo(g, k - 1) \in Int
  BY <1>2, SumInt
<1> QED BY <1>2, <1>3, <1>4, <1>5

\* Equal terms, equal sums.
LEMMA SumEqual ==
  ASSUME NEW n \in Nat, NEW f, NEW g, \A i \in 1..n : f[i] = g[i]
  PROVE  SumUpTo(f, n) = SumUpTo(g, n)
<1> DEFINE Bad == {k \in 0..n : SumUpTo(f, k) # SumUpTo(g, k)}
<1> SUFFICES ASSUME Bad # {} PROVE FALSE
  OBVIOUS
<1>0. Bad \subseteq Nat
  OBVIOUS
<1>1. PICK k \in Bad : \A i \in Bad : k <= i
  BY <1>0, LeastElement, Zenon
<1>2. k # 0
  BY SumZero
<1>3. SumUpTo(f, k - 1) = SumUpTo(g, k - 1)
  BY <1>1, <1>2
<1> QED BY <1>2, <1>3, SumStep

(***************************************************************************)
(* Changing one term changes the sum by the same amount.                   *)
(***************************************************************************)
LEMMA SumChange ==
  ASSUME NEW n \in Nat, NEW f, NEW g, NEW k \in 1..n,
         \A i \in 1..n : f[i] \in Int /\ g[i] \in Int,
         \A i \in 1..n : i # k => g[i] = f[i]
  PROVE  SumUpTo(g, n) = SumUpTo(f, n) + (g[k] - f[k])
<1> DEFINE Delta(m) == IF k <= m THEN g[k] - f[k] ELSE 0
           Bad == {m \in 0..n : SumUpTo(g, m) # SumUpTo(f, m) + Delta(m)}
<1> SUFFICES Bad = {}
  OBVIOUS
<1> SUFFICES ASSUME Bad # {} PROVE FALSE
  OBVIOUS
<1>0. Bad \subseteq Nat
  OBVIOUS
<1>1. PICK m \in Bad : \A i \in Bad : m <= i
  BY <1>0, LeastElement, Zenon
<1>2. m # 0
  BY SumZero
<1>3. SumUpTo(g, m - 1) = SumUpTo(f, m - 1) + Delta(m - 1)
  BY <1>1, <1>2
<1>4. /\ SumUpTo(f, m) = SumUpTo(f, m - 1) + f[m]
      /\ SumUpTo(g, m) = SumUpTo(g, m - 1) + g[m]
  BY <1>2, SumStep
<1>5. SumUpTo(f, m - 1) \in Int
  BY <1>2, SumInt
<1> QED BY <1>2, <1>3, <1>4, <1>5

\* A sum of zeros is 0.
LEMMA SumOfZeros ==
  ASSUME NEW n \in Nat, NEW f, \A i \in 1..n : f[i] = 0
  PROVE  SumUpTo(f, n) = 0
<1> DEFINE Bad == {k \in 0..n : SumUpTo(f, k) # 0}
<1> SUFFICES ASSUME Bad # {} PROVE FALSE
  OBVIOUS
<1>0. Bad \subseteq Nat
  OBVIOUS
<1>1. PICK k \in Bad : \A i \in Bad : k <= i
  BY <1>0, LeastElement, Zenon
<1>2. k # 0
  BY SumZero
<1>3. SumUpTo(f, k - 1) = 0
  BY <1>1, <1>2
<1> QED BY <1>2, <1>3, SumStep
\* One smaller term makes the sum smaller.
LEMMA SumLess ==
  ASSUME NEW n \in Nat, NEW f, NEW g, NEW k \in 1..n, f[k] < g[k],
         \A i \in 1..n : f[i] \in Int /\ g[i] \in Int /\ f[i] <= g[i]
  PROVE  SumUpTo(f, n) < SumUpTo(g, n)
<1> DEFINE h == [i \in 1..n |-> IF i = k THEN f[i] ELSE g[i]]
<1>1. \A i \in 1..n : h[i] \in Int /\ f[i] <= h[i] /\ (i # k => h[i] = g[i])
  OBVIOUS
<1>2. h[k] = f[k]
  OBVIOUS
<1> HIDE DEF h
<1>3. SumUpTo(f, n) <= SumUpTo(h, n)
  <2> DEFINE Bad == {j \in 0..n : ~ (SumUpTo(f, j) <= SumUpTo(h, j))}
  <2> SUFFICES ASSUME Bad # {} PROVE FALSE
    OBVIOUS
  <2>0. Bad \subseteq Nat
    OBVIOUS
  <2>1. PICK j \in Bad : \A i \in Bad : j <= i
    BY <2>0, LeastElement, Zenon
  <2>2. j # 0
    BY SumZero
  <2>3. SumUpTo(f, j - 1) <= SumUpTo(h, j - 1)
    BY <2>1, <2>2
  <2>4. /\ SumUpTo(f, j) = SumUpTo(f, j - 1) + f[j]
        /\ SumUpTo(h, j) = SumUpTo(h, j - 1) + h[j]
    BY <2>2, SumStep
  <2>5. SumUpTo(f, j - 1) \in Int /\ SumUpTo(h, j - 1) \in Int
    BY <1>1, <2>2, SumInt
  <2> QED BY <1>1, <2>2, <2>3, <2>4, <2>5
<1>4. SumUpTo(h, n) = SumUpTo(g, n) + (h[k] - g[k])
  BY <1>1, SumChange, Zenon
<1>5. SumUpTo(f, n) \in Int /\ SumUpTo(g, n) \in Int
  BY SumInt
<1> QED BY <1>2, <1>3, <1>4, <1>5

\* Terms in at least a ratio have sums in at least that ratio.
LEMMA SumRatio ==
  ASSUME NEW n \in Nat, NEW f, NEW g, NEW x \in Nat, NEW y \in Nat,
         \A i \in 1..n : f[i] \in Nat /\ g[i] \in Nat /\ f[i] * x <= g[i] * y
  PROVE  SumUpTo(f, n) * x <= SumUpTo(g, n) * y
<1> DEFINE Bad == {k \in 0..n : ~ (SumUpTo(f, k) * x <= SumUpTo(g, k) * y)}
<1> SUFFICES ASSUME Bad # {} PROVE FALSE
  OBVIOUS
<1>0. Bad \subseteq Nat
  OBVIOUS
<1>1. PICK k \in Bad : \A i \in Bad : k <= i
  BY <1>0, LeastElement, Zenon
<1>2. k # 0
  BY SumZero
<1>3. SumUpTo(f, k - 1) * x <= SumUpTo(g, k - 1) * y
  BY <1>1, <1>2
<1>4. /\ SumUpTo(f, k) = SumUpTo(f, k - 1) + f[k]
      /\ SumUpTo(g, k) = SumUpTo(g, k - 1) + g[k]
  BY <1>2, SumStep
<1>5. SumUpTo(f, k - 1) \in Int /\ SumUpTo(g, k - 1) \in Int
  BY <1>2, SumInt
<1>6. f[k] \in Int /\ g[k] \in Int /\ f[k] * x <= g[k] * y
  BY <1>2
<1>7. \A a, b, c, d \in Int : a * x <= b * y /\ c * x <= d * y => (a + c) * x <= (b + d) * y
  OBVIOUS
<1> QED BY <1>1, <1>3, <1>4, <1>5, <1>6, <1>7
------------------------------------------------------------------------------
(***************************************************************************)
(* The ledger.                                                             *)
(***************************************************************************)
\* Ledgers CMPTally permits.
Sound(T) == T \in Ledger /\ NonNegative(T)

\* The records after an update.
LEMMA UpdatedValue ==
  ASSUME NEW T \in Ledger, NEW a \in Addr, NEW p \in Property, NEW t \in TallyType, NEW n \in Int,
         NEW x \in Addr, NEW q \in Property, NEW v \in TallyType
  PROVE  /\ T[x][q][v] \in Int
         /\ Updated(T, a, p, t, n)[x][q][v] = T[x][q][v] + (IF x = a /\ q = p /\ v = t THEN n ELSE 0)
<1>1. T[x][q][v] \in Int64
  BY DEF Ledger
<1>2. T[x][q][v] \in Int
  BY <1>1, TallyAssumption DEF Int64, MinInt
<1> QED BY <1>2 DEF Updated, Ledger

\* A permitted update keeps the ledger sound.
LEMMA UpdatedSound ==
  ASSUME NEW T, Sound(T), NEW a \in Addr, NEW p \in Property, NEW t \in TallyType, NEW n \in Int,
         CanUpdate(T, a, p, t, n)
  PROVE  Sound(Updated(T, a, p, t, n))
<1> DEFINE U == Updated(T, a, p, t, n)
<1>1. T[a][p][t] + n \in Int64
  BY DEF CanUpdate, isOverflow
<1>2. U \in Ledger
  BY <1>1 DEF Updated, Ledger, Sound
<1>3. ASSUME NEW x \in Addr, NEW q \in Property, NEW v \in TallyType \ {"PENDING"}
      PROVE  U[x][q][v] >= 0
  <2>1. U[x][q][v] = T[x][q][v] + (IF x = a /\ q = p /\ v = t THEN n ELSE 0) /\ T[x][q][v] \in Int
    BY UpdatedValue DEF Sound
  <2>2. T[x][q][v] >= 0
    BY DEF Sound, NonNegative
  <2>3. CASE x = a /\ q = p /\ v = t
    BY <2>1, <2>3 DEF CanUpdate
  <2>4. CASE ~ (x = a /\ q = p /\ v = t)
    BY <2>1, <2>2, <2>4
  <2> QED BY <2>3, <2>4
<1> QED BY <1>2, <1>3, Zenon DEF Sound, NonNegative

\* The arithmetic of a record that a move leaves alone, and of a payer's.
LEMMA Unmoved == \A k \in Nat : k - 0 + 0 = k
OBVIOUS
LEMMA PaidFrom == \A k, m, j \in Nat : k >= m => /\ k - j + 0 >= m - j /\ k - j + 0 \in Int
                                               /\ k - j + j >= m - j /\ k - j + j \in Int
OBVIOUS

\* What a move does to each record, in one formula.
LEMMA MovedValue ==
  ASSUME NEW T \in Ledger, NEW p \in Property, NEW n \in Int,
         NEW a \in Addr, NEW t \in TallyType, NEW b \in Addr, NEW u \in TallyType,
         NEW x \in Addr, NEW q \in Property, NEW v \in TallyType
  PROVE  /\ T[x][q][v] \in Int
         /\ Moved(T, p, n, a, t, b, u)[x][q][v] =
              T[x][q][v] - (IF x = a /\ q = p /\ v = t THEN n ELSE 0)
                         + (IF x = b /\ q = p /\ v = u THEN n ELSE 0)
<1>1. T[x][q][v] \in Int64
  BY DEF Ledger
<1>2. T[x][q][v] \in Int
  BY <1>1, TallyAssumption DEF Int64, MinInt
<1> QED BY <1>2 DEF Moved, Updated, Ledger

\* M is T after the move, at one record.
MoveAt(T, M, p, n, a, t, b, u, x, q, v) ==
  /\ T[x][q][v] \in Int
  /\ M[x][q][v] = T[x][q][v] - (IF x = a /\ q = p /\ v = t THEN n ELSE 0)
                             + (IF x = b /\ q = p /\ v = u THEN n ELSE 0)

\* The same, under a name.
LEMMA MovedAt ==
  ASSUME NEW T \in Ledger, NEW p \in Property, NEW n \in Int,
         NEW a \in Addr, NEW t \in TallyType, NEW b \in Addr, NEW u \in TallyType,
         NEW x \in Addr, NEW q \in Property, NEW v \in TallyType
  PROVE  MoveAt(T, Moved(T, p, n, a, t, b, u), p, n, a, t, b, u, x, q, v)
BY MovedValue DEF MoveAt

\* M is T after the move, as far as the records are concerned that hold tokens.
MoveRule(T, M, p, n, a, t, b, u) ==
  \A x \in Addr, q \in Property, v \in HeldTypes :
     /\ T[x][q][v] \in Int
     /\ M[x][q][v] = T[x][q][v] - (IF x = a /\ q = p /\ v = t THEN n ELSE 0)
                                + (IF x = b /\ q = p /\ v = u THEN n ELSE 0)

\* What a move does to each record.
LEMMA MovedHeld ==
  ASSUME NEW T, Sound(T), NEW p \in Property, NEW n \in Int,
         NEW a \in Addr, NEW t \in HeldTypes, NEW b \in Addr, NEW u \in HeldTypes
  PROVE  MoveRule(T, Moved(T, p, n, a, t, b, u), p, n, a, t, b, u)
<1> DEFINE M == Moved(T, p, n, a, t, b, u)
<1> SUFFICES ASSUME NEW x \in Addr, NEW q \in Property, NEW v \in HeldTypes
             PROVE  MoveAt(T, M, p, n, a, t, b, u, x, q, v)
  BY DEF MoveRule, MoveAt
<1>1. T \in Ledger /\ v \in TallyType /\ t \in TallyType /\ u \in TallyType
  BY TallyAssumption DEF Sound
<1> QED BY <1>1, MovedAt, Zenon

\* A holding is an integer.
LEMMA HeldInt ==
  ASSUME NEW T \in Ledger, NEW x \in Addr, NEW q \in Property
  PROVE  Holding(T, x, q) \in Int
<1>1. \A v \in HeldTypes : T[x][q][v] \in Int64
  BY TallyAssumption DEF Ledger
<1> QED BY <1>1, TallyAssumption DEF Holding, HeldTypes, Int64, MinInt

\* Where a move leaves what an address owns.
LEMMA MovedHolding ==
  ASSUME NEW T \in Ledger, NEW p \in Property, NEW n \in Int,
         NEW a \in Addr, NEW t \in HeldTypes, NEW b \in Addr, NEW u \in HeldTypes,
         NEW x \in Addr, NEW q \in Property
  PROVE  Holding(Moved(T, p, n, a, t, b, u), x, q) =
           Holding(T, x, q) - (IF x = a /\ q = p THEN n ELSE 0) + (IF x = b /\ q = p THEN n ELSE 0)
<1> DEFINE M == Moved(T, p, n, a, t, b, u)
<1>1. t \in TallyType /\ u \in TallyType
  BY TallyAssumption
<1>2. \A v \in HeldTypes :
        /\ T[x][q][v] \in Int
        /\ M[x][q][v] = T[x][q][v] - (IF x = a /\ q = p /\ v = t THEN n ELSE 0)
                                   + (IF x = b /\ q = p /\ v = u THEN n ELSE 0)
  <2> TAKE v \in HeldTypes
  <2>1. v \in TallyType
    BY TallyAssumption
  <2>2. MoveAt(T, M, p, n, a, t, b, u, x, q, v)
    BY <1>1, <2>1, MovedAt, Zenon
  <2> HIDE DEF M
  <2> QED BY <2>2, Zenon DEF MoveAt
<1> HIDE DEF M
<1> DEFINE In(v)  == IF x = b /\ q = p /\ v = u THEN n ELSE 0
           Out(v) == IF x = a /\ q = p /\ v = t THEN n ELSE 0
<1>3. \A v \in HeldTypes : In(v) \in Int /\ Out(v) \in Int
  OBVIOUS
<1>4. /\ In("BALANCE") + In("SELLOFFER_RESERVE") + In("ACCEPT_RESERVE") + In("METADEX_RESERVE")
           = (IF x = b /\ q = p THEN n ELSE 0)
      /\ Out("BALANCE") + Out("SELLOFFER_RESERVE") + Out("ACCEPT_RESERVE") + Out("METADEX_RESERVE")
           = (IF x = a /\ q = p THEN n ELSE 0)
  BY DEF HeldTypes
<1>5. \A v \in HeldTypes : T[x][q][v] \in Int /\ M[x][q][v] = T[x][q][v] - Out(v) + In(v)
  BY <1>2
<1> HIDE DEF In, Out
<1>6. /\ "BALANCE" \in HeldTypes /\ "SELLOFFER_RESERVE" \in HeldTypes
      /\ "ACCEPT_RESERVE" \in HeldTypes /\ "METADEX_RESERVE" \in HeldTypes
  BY DEF HeldTypes
<1>7. Holding(M, x, q) = Holding(T, x, q)
        - (Out("BALANCE") + Out("SELLOFFER_RESERVE") + Out("ACCEPT_RESERVE") + Out("METADEX_RESERVE"))
        + (In("BALANCE") + In("SELLOFFER_RESERVE") + In("ACCEPT_RESERVE") + In("METADEX_RESERVE"))
  BY <1>3, <1>5, <1>6 DEF Holding
<1> QED BY <1>4, <1>7 DEF M

\* A move keeps the total of every property.
LEMMA MovedTotal ==
  ASSUME NEW T \in Ledger, NEW p \in Property, NEW n \in Int,
         NEW a \in Addr, NEW t \in HeldTypes, NEW b \in Addr, NEW u \in HeldTypes, NEW q \in Property
  PROVE  getTotalTokens(Moved(T, p, n, a, t, b, u), q) = getTotalTokens(T, q)
<1> DEFINE M == Moved(T, p, n, a, t, b, u)
           f == [x \in Addr |-> Holding(T, x, q)]
           g == [x \in Addr |-> Holding(M, x, q)]
           h == [x \in Addr |-> Holding(T, x, q) - (IF x = a /\ q = p THEN n ELSE 0)]
<1>1. \A x \in Addr : f[x] \in Int
  BY HeldInt
<1>2. \A x \in Addr : h[x] = f[x] - (IF x = a /\ q = p THEN n ELSE 0)
  OBVIOUS
<1>3. \A x \in Addr : g[x] = h[x] + (IF x = b /\ q = p THEN n ELSE 0)
  BY MovedHolding
<1>4. getTotalTokens(T, q) = SumUpTo(f, NumAddr) /\ getTotalTokens(M, q) = SumUpTo(g, NumAddr)
  BY DEF getTotalTokens
<1> HIDE DEF M, f, g, h
<1>5. \A x \in 1..NumAddr : h[x] \in Int /\ g[x] \in Int
  BY <1>1, <1>2, <1>3 DEF Addr
<1>6. SumUpTo(h, NumAddr) = SumUpTo(f, NumAddr) + (h[a] - f[a])
  <2>1. \A x \in 1..NumAddr : f[x] \in Int /\ h[x] \in Int
    BY <1>1, <1>5 DEF Addr
  <2>2. \A x \in 1..NumAddr : x # a => h[x] = f[x]
    BY <1>2, <2>1 DEF Addr
  <2> QED BY <2>1, <2>2, SumChange, TallyAssumption DEF Addr
<1>7. SumUpTo(g, NumAddr) = SumUpTo(h, NumAddr) + (g[b] - h[b])
  BY <1>3, <1>5, SumChange, TallyAssumption DEF Addr
<1>8. SumUpTo(f, NumAddr) \in Int
  BY <1>1, SumInt, TallyAssumption DEF Addr
<1>9. f[a] \in Int /\ h[b] \in Int
  BY <1>1, <1>5 DEF Addr
<1>10. h[a] - f[a] = - (IF q = p THEN n ELSE 0) /\ g[b] - h[b] = (IF q = p THEN n ELSE 0)
  BY <1>2, <1>3, <1>9
<1>11. getTotalTokens(M, q) = getTotalTokens(T, q)
  BY <1>4, <1>6, <1>7, <1>8, <1>10
<1> QED BY <1>11 DEF M

\* No record exceeds the total of its property.
LEMMA RecordWithinTotal ==
  ASSUME NEW T, NEW q \in Property,
         \A x \in Addr, v \in HeldTypes : T[x][q][v] \in Nat
  PROVE  /\ getTotalTokens(T, q) \in Nat
         /\ \A x \in Addr, v \in HeldTypes : T[x][q][v] <= getTotalTokens(T, q)
<1> DEFINE f == [x \in Addr |-> Holding(T, x, q)]
<1>1. \A x \in Addr : /\ f[x] \in Nat
                      /\ \A v \in HeldTypes : T[x][q][v] <= f[x]
  BY DEF Holding, HeldTypes
<1>2. getTotalTokens(T, q) = SumUpTo(f, NumAddr)
  BY DEF getTotalTokens
<1> HIDE DEF f
<1>3. SumUpTo(f, NumAddr) \in Nat /\ \A x \in 1..NumAddr : f[x] <= SumUpTo(f, NumAddr)
  BY <1>1, SumNat, TallyAssumption DEF Addr
<1> QED BY <1>1, <1>2, <1>3 DEF Addr

(***************************************************************************)
(* A move of tokens that the giver's record covers passes both asserts,    *)
(* as long as all tokens of the property fit into an int64_t.              *)
(***************************************************************************)
LEMMA CoveredMove ==
  ASSUME NEW T, Sound(T), NEW p \in Property, NEW n \in Nat \ {0},
         NEW a \in Addr, NEW t \in HeldTypes, NEW b \in Addr, NEW u \in HeldTypes,
         n <= T[a][p][t], getTotalTokens(T, p) <= MaxInt
  PROVE  CanMove(T, p, n, a, t, b, u)
<1> DEFINE M == Moved(T, p, n, a, t, b, u)
           D == Updated(T, a, p, t, -n)
<1>1. T \in Ledger /\ t \in TallyType /\ u \in TallyType /\ "PENDING" \notin HeldTypes
  BY TallyAssumption DEF Sound, HeldTypes
<1>2. \A x \in Addr, v \in HeldTypes : T[x][p][v] \in Nat /\ T[x][p][v] <= MaxInt
  BY <1>1, TallyAssumption DEF Sound, NonNegative, Ledger, Int64, MinInt
<1>3. \A x \in Addr, v \in HeldTypes :
         /\ M[x][p][v] = T[x][p][v] - (IF x = a /\ p = p /\ v = t THEN n ELSE 0)
                                    + (IF x = b /\ p = p /\ v = u THEN n ELSE 0)
         /\ D[x][p][v] = T[x][p][v] + (IF x = a /\ p = p /\ v = t THEN -n ELSE 0)
  <2> TAKE x \in Addr, v \in HeldTypes
  <2>1. v \in TallyType /\ n \in Int /\ -n \in Int
    BY TallyAssumption
  <2>2. MoveAt(T, M, p, n, a, t, b, u, x, p, v)
    BY <1>1, <2>1, MovedAt, Zenon
  <2>3. D[x][p][v] = T[x][p][v] + (IF x = a /\ p = p /\ v = t THEN -n ELSE 0)
    BY <1>1, <2>1, UpdatedValue
  <2> HIDE DEF M, D
  <2> QED BY <2>2, <2>3, Zenon DEF MoveAt
<1>4. getTotalTokens(M, p) = getTotalTokens(T, p)
  BY <1>1, MovedTotal
<1> HIDE DEF M, D
<1>5. \A x \in Addr, v \in HeldTypes : M[x][p][v] \in Nat /\ D[x][p][v] \in Nat
  BY <1>2, <1>3
<1>6. M[b][p][u] <= MaxInt /\ M[b][p][u] \in Nat
  BY <1>4, <1>5, RecordWithinTotal, TallyAssumption
<1>7. M[b][p][u] = D[b][p][u] + n
  BY <1>2, <1>3
<1>8. CanUpdate(T, a, p, t, -n)
  BY <1>2, TallyAssumption DEF CanUpdate, isOverflow, Int64, MinInt
<1>9. CanUpdate(D, b, p, u, n)
  BY <1>5, <1>6, <1>7, TallyAssumption DEF CanUpdate, isOverflow, Int64, MinInt
<1> QED BY <1>8, <1>9 DEF CanMove, D

\* A move whose asserts hold leaves a ledger CMPTally permits.
LEMMA MovedSound ==
  ASSUME NEW T, Sound(T), NEW p \in Property, NEW n \in Int,
         NEW a \in Addr, NEW t \in TallyType, NEW b \in Addr, NEW u \in TallyType,
         CanMove(T, p, n, a, t, b, u)
  PROVE  Sound(Moved(T, p, n, a, t, b, u))
<1>1. Sound(Updated(T, a, p, t, -n))
  BY UpdatedSound DEF CanMove
<1> QED BY <1>1, UpdatedSound DEF CanMove, Moved

\* The tally types of the exchange are distinct members of TallyType.
LEMMA HeldTallyTypes ==
  /\ HeldTypes \subseteq TallyType
  /\ "BALANCE" \in HeldTypes /\ "SELLOFFER_RESERVE" \in HeldTypes
  /\ "ACCEPT_RESERVE" \in HeldTypes /\ "METADEX_RESERVE" \in HeldTypes
  /\ "PENDING" \notin HeldTypes
BY TallyAssumption DEF HeldTypes

\* In a sound ledger each record of a held type is a natural number.
LEMMA RecordNat ==
  ASSUME NEW T, Sound(T), NEW x \in Addr, NEW q \in Property, NEW v \in HeldTypes
  PROVE  T[x][q][v] \in Amount /\ T[x][q][v] \in Nat
<1>1. T[x][q][v] \in Int64 /\ T[x][q][v] >= 0
  BY HeldTallyTypes DEF Sound, Ledger, NonNegative
<1> QED BY <1>1, TallyAssumption DEF Int64, MinInt, Amount

\* What a credit to the balance adds to what an address owns, and to the total.
LEMMA CreditedHolding ==
  ASSUME NEW T, Sound(T), NEW a \in Addr, NEW p \in Property, NEW n \in Int,
         NEW x \in Addr, NEW q \in Property
  PROVE  /\ Holding(T, x, q) \in Int
         /\ Holding(Updated(T, a, p, "BALANCE", n), x, q) =
              Holding(T, x, q) + (IF x = a /\ q = p THEN n ELSE 0)
<1> DEFINE U == Updated(T, a, p, "BALANCE", n)
<1> SUFFICES /\ Holding(T, x, q) \in Int
             /\ Holding(U, x, q) = Holding(T, x, q) + (IF x = a /\ q = p THEN n ELSE 0)
  OBVIOUS
<1>1. \A v \in HeldTypes : T[x][q][v] \in Int
  BY RecordNat
<1>2. /\ T[x][q]["BALANCE"] \in Int /\ T[x][q]["SELLOFFER_RESERVE"] \in Int
      /\ T[x][q]["ACCEPT_RESERVE"] \in Int /\ T[x][q]["METADEX_RESERVE"] \in Int
  BY <1>1, HeldTallyTypes
<1>3. \A v \in HeldTypes : U[x][q][v] = T[x][q][v] + (IF x = a /\ q = p /\ v = "BALANCE" THEN n ELSE 0)
  BY SMTT(60), UpdatedValue, HeldTallyTypes DEF Sound
<1> HIDE DEF U
<1>4. CASE x = a /\ q = p
  <2>1. /\ U[x][q]["BALANCE"] = T[x][q]["BALANCE"] + n
        /\ U[x][q]["SELLOFFER_RESERVE"] = T[x][q]["SELLOFFER_RESERVE"]
        /\ U[x][q]["ACCEPT_RESERVE"] = T[x][q]["ACCEPT_RESERVE"]
        /\ U[x][q]["METADEX_RESERVE"] = T[x][q]["METADEX_RESERVE"]
    BY SMTT(60), <1>2, <1>3, <1>4, HeldTallyTypes
  <2> QED BY SMTT(60), <1>2, <1>4, <2>1 DEF Holding
<1>5. CASE ~ (x = a /\ q = p)
  <2>1. /\ U[x][q]["BALANCE"] = T[x][q]["BALANCE"]
        /\ U[x][q]["SELLOFFER_RESERVE"] = T[x][q]["SELLOFFER_RESERVE"]
        /\ U[x][q]["ACCEPT_RESERVE"] = T[x][q]["ACCEPT_RESERVE"]
        /\ U[x][q]["METADEX_RESERVE"] = T[x][q]["METADEX_RESERVE"]
    BY SMTT(60), <1>2, <1>3, <1>5, HeldTallyTypes
  <2> QED BY SMTT(60), <1>2, <1>5, <2>1 DEF Holding
<1>6. Holding(T, x, q) \in Int
  BY SMTT(60), <1>2 DEF Holding
<1> QED BY <1>4, <1>5, <1>6

\* A credit raises the total by its amount.
LEMMA CreditedTotal ==
  ASSUME NEW T, Sound(T), NEW a \in Addr, NEW p \in Property, NEW n \in Int, NEW q \in Property
  PROVE  getTotalTokens(Updated(T, a, p, "BALANCE", n), q) = getTotalTokens(T, q) + (IF q = p THEN n ELSE 0)
<1> DEFINE U == Updated(T, a, p, "BALANCE", n)
           f == [x \in Addr |-> Holding(T, x, q)]
           g == [x \in Addr |-> Holding(U, x, q)]
<1>1. \A x \in Addr : /\ Holding(T, x, q) \in Int
                      /\ Holding(U, x, q) = Holding(T, x, q) + (IF x = a /\ q = p THEN n ELSE 0)
  BY CreditedHolding
<1>2. getTotalTokens(T, q) = SumUpTo(f, NumAddr) /\ getTotalTokens(U, q) = SumUpTo(g, NumAddr)
  BY DEF getTotalTokens
<1>3. \A x \in Addr : /\ f[x] \in Int /\ g[x] \in Int
                      /\ g[x] = f[x] + (IF x = a /\ q = p THEN n ELSE 0)
  BY <1>1
<1> HIDE DEF f, g, U
<1>4. \A x \in 1..NumAddr : f[x] \in Int /\ g[x] \in Int
  BY <1>3 DEF Addr
<1>5. \A x \in 1..NumAddr : x # a => g[x] = f[x]
  BY <1>3 DEF Addr
<1>6. g[a] - f[a] = IF q = p THEN n ELSE 0
  BY <1>3
<1>7. SumUpTo(g, NumAddr) = SumUpTo(f, NumAddr) + (g[a] - f[a])
  BY <1>4, <1>5, SumChange, TallyAssumption DEF Addr
<1> QED BY <1>2, <1>6, <1>7 DEF U
------------------------------------------------------------------------------
(***************************************************************************)
(* Distributions to owners.                                                *)
(***************************************************************************)
LEMMA AddrFacts == NumAddr \in Nat /\ NumAddr # 0 /\ Addr = 1..NumAddr
BY TallyAssumption DEF Addr

\* A division rounded up.
LEMMA CeilDivFacts ==
  ASSUME NEW m \in Nat, NEW n \in Nat \ {0}
  PROVE  CeilDiv(m, n) \in Nat /\ m <= CeilDiv(m, n) * n /\ (m > 0 => CeilDiv(m, n) > 0)
<1>1. CASE m = 0
  BY <1>1 DEF CeilDiv
<1>2. CASE m > 0
  <2> DEFINE d == (m - 1) \div n
  <2>1. d \in Int /\ d >= 0 /\ m - 1 < (d + 1) * n
    BY <1>2
  <2>2. CeilDiv(m, n) = 1 + d
    BY <1>2 DEF CeilDiv
  <2> HIDE DEF d
  <2>3. (1 + d) * n = (d + 1) * n /\ (d + 1) * n \in Int
    BY <2>1
  <2> QED
    BY <2>1, <2>2, <2>3, <1>2
<1> QED
  BY <1>1, <1>2

\* What an address owns is a natural number.
LEMMA HoldingNat ==
  ASSUME NEW T, Sound(T), NEW x \in Addr, NEW q \in Property
  PROVE  Holding(T, x, q) \in Nat
<1>1. /\ T[x][q]["BALANCE"] \in Nat /\ T[x][q]["SELLOFFER_RESERVE"] \in Nat
      /\ T[x][q]["ACCEPT_RESERVE"] \in Nat /\ T[x][q]["METADEX_RESERVE"] \in Nat
  BY RecordNat, HeldTallyTypes
<1> QED BY <1>1 DEF Holding

(***************************************************************************)
(* A distribution hands out exactly the amount when anyone is eligible:    *)
(* rounding every share up, largest owners first, neither exceeds it nor   *)
(* leaves anything (STO_GetReceivers in sto.cpp).  In the proof, Rank      *)
(* numbers the addresses in the order they are served, and First is what   *)
(* the first m of them get: their pieces, up to the whole amount.          *)
(***************************************************************************)
THEOREM DistributionExact ==
  ASSUME NEW T, Sound(T), NEW sender, NEW p \in Property, NEW n \in Nat
  PROVE  LET share == STO_GetReceivers(T, sender, p, n)
         IN  /\ \A a \in Addr : share[a] \in 0..n
             /\ IF \E a \in Addr \ {sender} : Holding(T, a, p) > 0
                  THEN SumUpTo(share, NumAddr) = n
                  ELSE \A a \in Addr : share[a] = 0
<1> DEFINE f == [a \in Addr |-> IF a = sender THEN 0 ELSE Holding(T, a, p)]
           Piece == [a \in Addr |-> IF f[a] = 0 THEN 0 ELSE CeilDiv(f[a] * n, SumUpTo(f, NumAddr))]
           Earlier(b, a) == f[b] > f[a] \/ (f[b] = f[a] /\ b < a)
           SentBefore == [a \in Addr |->
             SumUpTo([b \in Addr |-> IF Earlier(b, a) THEN Piece[b] ELSE 0], NumAddr)]
           Share == STO_GetReceivers(T, sender, p, n)
           Rank(a) == SumUpTo([b \in Addr |-> IF Earlier(b, a) THEN 1 ELSE 0], NumAddr)
           FirstRanks(g, m) == [a \in Addr |-> IF Rank(a) < m THEN g[a] ELSE 0]
           First(g, m) == SumUpTo(FirstRanks(g, m), NumAddr)
<1>1. Share = [a \in Addr |-> SmallerOf(Piece[a], n - SmallerOf(n, SentBefore[a]))]
  BY Zenon DEF STO_GetReceivers
<1>2. f \in [Addr -> Nat]
  BY HoldingNat
<1>2a. \A a \in Addr : f[a] = IF a = sender THEN 0 ELSE Holding(T, a, p)
  OBVIOUS
<1> HIDE DEF f, Piece, Earlier, SentBefore, Share, Rank, FirstRanks, First
<1>3. ASSUME SumUpTo(f, NumAddr) > 0
      PROVE  (\A a \in Addr : Share[a] \in Nat) /\ SumUpTo(Share, NumAddr) = n
  <2> USE <1>2, <1>3
  <2>1. /\ \A a \in Addr : Piece[a] \in Nat
        /\ SumUpTo(Piece, NumAddr) >= n
    <3> DEFINE W == SumUpTo(f, NumAddr)
    <3>1. W \in Nat /\ W > 0
      BY AddrFacts, SumNat
    <3> HIDE DEF W
    <3>2. ASSUME NEW a \in Addr
          PROVE  Piece[a] \in Nat /\ f[a] * n <= Piece[a] * W
      <4>1. CASE f[a] = 0
        <5>1. Piece[a] = 0
          BY <4>1 DEF Piece
        <5> QED BY <4>1, <5>1, <3>1
      <4>2. CASE f[a] # 0
        <5>1. Piece[a] = CeilDiv(f[a] * n, W)
          BY <4>2 DEF Piece, W
        <5>2. f[a] * n \in Nat
          BY <4>2
        <5> QED BY <5>1, <5>2, <3>1, CeilDivFacts
      <4> QED BY <4>1, <4>2
    <3>3. SumUpTo(f, NumAddr) * n <= SumUpTo(Piece, NumAddr) * W
      BY <3>1, <3>2, AddrFacts, SumRatio, Zenon
    <3>4. SumUpTo(Piece, NumAddr) \in Nat
      BY <3>2, AddrFacts, SumNat
    <3>5. W * n <= SumUpTo(Piece, NumAddr) * W
      BY <3>3 DEF W
    <3>6. \A s \in Nat : W * n <= s * W => n <= s
      BY <3>1
    <3> QED BY <3>2, <3>4, <3>5, <3>6
  <2>2. /\ \A a \in Addr : Rank(a) \in Nat
        /\ \A a, b \in Addr : Earlier(b, a) <=> Rank(b) < Rank(a)
    <3>1. ASSUME NEW a \in Addr
          PROVE  Rank(a) \in Nat
      BY AddrFacts, SumNat, Zenon DEF Rank
    <3>2. ASSUME NEW a \in Addr, NEW b \in Addr, Earlier(b, a)
          PROVE  Rank(b) < Rank(a)
      <4> DEFINE g(x) == [c \in Addr |-> IF Earlier(c, x) THEN 1 ELSE 0]
      <4>1. \A x \in Addr : \A i \in Addr : g(x)[i] \in Int /\ g(x)[i] = IF Earlier(i, x) THEN 1 ELSE 0
        OBVIOUS
      <4>2. \A i \in Addr : Earlier(i, b) => Earlier(i, a)
        BY <3>2, AddrFacts DEF Earlier
      <4>3. ~ Earlier(b, b)
        BY AddrFacts DEF Earlier
      <4>5. Rank(a) = SumUpTo(g(a), NumAddr) /\ Rank(b) = SumUpTo(g(b), NumAddr)
        BY DEF Rank
      <4> HIDE DEF g
      <4>6. \A i \in Addr : g(b)[i] <= g(a)[i]
        BY <4>1, <4>2
      <4>7. g(b)[b] < g(a)[b]
        BY <4>1, <4>3, <3>2
      <4>8. SumUpTo(g(b), NumAddr) < SumUpTo(g(a), NumAddr)
        BY <4>1, <4>6, <4>7, AddrFacts, SumLess, Zenon
      <4> QED BY <4>5, <4>8
    <3>3. ASSUME NEW a \in Addr, NEW b \in Addr, ~ Earlier(b, a)
          PROVE  ~ (Rank(b) < Rank(a))
      <4>1. CASE a = b
        BY <4>1, <3>1
      <4>2. CASE a # b
        <5>1. Earlier(a, b)
          BY <3>3, <4>2, AddrFacts DEF Earlier
        <5> QED BY <5>1, <3>1, <3>2
      <4> QED BY <4>1, <4>2
    <3> QED BY <3>1, <3>2, <3>3
  <2>3. ASSUME NEW g, NEW m \in Nat, \A a \in Addr : g[a] \in Nat
        PROVE  /\ First(g, 0) = 0 /\ First(g, m) \in Nat
               /\ (\A a \in Addr : Rank(a) # m) => First(g, m + 1) = First(g, m)
               /\ \A a \in Addr : Rank(a) = m => First(g, m + 1) = First(g, m) + g[a]
    <3>1. \A a \in Addr : Rank(a) \in Nat
      BY <2>2
    <3>2. ASSUME NEW a \in Addr, NEW b \in Addr, Rank(a) = m, Rank(b) = m
          PROVE  a = b
      <4>1. ~ Earlier(a, b) /\ ~ Earlier(b, a)
        BY <3>1, <3>2, <2>2
      <4> QED BY <4>1, AddrFacts DEF Earlier
    <3>3. \A k \in Nat : \A a \in Addr : FirstRanks(g, k)[a] = IF Rank(a) < k THEN g[a] ELSE 0
      BY DEF FirstRanks
    <3>4. \A k \in Nat : \A a \in Addr : FirstRanks(g, k)[a] \in Nat
      BY <2>3, <3>3
    <3>5. First(g, m) \in Nat
      BY <3>4, AddrFacts, SumNat DEF First
    <3>6. First(g, 0) = 0
      <4>1. \A a \in Addr : FirstRanks(g, 0)[a] = 0
        BY <3>1, <3>3
      <4> QED BY <4>1, AddrFacts, SumOfZeros DEF First
    <3>7. ASSUME \A a \in Addr : Rank(a) # m
          PROVE  First(g, m + 1) = First(g, m)
      <4>1. \A a \in Addr : FirstRanks(g, m)[a] = FirstRanks(g, m + 1)[a]
        BY <3>1, <3>3, <3>7
      <4> QED BY <4>1, AddrFacts, SumEqual DEF First
    <3>8. ASSUME NEW a \in Addr, Rank(a) = m
          PROVE  First(g, m + 1) = First(g, m) + g[a]
      <4>1. FirstRanks(g, m)[a] = 0 /\ FirstRanks(g, m + 1)[a] = g[a]
        BY <3>3, <3>8
      <4>2. \A b \in Addr : b # a => FirstRanks(g, m + 1)[b] = FirstRanks(g, m)[b]
        <5> SUFFICES ASSUME NEW b \in Addr, b # a
                     PROVE  FirstRanks(g, m + 1)[b] = FirstRanks(g, m)[b]
          OBVIOUS
        <5>1. Rank(b) # m
          BY <3>2, <3>8
        <5> QED BY <5>1, <3>1, <3>3
      <4>3. \A b \in Addr : FirstRanks(g, m)[b] \in Int /\ FirstRanks(g, m + 1)[b] \in Int
        BY <3>4
      <4>4. SumUpTo(FirstRanks(g, m + 1), NumAddr)
              = SumUpTo(FirstRanks(g, m), NumAddr) + (FirstRanks(g, m + 1)[a] - FirstRanks(g, m)[a])
        <5> DEFINE F == FirstRanks(g, m)
                   G == FirstRanks(g, m + 1)
        <5>1. /\ \A b \in Addr : b # a => G[b] = F[b]
              /\ \A b \in Addr : F[b] \in Int /\ G[b] \in Int
          BY <4>2, <4>3, Zenon
        <5> HIDE DEF F, G
        <5>2. SumUpTo(G, NumAddr) = SumUpTo(F, NumAddr) + (G[a] - F[a])
          <6>1. /\ \A b \in 1..NumAddr : b # a => G[b] = F[b]
                /\ \A b \in 1..NumAddr : F[b] \in Int /\ G[b] \in Int
                /\ a \in 1..NumAddr /\ NumAddr \in Nat
            BY <5>1, AddrFacts, Zenon
          <6> QED BY <6>1, SumChange
        <5> QED BY <5>2, Zenon DEF F, G
      <4> QED BY <2>3, <4>1, <4>4, <3>5 DEF First
    <3> QED BY <3>5, <3>6, <3>7, <3>8
  <2>4. /\ \A a \in Addr : Share[a] \in Nat
        /\ \A m \in Nat : First(Share, m) = SmallerOf(n, First(Piece, m))
    <3>1. \A a \in Addr : Piece[a] \in Nat
      BY <2>1
    <3>2. \A a \in Addr : Rank(a) \in Nat
      BY <2>2
    <3>3. ASSUME NEW a \in Addr
          PROVE  SentBefore[a] = First(Piece, Rank(a))
      <4> DEFINE h == [b \in Addr |-> IF Earlier(b, a) THEN Piece[b] ELSE 0]
      <4>1. SentBefore[a] = SumUpTo(h, NumAddr)
        BY DEF SentBefore
      <4>2. \A b \in Addr : h[b] = FirstRanks(Piece, Rank(a))[b]
        BY <2>2 DEF FirstRanks
      <4> HIDE DEF h
      <4> QED BY <4>1, <4>2, AddrFacts, SumEqual DEF First
    <3>4. \A a \in Addr : Share[a] = SmallerOf(Piece[a], n - SmallerOf(n, SentBefore[a]))
      BY <1>1
    <3>5. \A m \in Nat : First(Piece, m) \in Nat
      BY <3>1, <2>3
    <3>6. \A a \in Addr : Share[a] \in Nat
      BY <3>1, <3>2, <3>3, <3>4, <3>5 DEF SmallerOf
    <3> DEFINE OK(m) == First(Share, m) = SmallerOf(n, First(Piece, m))
               Bad == {m \in Nat : ~ OK(m)}
    <3>7. ASSUME Bad # {} PROVE FALSE
      <4>0. Bad \subseteq Nat
        OBVIOUS
      <4>1. PICK m \in Bad : \A i \in Bad : m <= i
        BY <4>0, <3>7, LeastElement, Zenon
      <4>2. m # 0
        <5>1. First(Share, 0) = 0 /\ First(Piece, 0) = 0
          BY <3>1, <3>6, <2>3
        <5>2. OK(0)
          BY <5>1 DEF SmallerOf
        <5> QED BY <4>1, <5>2
      <4>3. m - 1 \in Nat /\ (m - 1) + 1 = m /\ OK(m - 1)
        BY <4>1, <4>2
      <4>4. OK(m)
        <5>1. CASE \A a \in Addr : Rank(a) # m - 1
          <6>1. First(Share, m) = First(Share, m - 1) /\ First(Piece, m) = First(Piece, m - 1)
            BY <5>1, <4>3, <3>1, <3>6, <2>3
          <6> QED BY <6>1, <4>3
        <5>2. ASSUME NEW a \in Addr, Rank(a) = m - 1
              PROVE  OK(m)
          <6>1. First(Share, m) = First(Share, m - 1) + Share[a] /\ First(Piece, m) = First(Piece, m - 1) + Piece[a]
            BY <5>2, <4>3, <3>1, <3>6, <2>3
          <6>2. Share[a] = SmallerOf(Piece[a], n - SmallerOf(n, First(Piece, m - 1)))
            BY <5>2, <3>3, <3>4
          <6>3. \A x, y \in Nat : SmallerOf(n, x) + SmallerOf(y, n - SmallerOf(n, x)) = SmallerOf(n, x + y)
            BY DEF SmallerOf
          <6>4. Piece[a] \in Nat /\ First(Piece, m - 1) \in Nat
            BY <4>3, <3>1, <3>5
          <6>5. First(Share, m - 1) = SmallerOf(n, First(Piece, m - 1))
            BY <4>3
          <6> QED BY <6>1, <6>2, <6>3, <6>4, <6>5, Zenon
        <5> QED BY <5>1, <5>2
      <4> QED BY <4>1, <4>4
    <3>8. \A m \in Nat : OK(m)
      BY <3>7
    <3> QED BY <3>6, <3>8
  <2> DEFINE R == [a \in Addr |-> Rank(a)]
             m == SumUpTo(R, NumAddr) + 1
  <2>5. \A a \in Addr : R[a] = Rank(a) /\ R[a] \in Nat
    BY <2>2
  <2> HIDE DEF R
  <2>6. m \in Nat /\ \A a \in Addr : Rank(a) < m
    <3>1. SumUpTo(R, NumAddr) \in Nat /\ \A a \in Addr : R[a] <= SumUpTo(R, NumAddr)
      BY <2>5, AddrFacts, SumNat, Zenon
    <3> QED BY <3>1, <2>5
  <2> HIDE DEF m
  <2>7. \A g : First(g, m) = SumUpTo(g, NumAddr)
    <3> SUFFICES ASSUME NEW g PROVE First(g, m) = SumUpTo(g, NumAddr)
      OBVIOUS
    <3>1. \A a \in Addr : FirstRanks(g, m)[a] = g[a]
      BY <2>6 DEF FirstRanks
    <3> QED BY <3>1, AddrFacts, SumEqual DEF First
  <2>8. First(Share, m) = SmallerOf(n, First(Piece, m))
    BY <2>6, <2>4
  <2>9. SumUpTo(Piece, NumAddr) >= n /\ SumUpTo(Piece, NumAddr) \in Nat
    <3>1. (\A a \in Addr : Piece[a] \in Nat) /\ SumUpTo(Piece, NumAddr) >= n
      BY <2>1
    <3> QED BY <3>1, SumNat, AddrFacts
  <2>10. SumUpTo(Share, NumAddr) = SmallerOf(n, SumUpTo(Piece, NumAddr))
    BY <2>7, <2>8
  <2>11. SumUpTo(Share, NumAddr) = n
    BY <2>9, <2>10 DEF SmallerOf
  <2> QED BY <2>11, <2>4
<1>4. CASE \E a \in Addr \ {sender} : Holding(T, a, p) > 0
  <2>1. PICK a \in Addr \ {sender} : Holding(T, a, p) > 0
    BY <1>4
  <2>2. f[a] > 0
    BY <1>2a, <2>1
  <2>3. SumUpTo(f, NumAddr) \in Nat /\ f[a] <= SumUpTo(f, NumAddr)
    BY <1>2, AddrFacts, SumNat
  <2>4. SumUpTo(f, NumAddr) > 0
    BY <1>2, <2>2, <2>3
  <2>5. (\A x \in Addr : Share[x] \in Nat) /\ SumUpTo(Share, NumAddr) = n
    BY <1>3, <2>4
  <2>6. \A x \in Addr : Share[x] <= SumUpTo(Share, NumAddr)
    BY <2>5, AddrFacts, SumNat
  <2> QED BY <1>4, <2>5, <2>6 DEF Share
<1>5. CASE ~ \E a \in Addr \ {sender} : Holding(T, a, p) > 0
  <2>1. \A a \in Addr : f[a] = 0
    BY <1>2a, <1>5, HoldingNat
  <2>2. \A a \in Addr : Piece[a] = 0
    BY <2>1 DEF Piece
  <2>3. ASSUME NEW a \in Addr PROVE SentBefore[a] = 0
    <3> DEFINE h == [b \in Addr |-> IF Earlier(b, a) THEN Piece[b] ELSE 0]
    <3>1. \A b \in Addr : h[b] = 0
      BY <2>2
    <3>2. SentBefore[a] = SumUpTo(h, NumAddr)
      BY DEF SentBefore
    <3> HIDE DEF h
    <3> QED BY <3>1, <3>2, AddrFacts, SumOfZeros
  <2>4. \A a \in Addr : Share[a] = SmallerOf(0, n - SmallerOf(n, 0))
    BY <1>1, <2>2, <2>3
  <2>5. SmallerOf(0, n - SmallerOf(n, 0)) = 0
    BY DEF SmallerOf
  <2> QED BY <1>5, <2>4, <2>5 DEF Share
<1> QED BY <1>4, <1>5

\* C is T with the shares, n tokens of property p in all, credited.
CreditRule(T, p, n, share, C) ==
  /\ CanCredit(T, p, share) /\ Sound(C)
  /\ \A q \in Property : getTotalTokens(C, q) = getTotalTokens(T, q) + (IF q = p THEN n ELSE 0)
  /\ \A x \in Addr, q \in Property, v \in TallyType :
       C[x][q][v] = T[x][q][v] + (IF q = p /\ v = "BALANCE" THEN share[x] ELSE 0)

\* Shares that fit are credited as they are.
LEMMA CreditedShares ==
  ASSUME NEW T, Sound(T), NEW p \in Property, NEW share, \A a \in Addr : share[a] \in Nat,
         \A a \in Addr : T[a][p]["BALANCE"] + share[a] <= MaxInt
  PROVE  CreditRule(T, p, SumUpTo(share, NumAddr), share, SharesCredited(T, p, share))
<1>1. ASSUME NEW x \in Addr, NEW q \in Property, NEW v \in TallyType
      PROVE  /\ T[x][q][v] \in Int
             /\ SharesCredited(T, p, share)[x][q][v]
                  = T[x][q][v] + (IF q = p /\ v = "BALANCE" THEN share[x] ELSE 0)
  <2>1. T[x][q][v] \in Int
    <3>1. T[x][q][v] \in Int64
      BY DEF Ledger, Sound
    <3> QED BY <3>1, TallyAssumption DEF Int64, MinInt
  <2>2. T \in Ledger
    BY DEF Sound
  <2>3. T[x] \in [Property -> [TallyType -> Int64]]
    BY <2>2 DEF Ledger
  <2>4. SharesCredited(T, p, share)[x] = [T[x] EXCEPT ![p]["BALANCE"] = @ + share[x]]
    BY DEF SharesCredited
  <2> QED BY <2>1, <2>3, <2>4
<1>2. ASSUME NEW q \in Property
      PROVE  getTotalTokens(SharesCredited(T, p, share), q)
               = getTotalTokens(T, q) + (IF q = p THEN SumUpTo(share, NumAddr) ELSE 0)
  <2> DEFINE C == SharesCredited(T, p, share)
             f == [x \in Addr |-> Holding(T, x, q)]
             g == [x \in Addr |-> Holding(C, x, q)]
  <2>1. \A x \in Addr : f[x] = Holding(T, x, q) /\ f[x] \in Int
    BY HoldingNat
  <2>2. ASSUME NEW x \in Addr PROVE g[x] = f[x] + (IF q = p THEN share[x] ELSE 0)
    <3>1. /\ C[x][q]["SELLOFFER_RESERVE"] = T[x][q]["SELLOFFER_RESERVE"]
          /\ C[x][q]["ACCEPT_RESERVE"] = T[x][q]["ACCEPT_RESERVE"]
          /\ C[x][q]["METADEX_RESERVE"] = T[x][q]["METADEX_RESERVE"]
          /\ C[x][q]["BALANCE"] = T[x][q]["BALANCE"] + (IF q = p THEN share[x] ELSE 0)
      <4>1. "BALANCE" \in TallyType /\ "SELLOFFER_RESERVE" \in TallyType
            /\ "ACCEPT_RESERVE" \in TallyType /\ "METADEX_RESERVE" \in TallyType
        BY HeldTallyTypes
      <4> HIDE DEF C
      <4>2. \A v \in TallyType : /\ T[x][q][v] \in Int
                                 /\ C[x][q][v] = T[x][q][v] + (IF q = p /\ v = "BALANCE" THEN share[x] ELSE 0)
        <5> SUFFICES ASSUME NEW v \in TallyType
                     PROVE  /\ T[x][q][v] \in Int
                            /\ C[x][q][v] = T[x][q][v] + (IF q = p /\ v = "BALANCE" THEN share[x] ELSE 0)
          BY Zenon
        <5> QED BY SMTT(30), <1>1 DEF C
      <4> QED BY <4>1, <4>2
    <3>2. /\ T[x][q]["BALANCE"] \in Int /\ T[x][q]["SELLOFFER_RESERVE"] \in Int
          /\ T[x][q]["ACCEPT_RESERVE"] \in Int /\ T[x][q]["METADEX_RESERVE"] \in Int
      BY RecordNat, HeldTallyTypes
    <3>3. g[x] = Holding(C, x, q)
      OBVIOUS
    <3> HIDE DEF C, f, g
    <3> QED BY <3>1, <3>2, <3>3, <2>1 DEF Holding
  <2>3. getTotalTokens(T, q) = SumUpTo(f, NumAddr) /\ getTotalTokens(C, q) = SumUpTo(g, NumAddr)
    BY DEF getTotalTokens
  <2> HIDE DEF f, g, C
  <2>4. CASE q = p
    <3>1. \A x \in 1..NumAddr : f[x] \in Int /\ share[x] \in Int /\ g[x] = f[x] + share[x]
      BY <2>1, <2>2, <2>4, AddrFacts
    <3>2. SumUpTo(g, NumAddr) = SumUpTo(f, NumAddr) + SumUpTo(share, NumAddr)
      BY <3>1, AddrFacts, SumAdd
    <3> QED BY <2>3, <2>4, <3>2 DEF C
  <2>5. CASE q # p
    <3>1. \A x \in 1..NumAddr : g[x] = f[x]
      BY <2>1, <2>2, <2>5, AddrFacts
    <3>2. SumUpTo(g, NumAddr) = SumUpTo(f, NumAddr) /\ SumUpTo(f, NumAddr) \in Int
      BY <3>1, <2>1, AddrFacts, SumEqual, SumInt
    <3> QED BY <2>3, <2>5, <3>2 DEF C
  <2> QED BY <2>4, <2>5
<1>3. CanCredit(T, p, share) /\ Sound(SharesCredited(T, p, share))
  <2> DEFINE C == SharesCredited(T, p, share)
  <2>1. "BALANCE" \in HeldTypes /\ "BALANCE" \in TallyType /\ "BALANCE" # "PENDING"
    BY HeldTallyTypes
  <2>2. \A a \in Addr : T[a][p]["BALANCE"] \in Nat
    BY <2>1, RecordNat
  <2>3. \A a \in Addr : T[a][p]["BALANCE"] + share[a] \in Int64 /\ T[a][p]["BALANCE"] + share[a] >= 0
    BY <2>2, TallyAssumption DEF Int64, MinInt
  <2>4. CanCredit(T, p, share)
    BY <2>3 DEF CanCredit, CanUpdate, isOverflow
  <2>5. T \in [Addr -> [Property -> [TallyType -> Int64]]]
    BY DEF Sound, Ledger
  <2>6. C \in Ledger
    <3>1. ASSUME NEW x \in Addr PROVE [T[x] EXCEPT ![p]["BALANCE"] = @ + share[x]] \in [Property -> [TallyType -> Int64]]
      BY <2>3, <2>5, Zenon
    <3> QED BY <3>1 DEF SharesCredited, Ledger
  <2>7. ASSUME NEW x \in Addr, NEW q \in Property, NEW v \in TallyType \ {"PENDING"}
        PROVE  C[x][q][v] >= 0
    <3>1. T[x][q][v] \in Int /\ C[x][q][v] = T[x][q][v] + (IF q = p /\ v = "BALANCE" THEN share[x] ELSE 0)
      BY <1>1
    <3>2. T[x][q][v] >= 0
      BY DEF Sound, NonNegative
    <3> HIDE DEF C
    <3> QED BY <3>1, <3>2
  <2> QED BY <2>4, <2>6, <2>7 DEF Sound, NonNegative
<1> QED BY <1>1, <1>2, <1>3, Zenon DEF CreditRule

\* Totals are natural numbers and bound the records.
LEMMA TotalNat ==
  ASSUME NEW T, Sound(T), NEW q \in Property
  PROVE  /\ getTotalTokens(T, q) \in Nat
         /\ \A x \in Addr, v \in HeldTypes : T[x][q][v] <= getTotalTokens(T, q)
<1>1. \A x \in Addr, v \in HeldTypes : T[x][q][v] \in Nat
  BY RecordNat
<1> QED BY <1>1, RecordWithinTotal

\* A debit of the reserve lowers the total by as much.
LEMMA DebitedTotal ==
  ASSUME NEW T, Sound(T), NEW a \in Addr, NEW p \in Property, NEW n \in Nat \ {0},
         n <= T[a][p]["METADEX_RESERVE"], NEW q \in Property
  PROVE  LET U == Updated(T, a, p, "METADEX_RESERVE", -n)
         IN  /\ CanUpdate(T, a, p, "METADEX_RESERVE", -n) /\ Sound(U)
             /\ getTotalTokens(U, q) = getTotalTokens(T, q) - (IF q = p THEN n ELSE 0)
<1> DEFINE U == Updated(T, a, p, "METADEX_RESERVE", -n)
<1>1. /\ "METADEX_RESERVE" \in HeldTypes /\ "BALANCE" \in HeldTypes
      /\ "METADEX_RESERVE" \in TallyType /\ "BALANCE" \in TallyType
  BY HeldTallyTypes
<1>2. T[a][p]["METADEX_RESERVE"] \in Amount
  BY <1>1, RecordNat
<1>3. CanUpdate(T, a, p, "METADEX_RESERVE", -n)
  BY <1>2, TallyAssumption DEF CanUpdate, isOverflow, Int64, MinInt, Amount
<1>4. Sound(U)
  BY <1>1, <1>3, UpdatedSound
<1>5. Moved(T, p, n, a, "METADEX_RESERVE", a, "BALANCE") = Updated(U, a, p, "BALANCE", n)
  BY DEF Moved
<1>6. getTotalTokens(Updated(U, a, p, "BALANCE", n), q) = getTotalTokens(T, q)
  BY <1>1, <1>5, MovedTotal DEF Sound
<1> HIDE DEF U
<1>7. getTotalTokens(Updated(U, a, p, "BALANCE", n), q) = getTotalTokens(U, q) + (IF q = p THEN n ELSE 0)
  BY <1>4, CreditedTotal
<1>8. getTotalTokens(U, q) \in Int /\ getTotalTokens(T, q) \in Int
  BY <1>4, TotalNat
<1> QED BY <1>3, <1>4, <1>6, <1>7, <1>8 DEF U

\* A balance and a part of a reserve are together within the total.
LEMMA TwoWithinTotal ==
  ASSUME NEW T, Sound(T), NEW a \in Addr, NEW b \in Addr, NEW p \in Property, NEW n \in Nat \ {0},
         n <= T[b][p]["METADEX_RESERVE"]
  PROVE  T[a][p]["BALANCE"] + n <= getTotalTokens(T, p)
<1> DEFINE U == Updated(T, b, p, "METADEX_RESERVE", -n)
<1>1. Sound(U) /\ getTotalTokens(U, p) = getTotalTokens(T, p) - n
  BY DebitedTotal
<1>2. "METADEX_RESERVE" \in TallyType /\ "BALANCE" \in TallyType /\ "BALANCE" \in HeldTypes
  BY HeldTallyTypes
<1>3. U[a][p]["BALANCE"] = T[a][p]["BALANCE"] + 0 /\ T[a][p]["BALANCE"] \in Int
  BY <1>2, UpdatedValue DEF Sound
<1> HIDE DEF U
<1>4. U[a][p]["BALANCE"] <= getTotalTokens(U, p) /\ getTotalTokens(T, p) \in Int
  BY <1>1, <1>2, TotalNat
<1> QED BY <1>1, <1>3, <1>4
(***************************************************************************)
(* A fee of n tokens of property p has entered the fee cache c, or is      *)
(* handed out together with what was cached: U and d are the ledger and    *)
(* the cache afterwards.  It touches balances of p only, and these only    *)
(* grow.                                                                   *)
(***************************************************************************)
FeeRule(T, c, p, n, U, d) ==
  /\ Sound(U) /\ d \in [Property -> Nat]
  /\ \A q \in Property : q # p => d[q] = c[q]
  /\ \A q \in Property :
       getTotalTokens(U, q) + d[q] = getTotalTokens(T, q) + c[q] + (IF q = p THEN n ELSE 0)
  /\ \A x \in Addr, q \in Property, v \in TallyType :
       /\ U[x][q][v] >= T[x][q][v]
       /\ q # p \/ v # "BALANCE" => U[x][q][v] = T[x][q][v]

(***************************************************************************)
(* Where a fill leaves the ledger T and the cache c.  The maker a sells n  *)
(* of property p for paid of property q to the taker b.                    *)
(***************************************************************************)
FillRule(T, c, p, q, a, b, n, paid, V, d) ==
  /\ Sound(V) /\ d \in [Property -> Amount]
  /\ \A r \in Property : getTotalTokens(V, r) + d[r] = getTotalTokens(T, r) + c[r]
  /\ \A r \in Property : r # p => d[r] = c[r]
  /\ \A x \in Addr, r \in Property :
       V[x][r]["METADEX_RESERVE"] = T[x][r]["METADEX_RESERVE"] - (IF x = a /\ r = p THEN n ELSE 0)
  /\ V[b][q]["BALANCE"] >= T[b][q]["BALANCE"] - paid

LEMMA Settled ==
  ASSUME NEW T, Sound(T), NEW c \in [Property -> Nat], NEW p \in Property, NEW q \in Property, p # q,
         NEW a \in Addr, NEW b \in Addr, NEW n \in Nat \ {0}, NEW paid \in Nat \ {0},
         NEW fee \in Nat, fee < n, NEW U, NEW d, FeeRule(T, c, p, fee, U, d),
         n <= T[a][p]["METADEX_RESERVE"], paid <= T[b][q]["BALANCE"],
         \A r \in Property : getTotalTokens(T, r) + c[r] <= MaxInt
  PROVE  LET T1 == Moved(U, q, paid, b, "BALANCE", a, "BALANCE")
             T2 == Updated(T1, a, p, "METADEX_RESERVE", -n)
         IN  /\ CanMove(U, q, paid, b, "BALANCE", a, "BALANCE")
             /\ CanUpdate(T1, a, p, "METADEX_RESERVE", -n)
             /\ CanUpdate(T2, b, p, "BALANCE", n - fee)
             /\ FillRule(T, c, p, q, a, b, n, paid, Updated(T2, b, p, "BALANCE", n - fee), d)
<1> DEFINE T1 == Moved(U, q, paid, b, "BALANCE", a, "BALANCE")
           T2 == Updated(T1, a, p, "METADEX_RESERVE", -n)
           V  == Updated(T2, b, p, "BALANCE", n - fee)
<1>0. /\ "METADEX_RESERVE" \in HeldTypes /\ "BALANCE" \in HeldTypes
      /\ "METADEX_RESERVE" \in TallyType /\ "BALANCE" \in TallyType
  BY HeldTallyTypes, Zenon
<1>1. Sound(U) /\ d \in [Property -> Nat] /\ \A r \in Property : r # p => d[r] = c[r]
  BY DEF FeeRule
<1>2. \A r \in Property : getTotalTokens(U, r) + d[r] = getTotalTokens(T, r) + c[r] + (IF r = p THEN fee ELSE 0)
  BY DEF FeeRule
<1>3. \A x \in Addr, r \in Property :
        /\ U[x][r]["METADEX_RESERVE"] = T[x][r]["METADEX_RESERVE"]
        /\ U[x][r]["BALANCE"] >= T[x][r]["BALANCE"]
  <2>1. "BALANCE" # "METADEX_RESERVE"
    OBVIOUS
  <2> QED BY <1>0, <2>1 DEF FeeRule
<1>4. \A r \in Property : getTotalTokens(T, r) \in Nat /\ getTotalTokens(U, r) \in Nat /\ c[r] \in Nat /\ d[r] \in Nat
  BY <1>1, TotalNat
<1>5. \A x \in Addr, r \in Property : /\ T[x][r]["METADEX_RESERVE"] \in Nat /\ T[x][r]["BALANCE"] \in Nat
                                      /\ U[x][r]["METADEX_RESERVE"] \in Nat /\ U[x][r]["BALANCE"] \in Nat
  BY <1>0, <1>1, RecordNat
<1>6. CanMove(U, q, paid, b, "BALANCE", a, "BALANCE")
  <2>1. getTotalTokens(U, q) <= MaxInt
    BY <1>2, <1>4, TallyAssumption
  <2>2. paid <= U[b][q]["BALANCE"]
    BY <1>3, <1>5
  <2> QED BY <2>1, <2>2, <1>0, <1>1, CoveredMove
<1>6a. paid \in Int /\ -n \in Int /\ n - fee \in Int
  OBVIOUS
<1>7. Sound(T1) /\ \A r \in Property : getTotalTokens(T1, r) = getTotalTokens(U, r)
  <2>1. U \in Ledger
    BY <1>1, Zenon DEF Sound
  <2>2. Sound(T1)
    BY <1>0, <1>1, <1>6, <1>6a, MovedSound, Zenon
  <2>3. ASSUME NEW r \in Property PROVE getTotalTokens(T1, r) = getTotalTokens(U, r)
    BY <2>1, <1>0, <1>6a, MovedTotal
  <2> QED BY <2>2, <2>3, Zenon
<1>7a. MoveRule(U, T1, q, paid, b, "BALANCE", a, "BALANCE")
  BY <1>6a, <1>0, <1>1, MovedHeld, Zenon
<1>8. \A x \in Addr, r \in Property : T1[x][r]["METADEX_RESERVE"] = T[x][r]["METADEX_RESERVE"]
  <2> SUFFICES ASSUME NEW x \in Addr, NEW r \in Property
               PROVE  T1[x][r]["METADEX_RESERVE"] = T[x][r]["METADEX_RESERVE"]
    BY Zenon
  <2> HIDE DEF T1
  <2>1. T1[x][r]["METADEX_RESERVE"] = U[x][r]["METADEX_RESERVE"] - 0 + 0
    BY <1>0, <1>7a DEF MoveRule
  <2> QED BY <2>1, <1>3, <1>5, Unmoved, Zenon
<1>9. T1[b][q]["BALANCE"] >= T[b][q]["BALANCE"] - paid /\ T1[b][q]["BALANCE"] \in Int
  <2> HIDE DEF T1
  <2>1. T1[b][q]["BALANCE"] = U[b][q]["BALANCE"] - paid + (IF b = a THEN paid ELSE 0)
    BY <1>0, <1>7a, Zenon DEF MoveRule
  <2>2. U[b][q]["BALANCE"] >= T[b][q]["BALANCE"] /\ U[b][q]["BALANCE"] \in Nat /\ T[b][q]["BALANCE"] \in Nat
    BY <1>3, <1>5, Zenon
  <2>3. paid \in Nat
    BY Zenon
  <2>4. CASE b = a
    <3>1. T1[b][q]["BALANCE"] = U[b][q]["BALANCE"] - paid + paid
      BY <2>1, <2>4, Zenon
    <3> QED BY <3>1, <2>2, <2>3, PaidFrom, Zenon
  <2>5. CASE b # a
    <3>1. T1[b][q]["BALANCE"] = U[b][q]["BALANCE"] - paid + 0
      BY <2>1, <2>5, Zenon
    <3> QED BY <3>1, <2>2, <2>3, PaidFrom, Zenon
  <2> QED BY <2>4, <2>5, Zenon
<1> HIDE DEF T1
<1>10. /\ CanUpdate(T1, a, p, "METADEX_RESERVE", -n) /\ Sound(T2)
       /\ \A r \in Property : getTotalTokens(T2, r) = getTotalTokens(T1, r) - (IF r = p THEN n ELSE 0)
  <2>1. n <= T1[a][p]["METADEX_RESERVE"]
    BY <1>8, Zenon
  <2> QED BY <2>1, <1>7, DebitedTotal
<1>11. \A x \in Addr, r \in Property, v \in TallyType :
         /\ T1[x][r][v] \in Int
         /\ T2[x][r][v] = T1[x][r][v] + (IF x = a /\ r = p /\ v = "METADEX_RESERVE" THEN -n ELSE 0)
  <2>1. T1 \in Ledger
    BY <1>7, Zenon DEF Sound
  <2> QED BY <2>1, <1>0, <1>6a, UpdatedValue
<1> HIDE DEF T2
<1>12. CanUpdate(T2, b, p, "BALANCE", n - fee)
  <2>1. T2[b][p]["BALANCE"] <= getTotalTokens(T2, p) /\ T2[b][p]["BALANCE"] \in Nat
    BY <1>0, <1>10, TotalNat, RecordNat, Zenon
  <2>2. getTotalTokens(T2, p) = getTotalTokens(U, p) - n
    BY <1>7, <1>10
  <2>3. T2[b][p]["BALANCE"] + (n - fee) <= MaxInt
    BY <2>1, <2>2, <1>2, <1>4, TallyAssumption
  <2>4. \A k \in Nat : n - fee # 0 /\ k + (n - fee) >= 0 /\ (k + (n - fee) <= MaxInt => k + (n - fee) \in Int64)
    BY TallyAssumption DEF Int64, MinInt
  <2> QED BY <2>1, <2>3, <2>4, Zenon DEF CanUpdate, isOverflow
<1>13. Sound(V)
  BY <1>0, <1>6a, <1>10, <1>12, UpdatedSound, Zenon
<1>14. \A r \in Property : getTotalTokens(V, r) = getTotalTokens(T2, r) + (IF r = p THEN n - fee ELSE 0)
  BY <1>6a, <1>10, CreditedTotal
<1>15. \A x \in Addr, r \in Property, v \in TallyType :
         /\ T2[x][r][v] \in Int
         /\ V[x][r][v] = T2[x][r][v] + (IF x = b /\ r = p /\ v = "BALANCE" THEN n - fee ELSE 0)
  <2>1. T2 \in Ledger
    BY <1>10, Zenon DEF Sound
  <2> QED BY <2>1, <1>0, <1>6a, UpdatedValue
<1> HIDE DEF V
<1>16. ASSUME NEW r \in Property
       PROVE  getTotalTokens(V, r) + d[r] = getTotalTokens(T, r) + c[r] /\ d[r] \in Amount
  <2>1. getTotalTokens(V, r) + d[r] = getTotalTokens(T, r) + c[r]
    <3>1. CASE r = p
      <4>1. getTotalTokens(V, p) = getTotalTokens(T2, p) + (n - fee)
        BY <1>14
      <4>2. getTotalTokens(T2, p) = getTotalTokens(U, p) - n
        BY <1>7, <1>10, Zenon
      <4>3. getTotalTokens(U, p) + d[p] = getTotalTokens(T, p) + c[p] + fee
        BY <1>2
      <4>4. /\ getTotalTokens(T, p) \in Nat /\ getTotalTokens(U, p) \in Nat /\ c[p] \in Nat /\ d[p] \in Nat
        BY <1>4, Zenon
      <4> QED BY <3>1, <4>1, <4>2, <4>3, <4>4
    <3>2. CASE r # p
      <4>1. getTotalTokens(V, r) = getTotalTokens(T2, r) + 0
        BY <3>2, <1>14
      <4>2. getTotalTokens(T2, r) = getTotalTokens(U, r) - 0
        BY <3>2, <1>7, <1>10, Zenon
      <4>3. getTotalTokens(U, r) + d[r] = getTotalTokens(T, r) + c[r] + 0
        BY <3>2, <1>2
      <4>4. /\ getTotalTokens(T, r) \in Nat /\ getTotalTokens(U, r) \in Nat /\ c[r] \in Nat /\ d[r] \in Nat
        BY <1>4
      <4> QED BY <4>1, <4>2, <4>3, <4>4
    <3> QED BY <3>1, <3>2, Zenon
  <2>2. getTotalTokens(V, r) \in Nat /\ d[r] \in Nat /\ getTotalTokens(T, r) + c[r] <= MaxInt
    BY <1>13, <1>4, TotalNat, Zenon
  <2>3. \A k, m \in Nat : k + m <= MaxInt => m \in Amount
    BY TallyAssumption DEF Amount
  <2> QED BY <2>1, <2>2, <2>3, Zenon
<1>17. d \in [Property -> Amount]
  BY <1>1, <1>16
<1>18. \A x \in Addr, r \in Property :
         V[x][r]["METADEX_RESERVE"] = T[x][r]["METADEX_RESERVE"] - (IF x = a /\ r = p THEN n ELSE 0)
  <2> SUFFICES ASSUME NEW x \in Addr, NEW r \in Property
               PROVE  V[x][r]["METADEX_RESERVE"] = T[x][r]["METADEX_RESERVE"] - (IF x = a /\ r = p THEN n ELSE 0)
    OBVIOUS
  <2>1. V[x][r]["METADEX_RESERVE"]
          = T2[x][r]["METADEX_RESERVE"] + (IF x = b /\ r = p /\ "METADEX_RESERVE" = "BALANCE" THEN n - fee ELSE 0)
    BY <1>0, <1>15, Zenon
  <2>2. T2[x][r]["METADEX_RESERVE"] = T1[x][r]["METADEX_RESERVE"]
          + (IF x = a /\ r = p /\ "METADEX_RESERVE" = "METADEX_RESERVE" THEN -n ELSE 0)
    BY <1>0, <1>11, Zenon
  <2>3. T1[x][r]["METADEX_RESERVE"] = T[x][r]["METADEX_RESERVE"] /\ T[x][r]["METADEX_RESERVE"] \in Nat
    BY <1>5, <1>8, Zenon
  <2> QED BY <2>1, <2>2, <2>3
<1>19. V[b][q]["BALANCE"] >= T[b][q]["BALANCE"] - paid
  <2>1. V[b][q]["BALANCE"]
          = T2[b][q]["BALANCE"] + (IF b = b /\ q = p /\ "BALANCE" = "BALANCE" THEN n - fee ELSE 0)
    BY <1>0, <1>15, Zenon
  <2>2. T2[b][q]["BALANCE"]
          = T1[b][q]["BALANCE"] + (IF b = a /\ q = p /\ "BALANCE" = "METADEX_RESERVE" THEN -n ELSE 0)
    BY <1>0, <1>11, Zenon
  <2> QED BY <2>1, <2>2, <1>9
<1>20. FillRule(T, c, p, q, a, b, n, paid, V, d)
  BY <1>1, <1>13, <1>16, <1>17, <1>18, <1>19, Zenon DEF FillRule
<1> QED BY <1>6, <1>10, <1>12, <1>20, Zenon DEF T1, T2, V
==============================================================================
