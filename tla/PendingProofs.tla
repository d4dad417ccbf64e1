---------------------------- MODULE PendingProofs -----------------------------
(***************************************************************************)
(* What is proved of module Pending, for all wallets, all numbers of       *)
(* transactions and all orders of calls, confirmations and checks.         *)
(***************************************************************************)
EXTENDS Pending, TallyProofs

\* What address a has pending when the transactions of X are.
Term(X, a) == [t \in Txid |-> IF t \in X /\ Call[t].src = a THEN Call[t].amount ELSE 0]
Owed(X, a) == SumUpTo(Term(X, a), NumTx)

\* The tally T is minus what is pending of the transactions X, for the
\* addresses B.
Owes(T, X, B) == T \in [Addr -> Int] /\ \A a \in B : T[a] = 0 - Owed(X, a)

\* The addresses that were credited with nothing but what was subtracted.
Right == {a \in Addr : ~ CreditedForNothing(a)}

\* A transaction not sent yet is nowhere, and between blocks none is handled.
NotYet ==
  /\ \A t \in Txid : rpc[t] = "new" => t \notin mempool /\ t \notin block
  /\ ~ connecting => block = {}

IInv == TypeOK /\ NotYet /\ (~ torn => Owes(tally, Subtracted, Right))
-------------------------------------------------------------------------------
(***************************************************************************)
(* Sums over transactions.                                                 *)
(***************************************************************************)
LEMMA CallFacts ==
  /\ NumTx \in Nat /\ Txid = 1..NumTx
  /\ \A t \in Txid : Call[t].src \in Addr /\ Call[t].amount \in Nat
<1>1. \A n \in Amount : n \in Nat
  BY TallyAssumption DEF Amount
<1> QED BY <1>1, PendingAssumption DEF Txid

LEMMA TermFacts ==
  ASSUME NEW X, NEW a
  PROVE  \A t \in 1..NumTx :
           /\ Term(X, a)[t] = IF t \in X /\ Call[t].src = a THEN Call[t].amount ELSE 0
           /\ Term(X, a)[t] \in Nat
  BY CallFacts DEF Term

\* One transaction more adds its amount to what its sender has pending.
LEMMA OwedAdds ==
  ASSUME NEW X, NEW t \in Txid, t \notin X, NEW a \in Addr
  PROVE  /\ Owed(X, a) \in Nat
         /\ Owed(X \cup {t}, a) = Owed(X, a) + (IF Call[t].src = a THEN Call[t].amount ELSE 0)
<1> DEFINE f == Term(X, a)
           g == Term(X \cup {t}, a)
<1>1. \A i \in 1..NumTx : f[i] \in Nat /\ g[i] \in Nat
  BY TermFacts
<1>2. \A i \in 1..NumTx : i # t => g[i] = f[i]
  BY TermFacts
<1>3. f[t] = 0 /\ g[t] = IF Call[t].src = a THEN Call[t].amount ELSE 0
  BY TermFacts, CallFacts
<1> HIDE DEF f, g
<1>4. SumUpTo(f, NumTx) \in Nat
  BY <1>1, SumNat, CallFacts
<1>5. \A i \in 1..NumTx : f[i] \in Int /\ g[i] \in Int
  BY <1>1
<1>6. SumUpTo(g, NumTx) = SumUpTo(f, NumTx) + (g[t] - f[t])
  <2>1. NumTx \in Nat /\ t \in 1..NumTx
    BY CallFacts, Zenon
  <2> QED
    BY <2>1, <1>2, <1>5, SumChange
<1>7. g[t] - f[t] = IF Call[t].src = a THEN Call[t].amount ELSE 0
  BY <1>3, CallFacts
<1> QED
  BY <1>4, <1>6, <1>7 DEF Owed, f, g

\* What is pending is no less than each amount.
LEMMA OwedBounds ==
  ASSUME NEW X, NEW t \in X \cap Txid
  PROVE  Call[t].amount <= Owed(X, Call[t].src)
<1> DEFINE f == Term(X, Call[t].src)
<1>1. \A i \in 1..NumTx : f[i] \in Nat
  BY TermFacts
<1>2. f[t] = Call[t].amount
  BY TermFacts, CallFacts
<1> HIDE DEF f
<1>3. f[t] <= SumUpTo(f, NumTx)
  BY <1>1, SumNat, CallFacts
<1> QED
  BY <1>2, <1>3 DEF Owed, f

LEMMA NothingOwed ==
  ASSUME NEW a
  PROVE  Owed({}, a) = 0
<1>1. \A i \in 1..NumTx : Term({}, a)[i] = 0
  BY TermFacts
<1> QED
  BY <1>1, SumOfZeros, CallFacts DEF Owed
-------------------------------------------------------------------------------
(***************************************************************************)
(* PendingDelete.                                                          *)
(***************************************************************************)
\* One transaction credited back, also when the tally is 0 and the credit is
\* left out.
LEMMA CreditedOwes ==
  ASSUME NEW B \in SUBSET Addr, NEW T, NEW X, Owes(T, X, B),
         NEW t \in Txid, t \in X \/ Call[t].amount = 0 \/ Call[t].src \notin B
  PROVE  Owes(Credited(T, t), X \ {t}, B)
<1> DEFINE s == Call[t].src
           n == Call[t].amount
           Y == X \ {t}
<1>1. s \in Addr /\ n \in Nat /\ T \in [Addr -> Int] /\ \A a \in B : T[a] = 0 - Owed(X, a)
  BY CallFacts DEF Owes
<1>2. ASSUME NEW a \in B
      PROVE  Owed(Y, a) \in Nat /\ Owed(X, a) = Owed(Y, a) + (IF s = a THEN n ELSE 0)
  <2>1. t \notin Y /\ a \in Addr
    OBVIOUS
  <2>2. /\ Owed(Y, a) \in Nat
        /\ Owed(Y \cup {t}, a) = Owed(Y, a) + (IF s = a THEN n ELSE 0)
    BY <2>1, OwedAdds, Zenon
  <2>3. (t \in X /\ Y \cup {t} = X) \/ (Y = X /\ (n = 0 \/ s # a))
    <3>1. CASE t \in X
      <4>1. Y \cup {t} = X
        BY <3>1, Zenon
      <4> QED
        BY <3>1, <4>1
    <3>2. CASE t \notin X
      <4>1. Y = X
        BY <3>2, Zenon
      <4> QED
        BY <3>2, <4>1
    <3> QED
      BY <3>1, <3>2
  <2> HIDE DEF Y, s, n
  <2> QED
    BY <2>2, <2>3
<1> HIDE DEF s, n, Y
<1>3. s \in B => T[s] # 0 \/ n = 0
  <2>1. CASE s \in B /\ t \in X
    <3>1. n <= Owed(X, s)
      BY <2>1, OwedBounds DEF s, n
    <3>2. T[s] = 0 - Owed(X, s) /\ Owed(X, s) \in Nat
      BY <2>1, <1>1, <1>2
    <3> QED
      BY <3>1, <3>2, <1>1
  <2>2. CASE s \in B /\ t \notin X
    BY <2>2 DEF n, s
  <2> QED
    BY <2>1, <2>2
<1>4. Credited(T, t) \in [Addr -> Int]
  BY <1>1 DEF Credited, s, n
<1>5. \A a \in B : Credited(T, t)[a] = T[a] + (IF s = a THEN n ELSE 0)
  <2>1. CASE T[s] # 0
    BY <2>1, <1>1 DEF Credited, s, n
  <2>2. CASE T[s] = 0
    BY <2>2, <1>1, <1>3 DEF Credited, s, n
  <2> QED
    BY <2>1, <2>2
<1>6. ASSUME NEW a \in B
      PROVE  Credited(T, t)[a] = 0 - Owed(Y, a)
  <2>1. Credited(T, t)[a] = T[a] + (IF s = a THEN n ELSE 0) /\ T[a] = 0 - Owed(X, a) /\ a \in Addr
    BY <1>1, <1>5
  <2> QED
    BY <2>1, <1>1, <1>2
<1> QED
  BY <1>4, <1>6 DEF Owes, Y

\* The first k steps of AllCredited.
Credits(u, S, k) ==
  u = [n \in 0..k |-> IF n = 0 THEN tally
                      ELSE IF n \in S THEN Credited(u[n - 1], n) ELSE u[n - 1]]

\* The recursive function of AllCredited exists.
LEMMA CreditsExist ==
  ASSUME NEW k \in Nat, NEW S
  PROVE  \E u : Credits(u, S, k)
<1> DEFINE Bad == {n \in Nat : ~ \E u : Credits(u, S, n)}
<1> SUFFICES ASSUME Bad # {} PROVE FALSE
  OBVIOUS
<1>0. Bad \subseteq Nat
  OBVIOUS
<1>1. PICK m \in Bad : \A n \in Bad : m <= n
  BY <1>0, LeastElement, Zenon
<1>2. m # 0
  <2>1. Credits([n \in 0..0 |-> tally], S, 0)
    BY DEF Credits
  <2> QED BY <2>1
<1>3. PICK u : Credits(u, S, m - 1)
  BY <1>1, <1>2
<1> DEFINE v == [n \in 0..m |-> IF n < m THEN u[n]
                               ELSE IF m \in S THEN Credited(u[m - 1], m) ELSE u[m - 1]]
<1>4. /\ m \in Nat \ {0}
      /\ \A n \in 0..(m - 1) : v[n] = u[n]
      /\ v[m] = IF m \in S THEN Credited(u[m - 1], m) ELSE u[m - 1]
      /\ v = [n \in 0..m |-> v[n]]
  BY <1>2
<1>5. \A n \in 0..(m - 1) : u[n] = IF n = 0 THEN tally
                                  ELSE IF n \in S THEN Credited(u[n - 1], n) ELSE u[n - 1]
  BY <1>3, <1>4 DEF Credits
<1> HIDE DEF v
<1>6. \A n \in 0..m : v[n] = IF n = 0 THEN tally
                            ELSE IF n \in S THEN Credited(v[n - 1], n) ELSE v[n - 1]
  <2> TAKE n \in 0..m
  <2>1. CASE n < m
    <3>1. n \in 0..(m - 1) /\ (n # 0 => n - 1 \in 0..(m - 1))
      BY <2>1, <1>4
    <3>2. v[n] = u[n] /\ (n # 0 => v[n - 1] = u[n - 1])
      BY <3>1, <1>4, Zenon
    <3> QED
      BY <3>1, <3>2, <1>5, Zenon
  <2>2. CASE n = m
    <3>1. m - 1 \in 0..(m - 1)
      BY <1>4
    <3> QED
      BY <3>1, <2>2, <1>4, Zenon
  <2> QED
    BY <2>1, <2>2, <1>4
<1>7. Credits(v, S, m)
  BY <1>4, <1>6, Zenon DEF Credits
<1> QED BY <1>1, <1>7

LEMMA AllCreditedSteps ==
  ASSUME NEW S
  PROVE  \E u : Credits(u, S, NumTx) /\ AllCredited(S) = u[NumTx]
<1> DEFINE upTo[n \in 0..NumTx] == IF n = 0 THEN tally
                                   ELSE IF n \in S THEN Credited(upTo[n - 1], n) ELSE upTo[n - 1]
<1>1. Credits(upTo, S, NumTx)
  <2>1. \E u : Credits(u, S, NumTx)
    BY CreditsExist, CallFacts, Zenon
  <2> QED
    BY <2>1, Zenon DEF Credits
<1>2. AllCredited(S) = upTo[NumTx]
  BY DEF AllCredited
<1> QED BY <1>1, <1>2, Zenon

\* PendingDelete of all transactions of S leaves a tally that is minus what is
\* pending of the others.
LEMMA AllCreditedOwes ==
  ASSUME NEW B \in SUBSET Addr, NEW S, S \subseteq Txid, NEW X, Owes(tally, X, B),
         \A t \in S : t \in X \/ Call[t].amount = 0 \/ Call[t].src \notin B
  PROVE  Owes(AllCredited(S), X \ S, B)
<1>1. PICK u : Credits(u, S, NumTx) /\ AllCredited(S) = u[NumTx]
  BY AllCreditedSteps
<1>2. /\ u[0] = tally
      /\ \A n \in 1..NumTx : u[n] = IF n \in S THEN Credited(u[n - 1], n) ELSE u[n - 1]
  BY <1>1, CallFacts DEF Credits
<1> DEFINE Rest(n) == X \ (S \cap 1..n)
           Bad == {n \in 0..NumTx : ~ Owes(u[n], Rest(n), B)}
<1>3. Bad = {}
  <2> SUFFICES ASSUME Bad # {} PROVE FALSE
    BY Zenon
  <2>1. PICK m \in Bad : \A n \in Bad : m <= n
    <3>1. Bad \subseteq Nat
      BY CallFacts
    <3> QED
      BY <3>1, LeastElement, Zenon
  <2>2. m # 0
    <3>1. Rest(0) = X
      OBVIOUS
    <3> QED
      BY <3>1, <1>2, Zenon
  <2>3. m \in 1..NumTx /\ m - 1 \in 0..NumTx /\ ~ (m <= m - 1)
    BY <2>2, CallFacts
  <2>4. Owes(u[m - 1], Rest(m - 1), B) /\ ~ Owes(u[m], Rest(m), B)
    BY <2>1, <2>3, Zenon
  <2>5. CASE m \in S
    <3>1. m \in Txid /\ m \notin 1..(m - 1)
      BY <2>3, CallFacts
    <3>2. m \in Rest(m - 1) \/ Call[m].amount = 0 \/ Call[m].src \notin B
      BY <3>1, <2>5
    <3>3. Rest(m) = Rest(m - 1) \ {m}
      <4>1. \A i \in S : i \in 1..m <=> i \in 1..(m - 1) \/ i = m
        BY <2>3, CallFacts
      <4> QED
        BY <4>1, <2>5
    <3>4. u[m] = Credited(u[m - 1], m)
      BY <2>3, <2>5, <1>2
    <3> HIDE DEF Rest
    <3> QED
      BY <3>1, <3>2, <3>3, <3>4, <2>4, CreditedOwes
  <2>6. CASE m \notin S
    <3>1. Rest(m) = Rest(m - 1)
      <4>1. \A i \in S : i \in 1..m <=> i \in 1..(m - 1)
        BY <2>3, <2>6, CallFacts
      <4> QED
        BY <4>1
    <3>2. u[m] = u[m - 1]
      BY <2>3, <2>6, <1>2
    <3> QED
      BY <3>1, <3>2, <2>4, Zenon
  <2> QED
    BY <2>5, <2>6
<1>4. Rest(NumTx) = X \ S
  BY CallFacts, Zenon
<1>5. Owes(u[NumTx], Rest(NumTx), B)
  <2>1. NumTx \in 0..NumTx
    BY CallFacts
  <2> QED
    BY <2>1, <1>3, Zenon
<1> QED
  BY <1>1, <1>4, <1>5, Zenon

\* Whatever is credited back, the tally is one of integers.
LEMMA AllCreditedInt ==
  ASSUME NEW S, S \subseteq Txid, tally \in [Addr -> Int]
  PROVE  AllCredited(S) \in [Addr -> Int]
<1>1. PICK u : Credits(u, S, NumTx) /\ AllCredited(S) = u[NumTx]
  BY AllCreditedSteps
<1>2. /\ u[0] = tally
      /\ \A n \in 1..NumTx : u[n] = IF n \in S THEN Credited(u[n - 1], n) ELSE u[n - 1]
  BY <1>1, CallFacts DEF Credits
<1> DEFINE Bad == {n \in 0..NumTx : u[n] \notin [Addr -> Int]}
<1>3. Bad = {}
  <2> SUFFICES ASSUME Bad # {} PROVE FALSE
    BY Zenon
  <2>1. PICK m \in Bad : \A n \in Bad : m <= n
    <3>1. Bad \subseteq Nat
      BY CallFacts
    <3> QED
      BY <3>1, LeastElement, Zenon
  <2>2. m \in 1..NumTx /\ m - 1 \in 0..NumTx /\ ~ (m <= m - 1)
    BY <2>1, <1>2, CallFacts
  <2>3. u[m - 1] \in [Addr -> Int]
    BY <2>1, <2>2
  <2>4. m \in Txid /\ Credited(u[m - 1], m) \in [Addr -> Int]
    <3>1. m \in Txid /\ Call[m].src \in Addr /\ Call[m].amount \in Int
      BY <2>2, CallFacts
    <3>2. u[m - 1][Call[m].src] + Call[m].amount \in Int
      BY <2>3, <3>1
    <3> QED
      BY <2>3, <3>1, <3>2, Zenon DEF Credited
  <2> QED
    BY <2>1, <2>2, <2>3, <2>4, <1>2
<1> QED
  BY <1>1, <1>3, CallFacts
-------------------------------------------------------------------------------
(***************************************************************************)
(* The steps.                                                              *)
(***************************************************************************)
LEMMA InitHolds == Init => IInv
<1> SUFFICES ASSUME Init
             PROVE  IInv
  OBVIOUS
<1>1. TypeOK /\ NotYet
  <2>1. rpc \in [Txid -> {"new", "sent", "debited", "done"}] /\ tally \in [Addr -> Int]
    BY DEF Init
  <2>2. my_pending = {} /\ mempool = {} /\ block = {}
    BY DEF Init
  <2> QED
    BY <2>1, <2>2, Zenon DEF Init, TypeOK, NotYet
<1>2. Subtracted = {}
  BY DEF Init, Subtracted
<1>3. Owes(tally, {}, Right)
  <2>1. tally \in [Addr -> Int] /\ \A a \in Addr : tally[a] = 0
    BY DEF Init
  <2>2. \A a \in Addr : Owed({}, a) = 0
    BY NothingOwed
  <2>3. \A a \in Right : a \in Addr
    BY DEF Right
  <2> QED
    BY <2>1, <2>2, <2>3 DEF Owes
<1> QED
  BY <1>1, <1>2, <1>3 DEF IInv

\* What TypeOK says of the variables the steps change.
LEMMA Typed ==
  ASSUME IInv
  PROVE  /\ rpc \in [Txid -> {"new", "sent", "debited", "done"}]
         /\ tally \in [Addr -> Int]
         /\ my_pending \subseteq Txid /\ \A t \in my_pending : rpc[t] = "done"
         /\ mempool \subseteq Txid /\ block \subseteq Txid /\ block \cap mempool = {}
         /\ connecting \in BOOLEAN /\ alive \in BOOLEAN /\ torn \in BOOLEAN
         /\ NotYet /\ (~ torn => Owes(tally, Subtracted, Right))
  BY DEF IInv, TypeOK

\* The same the other way round.
LEMMA TypedBack ==
  ASSUME rpc' \in [Txid -> {"new", "sent", "debited", "done"}],
         tally' \in [Addr -> Int],
         my_pending' \subseteq Txid, \A t \in my_pending' : rpc'[t] = "done",
         mempool' \subseteq Txid, block' \subseteq Txid, block' \cap mempool' = {},
         connecting' \in BOOLEAN, alive' \in BOOLEAN, torn' \in BOOLEAN,
         NotYet', ~ torn' => Owes(tally', Subtracted', Right')
  PROVE  IInv'
<1>1. TypeOK'
  BY DEF TypeOK
<1> QED
  BY <1>1 DEF IInv

\* Once credited for nothing, an address stays so: what remains to be shown
\* holds of fewer addresses.
LEMMA RightShrinks ==
  ASSUME \A t \in Txid : rpc[t] = "done" => rpc'[t] = "done",
         \A t \in Txid : t \in my_pending' => t \in my_pending \/ rpc[t] # "done"
  PROVE  /\ Right \in SUBSET Addr /\ Right' \in SUBSET Addr
         /\ \A T, X : Owes(T, X, Right) => Owes(T, X, Right')
<1>1. Right' \subseteq Right
  <2> SUFFICES ASSUME NEW a \in Addr, CreditedForNothing(a)
               PROVE  CreditedForNothing(a)'
    BY Zenon DEF Right
  <2> QED
    BY Zenon DEF CreditedForNothing
<1>2. Right \in SUBSET Addr
  BY DEF Right
<1>3. \A T, X : Owes(T, X, Right) => Owes(T, X, Right')
  BY <1>1, Zenon DEF Owes
<1> QED
  BY <1>1, <1>2, <1>3

LEMMA BroadcastHolds ==
  ASSUME IInv, NEW t \in Txid, Broadcast(t)
  PROVE  IInv'
<1>1. /\ rpc[t] = "new" /\ rpc' = [rpc EXCEPT ![t] = "sent"] /\ mempool' = mempool \cup {t}
      /\ tally' = tally /\ my_pending' = my_pending /\ block' = block
      /\ connecting' = connecting /\ alive' = alive /\ torn' = torn
  BY DEF Broadcast
<1>2. t \notin block /\ t \notin my_pending
  BY <1>1, Typed DEF NotYet
<1>3. \A x \in Txid : rpc'[x] = IF x = t THEN "sent" ELSE rpc[x]
  BY <1>1, Typed
<1>4. Subtracted' = Subtracted
  BY <1>1, <1>3 DEF Subtracted
<1>5. NotYet'
  BY <1>1, <1>3, Typed DEF NotYet
<1>6. rpc' \in [Txid -> {"new", "sent", "debited", "done"}]
  BY <1>1, Typed
<1>7. \A x \in my_pending' : rpc'[x] = "done"
  BY <1>1, <1>2, <1>3, Typed
<1>8. mempool' \subseteq Txid /\ block' \cap mempool' = {}
  BY <1>1, <1>2, Typed
<1>9. ~ torn' => Owes(tally', Subtracted', Right')
  <2>1. /\ \A x \in Txid : rpc[x] = "done" => rpc'[x] = "done"
        /\ \A x \in Txid : x \in my_pending' => x \in my_pending \/ rpc[x] # "done"
    BY <1>1, <1>3
  <2> QED
    BY <2>1, <1>1, <1>4, Typed, RightShrinks
<1> QED
  BY <1>1, <1>5, <1>6, <1>7, <1>8, <1>9, Typed, TypedBack

LEMMA DebitHolds ==
  ASSUME IInv, NEW t \in Txid, Debit(t)
  PROVE  IInv'
<1> DEFINE c == Call[t]
           r == IF c.subtract /\ c.amount = 0 THEN "done" ELSE "debited"
<1>1. /\ rpc[t] = "sent" /\ rpc' = [rpc EXCEPT ![t] = r]
      /\ tally' = (IF c.subtract THEN [tally EXCEPT ![c.src] = @ - c.amount] ELSE tally)
      /\ mempool' = mempool /\ my_pending' = my_pending /\ block' = block
      /\ connecting' = connecting /\ alive' = alive /\ torn' = torn
  BY DEF Debit
<1>2. c.src \in Addr /\ c.amount \in Nat
  BY CallFacts
<1>3. rpc' \in [Txid -> {"new", "sent", "debited", "done"}]
  BY <1>1, Typed
<1>4. \A x \in Txid : rpc'[x] = IF x = t THEN r ELSE rpc[x]
  BY <1>1, Typed
<1>5. \A x \in my_pending' : rpc'[x] = "done"
  BY <1>1, <1>4, Typed
<1>6. tally' \in [Addr -> Int]
  BY <1>1, <1>2, Typed
<1>7. NotYet'
  BY <1>1, <1>4, Typed DEF NotYet
<1>8. ~ torn' => Owes(tally', Subtracted', Right')
  <2> SUFFICES ASSUME ~ torn
               PROVE  Owes(tally', Subtracted', Right')
    BY <1>1
  <2>1. Owes(tally, Subtracted, Right') /\ t \notin Subtracted /\ Right' \in SUBSET Addr
    <3>1. /\ \A x \in Txid : rpc[x] = "done" => rpc'[x] = "done"
          /\ \A x \in Txid : x \in my_pending' => x \in my_pending \/ rpc[x] # "done"
      BY <1>1, <1>4
    <3>2. t \notin Subtracted
      BY <1>1, Typed DEF Subtracted
    <3> QED
      BY <3>1, <3>2, Typed, RightShrinks
  <2>2. CASE c.subtract
    <3>1. \A a \in Addr : tally'[a] = tally[a] - (IF c.src = a THEN c.amount ELSE 0)
      BY <2>2, <1>1, <1>2, Typed
    <3>2. \A a \in Addr :
            /\ Owed(Subtracted, a) \in Nat
            /\ Owed(Subtracted \cup {t}, a) = Owed(Subtracted, a) + (IF c.src = a THEN c.amount ELSE 0)
      BY <2>1, OwedAdds, Zenon
    <3>3. (c.amount = 0 /\ Subtracted' = Subtracted) \/ Subtracted' = Subtracted \cup {t}
      <4>1. CASE c.amount = 0
        BY <4>1, <2>2, <1>1, <1>4 DEF Subtracted
      <4>2. CASE c.amount # 0
        BY <4>2, <2>2, <1>1, <1>4 DEF Subtracted
      <4> QED
        BY <4>1, <4>2
    <3>4. ASSUME NEW a \in Right'
          PROVE  tally'[a] = 0 - Owed(Subtracted', a)
      <4>1. tally[a] = 0 - Owed(Subtracted, a) /\ a \in Addr
        BY <2>1 DEF Owes
      <4>2. Owed(Subtracted', a) = Owed(Subtracted, a) + (IF c.src = a THEN c.amount ELSE 0)
        <5>1. /\ Owed(Subtracted, a) \in Nat
              /\ Owed(Subtracted \cup {t}, a) = Owed(Subtracted, a) + (IF c.src = a THEN c.amount ELSE 0)
          BY <4>1, <3>2, Zenon
        <5> HIDE DEF c
        <5>2. CASE Subtracted' = Subtracted \cup {t}
          BY <5>1, <5>2, Zenon
        <5>3. CASE c.amount = 0 /\ Subtracted' = Subtracted
          BY <5>1, <5>3
        <5> QED
          BY <5>2, <5>3, <3>3, Zenon
      <4> QED
        BY <4>1, <4>2, <3>1, <3>2, <1>2
    <3> QED
      BY <3>4, <1>6 DEF Owes
  <2>3. CASE ~ c.subtract
    <3>1. tally' = tally
      BY <2>3, <1>1
    <3>2. Subtracted' = Subtracted
      BY <2>3, <1>1, <1>4 DEF Subtracted
    <3> QED
      BY <3>1, <3>2, <2>1
  <2> QED
    BY <2>2, <2>3
<1> QED
  BY <1>1, <1>3, <1>5, <1>6, <1>7, <1>8, Typed, TypedBack

LEMMA InsertHolds ==
  ASSUME IInv, NEW t \in Txid, Insert(t)
  PROVE  IInv'
<1>1. /\ rpc[t] = "debited" /\ rpc' = [rpc EXCEPT ![t] = "done"]
      /\ my_pending' = my_pending \cup {t} /\ tally' = tally
      /\ mempool' = mempool /\ block' = block
      /\ connecting' = connecting /\ alive' = alive /\ torn' = torn
  BY DEF Insert
<1>2. rpc' \in [Txid -> {"new", "sent", "debited", "done"}]
  BY <1>1, Typed
<1>3. \A x \in Txid : rpc'[x] = IF x = t THEN "done" ELSE rpc[x]
  BY <1>1, Typed
<1>4. my_pending' \subseteq Txid /\ \A x \in my_pending' : rpc'[x] = "done"
  BY <1>1, <1>3, Typed
<1>5. NotYet'
  BY <1>1, <1>3, Typed DEF NotYet
<1>6. Subtracted' = Subtracted
  BY <1>1, <1>3 DEF Subtracted
<1>7. ~ torn' => Owes(tally', Subtracted', Right')
  <2>1. /\ \A x \in Txid : rpc[x] = "done" => rpc'[x] = "done"
        /\ \A x \in Txid : x \in my_pending' => x \in my_pending \/ rpc[x] # "done"
    BY <1>1, <1>3
  <2> QED
    BY <2>1, <1>1, <1>6, Typed, RightShrinks
<1> QED
  BY <1>1, <1>2, <1>4, <1>5, <1>7, Typed, TypedBack

\* A transaction that PendingDelete deletes was subtracted, or its sender is no
\* longer right.
LEMMA DeletedFacts ==
  ASSUME IInv, ~ torn, NEW S, S \subseteq my_pending, my_pending' = my_pending \ S, rpc' = rpc
  PROVE  /\ Owes(tally, Subtracted, Right') /\ Right' \in SUBSET Addr
         /\ \A x \in S : x \in Subtracted \/ Call[x].amount = 0 \/ Call[x].src \notin Right'
<1>1. /\ \A x \in Txid : rpc[x] = "done" => rpc'[x] = "done"
      /\ \A x \in Txid : x \in my_pending' => x \in my_pending \/ rpc[x] # "done"
  BY Zenon
<1>2. Owes(tally, Subtracted, Right') /\ Right' \in SUBSET Addr
  BY <1>1, Typed, RightShrinks
<1>3. ASSUME NEW x \in S, x \notin Subtracted, Call[x].amount # 0
      PROVE  Call[x].src \notin Right'
  <2>1. x \in Txid /\ x \in my_pending /\ rpc'[x] = "done" /\ x \notin my_pending'
    BY Typed
  <2>2. ~ Call[x].subtract
    BY <2>1, <1>3, Zenon DEF Subtracted
  <2>3. CreditedForNothing(Call[x].src)'
    BY <2>1, <2>2, <1>3, Zenon DEF CreditedForNothing
  <2> QED
    BY <2>3, Zenon DEF Right
<1> QED
  BY <1>2, <1>3, Zenon

\* PendingDelete in mastercore_handler_tx.
LEMMA HandlerTxHolds ==
  ASSUME IInv, NEW t \in Txid, HandlerTx(t)
  PROVE  IInv'
<1> DEFINE S == {t} \cap my_pending
<1>1. /\ block' = block \ {t} /\ tally' = AllCredited(S) /\ my_pending' = my_pending \ {t}
      /\ rpc' = rpc /\ mempool' = mempool
      /\ connecting' = connecting /\ alive' = alive /\ torn' = torn
  BY DEF HandlerTx
<1>2. S \subseteq Txid
  BY Typed
<1>3. NotYet'
  BY <1>1, Typed DEF NotYet
<1>4. tally' \in [Addr -> Int]
  BY <1>1, <1>2, Typed, AllCreditedInt
<1>5. Subtracted' = Subtracted \ S
  BY <1>1, Typed DEF Subtracted
<1>6. ~ torn' => Owes(tally', Subtracted', Right')
  <2> SUFFICES ASSUME ~ torn
               PROVE  Owes(AllCredited(S), Subtracted \ S, Right')
    BY <1>1, <1>5
  <2>1. S \subseteq my_pending /\ my_pending' = my_pending \ S
    BY <1>1
  <2> HIDE DEF S
  <2>2. /\ Owes(tally, Subtracted, Right') /\ Right' \in SUBSET Addr
        /\ \A x \in S : x \in Subtracted \/ Call[x].amount = 0 \/ Call[x].src \notin Right'
    BY <2>1, <1>1, DeletedFacts
  <2> QED
    BY <2>2, <1>2, AllCreditedOwes
<1>7. my_pending' \subseteq Txid /\ \A x \in my_pending' : rpc'[x] = "done"
  BY <1>1, Typed
<1>8. block' \subseteq Txid /\ block' \cap mempool' = {}
  BY <1>1, Typed
<1> QED
  BY <1>1, <1>3, <1>4, <1>6, <1>7, <1>8, Typed, TypedBack, Zenon

\* PendingCheck, as far as its loop gets.
LEMMA BlockEndHolds ==
  ASSUME IInv, BlockEnd
  PROVE  IInv'
<1>1. /\ block = {} /\ block' = {} /\ connecting' = FALSE
      /\ rpc' = rpc /\ mempool' = mempool /\ torn' = torn
  BY DEF BlockEnd
<1>2. NotYet'
  BY <1>1, Typed DEF NotYet
<1>3. CASE UNCHANGED <<tally, my_pending, alive>>
  <2>1. Subtracted' = Subtracted /\ Right' = Right
    BY <1>1, <1>3 DEF Subtracted, Right, CreditedForNothing
  <2> QED
    BY <2>1, <1>1, <1>2, <1>3, Typed, TypedBack, Zenon
<1>4. ASSUME NEW S \in SUBSET Gone,
             tally' = AllCredited(S), my_pending' = my_pending \ S, alive' \in BOOLEAN
      PROVE  IInv'
  <2>1. S \subseteq my_pending /\ S \subseteq Txid
    BY Typed DEF Gone
  <2>2. tally' \in [Addr -> Int]
    BY <2>1, <1>4, Typed, AllCreditedInt
  <2>3. Subtracted' = Subtracted \ S
    BY <2>1, <1>1, <1>4, Typed DEF Subtracted
  <2>4. ~ torn' => Owes(tally', Subtracted', Right')
    <3> SUFFICES ASSUME ~ torn
                 PROVE  Owes(AllCredited(S), Subtracted \ S, Right')
      BY <1>1, <1>4, <2>3
    <3>1. /\ Owes(tally, Subtracted, Right') /\ Right' \in SUBSET Addr
          /\ \A x \in S : x \in Subtracted \/ Call[x].amount = 0 \/ Call[x].src \notin Right'
      BY <2>1, <1>1, <1>4, DeletedFacts
    <3> QED
      BY <3>1, <2>1, AllCreditedOwes
  <2>5. my_pending' \subseteq Txid /\ \A x \in my_pending' : rpc'[x] = "done"
    BY <1>1, <1>4, Typed
  <2> QED
    BY <2>2, <2>4, <2>5, <1>1, <1>2, <1>4, Typed, TypedBack, Zenon
<1> QED
  BY <1>3, <1>4, Zenon DEF BlockEnd

\* A reorganisation clears the tally and the map together.
LEMMA ClearHolds ==
  ASSUME IInv, Clear
  PROVE  IInv'
<1>1. /\ tally' = [a \in Addr |-> 0] /\ my_pending' = {}
      /\ torn' = (torn \/ \E t \in Txid : rpc[t] = "debited")
      /\ rpc' = rpc /\ mempool' = mempool /\ block' = block
      /\ connecting' = connecting /\ alive' = alive
  BY DEF Clear
<1>2. tally' \in [Addr -> Int] /\ \A a \in Addr : tally'[a] = 0
  BY <1>1
<1>3. torn' \in BOOLEAN
  BY <1>1, Zenon
<1>4. NotYet'
  BY <1>1, Typed DEF NotYet
<1>5. ~ torn' => Owes(tally', Subtracted', Right')
  <2> SUFFICES ASSUME ~ torn'
               PROVE  Owes(tally', Subtracted', Right')
    OBVIOUS
  <2>1. ~ \E t \in Txid : rpc[t] = "debited"
    BY <1>1, Zenon
  <2>2. Subtracted' = {}
    BY <2>1, <1>1 DEF Subtracted
  <2>3. \A a \in Addr : Owed({}, a) = 0
    BY NothingOwed
  <2>4. \A a \in Right' : a \in Addr
    BY DEF Right
  <2> QED
    BY <2>2, <2>3, <2>4, <1>2 DEF Owes
<1> QED
  BY <1>1, <1>2, <1>3, <1>4, <1>5, Typed, TypedBack

\* Steps of blocks and of the mempool that leave tally and map alone.
LEMMA MempoolHolds ==
  ASSUME IInv,
         \/ \E S \in SUBSET mempool : BlockBegin(S)
         \/ \E t \in Txid : Dropped(t) \/ Returned(t)
         \/ UNCHANGED vars
  PROVE  IInv'
<1>1. rpc' = rpc /\ tally' = tally /\ my_pending' = my_pending /\ alive' = alive /\ torn' = torn
  BY DEF BlockBegin, Dropped, Returned, vars
<1>2. Subtracted' = Subtracted /\ Right' = Right
  BY <1>1 DEF Subtracted, Right, CreditedForNothing
<1> DEFINE Apart == /\ mempool' \subseteq Txid /\ block' \subseteq Txid /\ block' \cap mempool' = {}
                    /\ connecting' \in BOOLEAN /\ NotYet'
<1>3. Apart
  <2>1. ASSUME NEW S \in SUBSET mempool, BlockBegin(S)
        PROVE  Apart
    BY <2>1, Typed DEF BlockBegin, NotYet
  <2>2. ASSUME NEW t \in Txid, Dropped(t)
        PROVE  Apart
    BY <2>2, Typed DEF Dropped, NotYet
  <2>3. ASSUME NEW t \in Txid, Returned(t)
        PROVE  Apart
    <3>1. /\ rpc[t] # "new" /\ block = {} /\ block' = {} /\ connecting' = connecting
          /\ mempool' = mempool \cup {t}
      BY <2>3, Typed DEF Returned, NotYet
    <3> QED
      BY <3>1, <1>1, Typed DEF NotYet
  <2>4. CASE UNCHANGED vars
    BY <2>4, Typed DEF vars, NotYet
  <2> HIDE DEF Apart
  <2> QED
    BY <2>1, <2>2, <2>3, <2>4, Zenon
<1> QED
  BY <1>1, <1>2, <1>3, Typed, TypedBack

\* The tally of an address is minus what is pending, whatever the order of
\* calls, confirmations, checks and reorganisations, as long as none falls
\* between the two parts of PendingAdd, and until a cancellation of that
\* address that names an amount is deleted (PendingDelete).
THEOREM PendingCreditedBack == Spec => []CreditedBack
<1>1. IInv /\ [Next]_vars => IInv'
  BY BroadcastHolds, DebitHolds, InsertHolds, HandlerTxHolds, BlockEndHolds, ClearHolds,
     MempoolHolds, Zenon DEF Next
<1>2. IInv => CreditedBack
  BY DEF IInv, CreditedBack, Owes, Owed, Term, Right
<1> QED
  BY InitHolds, <1>1, <1>2, PTL DEF Spec
===============================================================================
