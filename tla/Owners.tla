------------------------------- MODULE Owners --------------------------------
(***************************************************************************)
(* The distribution of an amount to the owners of a property (sto.cpp), as *)
(* send to owners and the fee cache use it.                                *)
(***************************************************************************)
EXTENDS Tally

SmallerOf(m, n) == IF m < n THEN m ELSE n

CeilDiv(m, n) == IF m = 0 THEN 0 ELSE 1 + (m - 1) \div n      \* DivideAndRoundUp

(***************************************************************************)
(* STO_GetReceivers: what each owner of property p gets of n tokens when   *)
(* all owners but the sender are served, the largest first, with a share   *)
(* rounded up, until nothing is left.  Sender 0 excludes nobody.           *)
(***************************************************************************)
STO_GetReceivers(T, sender, p, n) ==
  LET owns  == [a \in Addr |-> IF a = sender THEN 0 ELSE Holding(T, a, p)]
      total == SumUpTo(owns, NumAddr)
      piece == [a \in Addr |-> IF owns[a] = 0 THEN 0 ELSE CeilDiv(owns[a] * n, total)]
      ServedBefore(b, a) == owns[b] > owns[a] \/ (owns[b] = owns[a] /\ b < a)
      sentBefore == [a \in Addr |->
        SumUpTo([b \in Addr |-> IF ServedBefore(b, a) THEN piece[b] ELSE 0], NumAddr)]
  IN  [a \in Addr |-> SmallerOf(piece[a], n - SmallerOf(n, sentBefore[a]))]

\* The shares of property p credited to their receivers.
SharesCredited(T, p, share) == [a \in Addr |-> [T[a] EXCEPT ![p]["BALANCE"] = @ + share[a]]]

CanCredit(T, p, share) ==
  \A a \in Addr : share[a] > 0 => CanUpdate(T, a, p, "BALANCE", share[a])
==============================================================================
