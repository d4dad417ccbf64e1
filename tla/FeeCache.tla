------------------------------ MODULE FeeCache -------------------------------
(***************************************************************************)
(* The fee cache of Omni Core (fees.cpp).  Fees are collected per property *)
(* and handed out to the owners of OMNI, or of TOMNI for properties of the *)
(* test ecosystem, when they reach a threshold.                            *)
(***************************************************************************)
EXTENDS Owners

CONSTANTS TestProperty,   \* properties of the test ecosystem, TOMNI included
          FeeThreshold    \* OMNI_FEE_THRESHOLD

ASSUME FeeCacheAssumption ==
  /\ TestProperty \subseteq Property /\ MSC \notin TestProperty
  /\ TMSC \in Property => TMSC \in TestProperty
  /\ FeeThreshold \in Nat \ {0}

\* OMNI or TOMNI, by the ecosystem of the property.
FeeTarget(p) == IF p \in TestProperty THEN TMSC ELSE MSC

\* UpdateDistributionThresholds.
DistributionThreshold(total) ==
  IF total \div FeeThreshold <= 0 THEN 1 ELSE total \div FeeThreshold

(***************************************************************************)
(* EvalCache and DistributeCache on cached amounts c, with threshold t for *)
(* property p: the ledger and the cache afterwards, and whether the        *)
(* asserts hold.                                                           *)
(***************************************************************************)
EvalCache(T, c, p, t) ==
  LET share == STO_GetReceivers(T, 0, FeeTarget(p), c[p])
  IN  IF c[p] >= t
        THEN [tally  |-> SharesCredited(T, p, share),
              cached |-> [c EXCEPT ![p] = 0],
              ok     |-> CanCredit(T, p, share) /\ SumUpTo(share, NumAddr) = c[p]]
        ELSE [tally |-> T, cached |-> c, ok |-> TRUE]

\* Mutant: the fee is not added to what is cached already.
AddFeeForgetful(T, c, p, t, n) == EvalCache(T, [c EXCEPT ![p] = n], p, t)

\* AddFee: n tokens of property p enter the cache.
AddFee(T, c, p, t, n) == EvalCache(T, [c EXCEPT ![p] = @ + n], p, t)
==============================================================================
