-------------------------------- MODULE Tally --------------------------------
(***************************************************************************)
(* The token ledger of Omni Core (tally.h, tally.cpp, and the functions of *)
(* omnicore.cpp that guard access to it).  mp_tally_map gives each address *)
(* a balance record per property, with one 64-bit amount per tally type.   *)
(* A ledger is a function T with T[address][property][tally type].         *)
(*                                                                         *)
(* Addresses are numbered: mp_tally_map is iterated in a fixed order.      *)
(* MaxInt stands for the largest int64_t.                                  *)
(***************************************************************************)
EXTENDS Sums

CONSTANTS NumAddr,      \* number of addresses
          Property,     \* property identifiers
          TallyType,    \* the tally types the modelled component uses
          MaxInt        \* the largest signed 64-bit integer

MSC  == 1               \* OMNI_PROPERTY_MSC
TMSC == 2               \* OMNI_PROPERTY_TMSC

\* The tally types getTotalTokens adds up.
HeldTypes == {"BALANCE", "SELLOFFER_RESERVE", "ACCEPT_RESERVE", "METADEX_RESERVE"}

AllTallyTypes ==
  HeldTypes \cup {"PENDING", "CONTRACTDEX_RESERVE", "POSSITIVE_BALANCE", "NEGATIVE_BALANCE",
                  "REALIZED_PROFIT", "REALIZED_LOSSES", "COUNT", "REMAINING", "LIQUIDATION_PRICE"}

ASSUME TallyAssumption ==
  /\ NumAddr \in Nat \ {0}
  /\ MaxInt \in Nat \ {0}
  /\ HeldTypes \subseteq TallyType
  /\ TallyType \subseteq AllTallyTypes

Addr   == 1..NumAddr
MinInt == -MaxInt - 1
Int64  == MinInt..MaxInt
Amount == 0..MaxInt

\* An int64_t read as a uint64_t, and back.
Unsigned(n) == n % (2 * (MaxInt + 1))
Signed(n)   == Unsigned(n + MaxInt + 1) - (MaxInt + 1)

Ledger == [Addr -> [Property -> [TallyType -> Int64]]]

\* What CMPTally permits: only pending amounts may be negative.
NonNegative(T) ==
  \A a \in Addr, p \in Property, t \in TallyType \ {"PENDING"} : T[a][p][t] >= 0

isOverflow(m, n) == m + n \notin Int64

(***************************************************************************)
(* update_tally_map: the update succeeds when CanUpdate, and only then     *)
(* changes the ledger.                                                     *)
(***************************************************************************)
\* Mutant: a debit may exceed the amount.
CanUpdateUncovered(T, a, p, t, n) ==
  n # 0 /\ ~ isOverflow(T[a][p][t], n)

CanUpdate(T, a, p, t, n) ==
  /\ n # 0
  /\ ~ isOverflow(T[a][p][t], n)
  /\ t = "PENDING" \/ T[a][p][t] + n >= 0

Updated(T, a, p, t, n) == [T EXCEPT ![a][p][t] = @ + n]

(***************************************************************************)
(* The idiom of every handler: a debit and a credit of n tokens, each in   *)
(* an assert.  Both asserts hold exactly when CanMove.                     *)
(***************************************************************************)
Moved(T, p, n, a, t, b, u) == Updated(Updated(T, a, p, t, -n), b, p, u, n)

CanMove(T, p, n, a, t, b, u) ==
  /\ CanUpdate(T, a, p, t, -n)
  /\ CanUpdate(Updated(T, a, p, t, -n), b, p, u, n)

\* What an address owns of a property, and getTotalTokens for a property
\* whose supply is not fixed (without the fee cache).
Holding(T, a, p) ==
  T[a][p]["BALANCE"] + T[a][p]["SELLOFFER_RESERVE"]
    + T[a][p]["ACCEPT_RESERVE"] + T[a][p]["METADEX_RESERVE"]

getTotalTokens(T, p) == SumUpTo([a \in Addr |-> Holding(T, a, p)], NumAddr)
==============================================================================
