-------------------------------- MODULE Sums --------------------------------
(***************************************************************************)
(* The sum of f[1], ..., f[n].  The accounting of the token ledger is      *)
(* stated with it: getTotalTokens in omnicore.cpp adds up the balance      *)
(* records of every address, and the accept reserve of a seller is the sum *)
(* of what the open accepts of all buyers still hold.                      *)
(***************************************************************************)
EXTENDS Integers

SumUpTo(f, n) ==
  LET s[i \in 0..n] == IF i = 0 THEN 0 ELSE s[i - 1] + f[i]
  IN  s[n]
=============================================================================
