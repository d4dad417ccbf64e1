---------------------------- MODULE TokenLedger ----------------------------
(***************************************************************************)
(* What a token exchange promises to the holders of tokens, without a word *)
(* on offers, reserves or order books: tokens change hands in transfers    *)
(* of what the giver owns, and the only new ones are the Dev OMNI awarded  *)
(* to the Exodus address, AllReward of them at most.                       *)
(***************************************************************************)
EXTENDS Integers

CONSTANTS NumAddr, Property, MSC, InitBalance, Exodus, AllReward

VARIABLES held,     \* tokens each address owns of each property
          minted    \* Dev OMNI awarded so far

Init == held = InitBalance /\ minted = 0

Transfer(a, b, p, n) ==
  /\ n \in 1..held[a][p]
  /\ held' = [[held EXCEPT ![a][p] = @ - n] EXCEPT ![b][p] = @ + n]
  /\ UNCHANGED minted

Award(n) ==
  /\ minted + n <= AllReward
  /\ minted' = minted + n
  /\ held' = [held EXCEPT ![Exodus][MSC] = @ + n]

Next ==
  \/ \E a, b \in 1..NumAddr, p \in Property : \E n \in 1..held[a][p] : Transfer(a, b, p, n)
  \/ \E n \in 1..AllReward : Award(n)

Spec == Init /\ [][Next]_<<held, minted>>
=============================================================================
