--------------------------- MODULE MCNodeActivation ---------------------------
\* Instances of NodeActivation for TLC.
EXTENDS NodeActivation, TLC

CONSTANTS b1, b2, b3, b4

\* One feature is live from block 2, the other is not scheduled.
MCInitialBlock == [f \in Feature |-> IF f = "metadex" THEN 2 ELSE Never]

\* Two announcements of one feature, one of them for a later client; the end of
\* a live feature; an announcement of a feature this client does not know.
MCTransaction ==
  (b1 :> [type |-> "activate", feature |-> "fees", block |-> 4, version |-> 2]) @@
  (b2 :> [type |-> "deactivate", feature |-> "metadex", block |-> 1, version |-> 1]) @@
  (b3 :> [type |-> "activate", feature |-> "fees", block |-> 5, version |-> 1]) @@
  (b4 :> [type |-> "activate", feature |-> "later", block |-> 4, version |-> 2])
===============================================================================
