------------------------------ MODULE MCPending ------------------------------
\* Instances of Pending for TLC.
EXTENDS Pending

MCTallyType == HeldTypes \cup {"PENDING"}

\* Two sends from one address, a send and the cancellation of an order at its
\* price from another.
MCSends == <<[src |-> 1, amount |-> 2, subtract |-> TRUE],
             [src |-> 1, amount |-> 1, subtract |-> TRUE],
             [src |-> 2, amount |-> 1, subtract |-> TRUE],
             [src |-> 2, amount |-> 2, subtract |-> FALSE]>>
==============================================================================
