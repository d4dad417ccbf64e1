------------------------------- MODULE MCFees --------------------------------
\* Instances of Fees for TLC.
EXTENDS Fees

MCTallyType == HeldTypes

\* Three owners, the last with most OMNI, a managed property at the first two,
\* who also sell it.
MCBalances ==
  [a \in Addr |-> [p \in Property |-> IF p \in {MSC, TMSC} THEN a ELSE IF a < 3 THEN 2 ELSE 0]]
MCReserves ==
  [a \in Addr |-> [p \in Property |-> IF p \in {MSC, TMSC} \/ a = 3 THEN 0 ELSE 2]]

\* Sends of OMNI and of the managed property, of both versions.
MCSends == {<<3, 1, 1, 1, 0>>, <<2, 1, 1, 1, 1>>, <<1, 3, 2, 1, 1>>}
MCFills == {<<1, 2, 3, 2, 1>>, <<2, 3, 3, 2, 1>>}
MCIssues == {<<1, 3, 1>>}

\* Sends in the test ecosystem.
MCTestSends == {<<3, 2, 1, 2, 0>>, <<3, 2, 1, 2, 1>>}
==============================================================================
