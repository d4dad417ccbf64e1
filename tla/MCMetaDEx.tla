------------------------------ MODULE MCMetaDEx ------------------------------
\* Instances of MetaDEx for TLC.
EXTENDS MetaDEx

MCTallyType == HeldTypes

\* Two traders; the second holds more OMNI and TOMNI and gets more of a distribution.
MCPair == [a \in Addr |-> [p \in Property |-> IF p \in {MSC, TMSC} THEN a ELSE 4]]

\* Each trader sells one property for the other.
MCBothWays == {<<1, 3, 4>>, <<2, 4, 3>>}

\* The same, a pair with OMNI, and one of the test ecosystem.
MCMixed == MCBothWays \cup {<<1, 1, 3>>, <<1, 2, 5>>}
==============================================================================
