------------------------------- MODULE MCDEx -------------------------------
EXTENDS DEx

MCTallyType == HeldTypes

\* Address 1 starts with all tokens: three OMNI; or one OMNI and one TOMNI.
ThreeOmni  == [a \in Addr |-> [p \in Property |-> IF a = 1 /\ p = MSC THEN 3 ELSE 0]]
OneOfEach  == [a \in Addr |-> [p \in Property |-> IF a = 1 THEN 1 ELSE 0]]

\* Prices, one of them a uint64_t that is negative as an int64_t.
WideDesired == {-2, 1, 4}
=============================================================================
