----------------------------- MODULE MCCrowdsale -----------------------------
\* Instances of Crowdsale for TLC.
EXTENDS Crowdsale

MCTallyType == HeldTypes

\* The second address owns the OMNI.
MCOmni == <<0, 4>>

\* A sale for OMNI, and one for the tokens of the first.
MCSales ==
  {[desired |-> 1, tokens |-> 4, deadline |-> 1, early |-> 10, percentage |-> 60],
   [desired |-> 3, tokens |-> 1, deadline |-> 2, early |-> 0, percentage |-> 60]}

MCSends == {<<2, 1, 1, 1>>, <<2, 1, 1, 2>>, <<1, 2, 3, 3>>, <<2, 1, 3, 1>>}
==============================================================================
