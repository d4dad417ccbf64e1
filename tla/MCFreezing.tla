------------------------------ MODULE MCFreezing ------------------------------
EXTENDS Freezing

MCTallyType == HeldTypes
===============================================================================
