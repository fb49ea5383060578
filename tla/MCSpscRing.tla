----------------------------- MODULE MCSpscRing -----------------------------
EXTENDS SpscRing

MCWords == {"w1", "w2"}
=============================================================================
