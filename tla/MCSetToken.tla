---------------------------- MODULE MCSetToken ----------------------------
\* SetToken for TLC: units around zero and a coarse PRECISE_UNIT, where every
\* multiplier but PRECISE_UNIT itself rounds; two components, so that closing
\* one position meets the other's, and two modules, of which one can go.
EXTENDS SetToken, TLC

MCRealUnits == -1..1

MCMultipliers == {1, 2, 3}

MCSymmetry == Permutations(Components)

=============================================================================
