---------------------------- MODULE MCStakedFund ----------------------------
\* StakedFund for TLC.
EXTENDS StakedFund, TLC

MCUnits == 0..3

MCExact == {0}

MCSymmetry == Permutations(StakingContracts)

MCOffByOne == -1..1

=============================================================================
