------------------------------ MODULE MCNAVFund ------------------------------
\* NAVFund for TLC: a stable coin with fewer decimals, which is the master quote
\* asset, and a component that is worth one or one and a half of it, or has no
\* price.
EXTENDS NAVFund

MCUnits == {3}
MCPrices == [c \in Components |-> IF c = masterQuoteAsset THEN {4} ELSE {0, 4, 6}]
MCBaseUnits == [c \in Components |-> IF c = masterQuoteAsset THEN 2 ELSE 4]
MCReserveLists == {<<c>> : c \in Components}

=============================================================================
