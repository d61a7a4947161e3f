------------------------------ MODULE SetValuer ------------------------------
(***************************************************************************)
(* contracts/protocol/SetValuer.sol over the price oracle: what one         *)
(* SetToken is worth in a quote asset, from the units of its components,    *)
(* their decimals and the prices of the moment.                            *)
(***************************************************************************)
EXTENDS Vault

LOCAL INSTANCE FiniteSetsExt

CONSTANTS Prices,           \* what an oracle may report of each component; 0: no price
          baseUnits,        \* 10^decimals of each component
          masterQuoteAsset  \* the asset the oracle quotes in

ASSUME SetValuerAssumption ==
    /\ Prices \in [Components -> SUBSET Nat]
    /\ baseUnits \in [Components -> Nat \ {0}]

\* The prices an oracle may report at some moment, of each component in the
\* master quote asset.
Quotes ==
    {p \in [Components -> UNION {Prices[c] : c \in Components}] :
        \A c \in Components : p[c] \in Prices[c]}

\* Signed quotients are cut off towards zero.
preciseMulInt(a, b) == sdiv(a * b, PRECISE_UNIT)
preciseDivInt(a, b) == sdiv(a * PRECISE_UNIT, b)

getTotalComponentRealUnits(c) ==
    LET external(m) == getExternalPositionRealUnit(positions, c, m)
    IN  getDefaultPositionRealUnit(positions, c)
        + MapThenSumSet(external, Entries(positions.externalPositionModules[c]))

\* What a component contributes to the value of one SetToken.
componentValue(c, prices) ==
    preciseMulInt(preciseDivInt(getTotalComponentRealUnits(c), baseUnits[c]), prices[c])

\* The valuation, or none: a price is missing or the debts exceed the assets.
calculateSetTokenValuation(quoteAsset, prices) ==
    LET valued == Entries(positions.components)
        value(c) == componentValue(c, prices)
        inMaster == MapThenSumSet(value, valued)
        valuation == IF quoteAsset = masterQuoteAsset THEN inMaster
                     ELSE preciseDivInt(inMaster, prices[quoteAsset])
    IN  require(/\ \A c \in valued : prices[c] # 0
                /\ quoteAsset # masterQuoteAsset => prices[quoteAsset] # 0,
                {valuation} \cap Nat)

=============================================================================
