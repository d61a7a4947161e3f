------------------------------- MODULE Fund -------------------------------
(***************************************************************************)
(* One SetToken with the BasicIssuanceModule, the TradeModule and the      *)
(* StreamingFeeModule: issuers and redeemers, the manager's trades, fee    *)
(* accrual by anyone and donations interleave in any order.  The question  *)
(* is whether the component balances always back the position units.       *)
(***************************************************************************)
EXTENDS BasicIssuanceModule, TradeModule, StreamingFeeModule

CONSTANT Units  \* units per SetToken that a trade may name

ASSUME FundAssumption == Units \subseteq Nat

fundVars == <<vaultVars, feeVars>>

FundInit == VaultInit /\ StreamingFeeInit

Issuance ==
    /\ \E q \in 1..MaxSupply : issue(q) \/ redeem(q)
    /\ UNCHANGED feeVars

Trading ==
    /\ \E s, r \in Components, u, w \in Units : trade(s, u, r, w)
    /\ UNCHANGED feeVars

Donation ==
    /\ \E c \in Components, q \in 1..MaxBalance : donate(c, q)
    /\ UNCHANGED feeVars

FeeStreaming ==
    \/ tick
    \/ accrueFee
    \/ \E f \in Fees : updateStreamingFee(f)
    \/ \E x, f \in Fees : initializeStreamingFee(x, f)
    \/ removeStreamingFee

FundNext == Issuance \/ Trading \/ Donation \/ FeeStreaming

FundSpec == FundInit /\ [][FundNext]_fundVars

-----------------------------------------------------------------------------
\* Every variable keeps its Solidity type.
FundTypeOK ==
    /\ positions \in StorageType
    /\ balances \in [Components -> Nat]
    /\ totalSupply \in Nat
    /\ now \in Nat
    /\ isFeeModule \in BOOLEAN
    /\ feeState \in [maxStreamingFeePercentage : Nat,
                     streamingFeePercentage : Nat,
                     lastStreamingFeeTimestamp : Nat]

\* The SetToken's balances cover every position at its real unit times the
\* supply, so that the whole supply can be redeemed.
FullyCollateralized == \A c \in Components : Surplus(c) >= 0

\* Until a streaming fee is charged, issuance, redemption, trades (with any
\* outcome of the exchange) and donations leave every position backed:
\* issue rounds up, redeem down, and a trade derives the unit from the
\* balance it really left.
CollateralizedUntilFee ==
    positions.positionMultiplier = PRECISE_UNIT => FullyCollateralized

\* Only a fee accrual can shrink a surplus.  In particular a trade never
\* turns airdropped tokens into position units, and no rounding in favour of
\* an issuer or a redeemer eats into what the others own.
SurplusKept ==
    [][positions'.positionMultiplier = positions.positionMultiplier =>
         \A c \in Components : Surplus(c)' >= Surplus(c)]_fundVars

\* A fee accrual never raises what the supply as a whole may claim: the
\* multiplier falls at least as much as the supply grows, rounding included.
AccrualConservesClaims ==
    [][positions'.positionMultiplier # positions.positionMultiplier =>
         positions'.positionMultiplier * totalSupply'
             <= positions.positionMultiplier * totalSupply]_fundVars

\* The manager's commitment: the fee never exceeds the maximum, the maximum
\* stays what it was at initialization until the module is removed, and a new
\* fee never applies to time that passed before it was set.
FeeCommitment ==
    [][/\ isFeeModule' => feeState'.streamingFeePercentage
                             <= feeState'.maxStreamingFeePercentage
       /\ isFeeModule /\ isFeeModule' => feeState'.maxStreamingFeePercentage
                                            = feeState.maxStreamingFeePercentage
       /\ feeState'.streamingFeePercentage # feeState.streamingFeePercentage
             => ~isFeeModule' \/ feeState'.lastStreamingFeeTimestamp = now]_fundVars

=============================================================================
