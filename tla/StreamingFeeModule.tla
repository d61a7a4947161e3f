------------------------- MODULE StreamingFeeModule -------------------------
(***************************************************************************)
(* contracts/protocol/modules/v1/StreamingFeeModule.sol: anyone may make   *)
(* the fee for the time elapsed accrue; it is paid by minting SetTokens    *)
(* and scaling every position down.  How the new SetTokens are shared      *)
(* between manager and protocol is left out: both shares are minted.       *)
(***************************************************************************)
EXTENDS Vault

CONSTANTS ONE_YEAR,  \* in units of block.timestamp
          Fees,      \* fee percentages the manager may ask for
          MaxTime    \* bound on block.timestamp

ASSUME StreamingFeeAssumption ==
    /\ ONE_YEAR \in Nat \ {0}
    /\ Fees \subseteq Nat
    /\ MaxTime \in Nat

VARIABLES now,        \* block.timestamp
          feeState,   \* the SetToken's FeeState, without its recipient
          isFeeModule \* the module is INITIALIZED on the SetToken

feeVars == <<now, feeState, isFeeModule>>

NoFeeState == [maxStreamingFeePercentage |-> 0, streamingFeePercentage |-> 0,
               lastStreamingFeeTimestamp |-> 0]

StreamingFeeInit ==
    /\ now = 0
    /\ feeState = NoFeeState
    /\ isFeeModule = FALSE

\* Blocks are mined.
tick ==
    /\ now < MaxTime
    /\ now' = now + 1
    /\ UNCHANGED <<vaultVars, feeState, isFeeModule>>

calculateStreamingFee ==
    ((now - feeState.lastStreamingFeeTimestamp) * feeState.streamingFeePercentage)
        \div ONE_YEAR

\* Faulty variant for mutation: the quotient is rounded up.
calculateStreamingFeeInflationUp(feePercentage) ==
    ((feePercentage * totalSupply) \div (PRECISE_UNIT - feePercentage)) + 1

calculateStreamingFeeInflation(feePercentage) ==
    (feePercentage * totalSupply) \div (PRECISE_UNIT - feePercentage)

\* Reverts once the fee for the time elapsed reaches 100%.
accrue ==
    IF feeState.streamingFeePercentage > 0
    THEN LET inflationFee == calculateStreamingFee
         IN  /\ inflationFee < PRECISE_UNIT
             /\ totalSupply' = totalSupply + calculateStreamingFeeInflation(inflationFee)
             /\ totalSupply' <= MaxSupply
             /\ positions' \in editPositionMultiplier(positions,
                    sdiv(positions.positionMultiplier * (PRECISE_UNIT - inflationFee),
                         PRECISE_UNIT))
    ELSE UNCHANGED <<positions, totalSupply>>

accrueFee ==
    /\ isFeeModule
    /\ accrue
    /\ feeState' = [feeState EXCEPT !.lastStreamingFeeTimestamp = now]
    /\ UNCHANGED <<balances, now, isFeeModule>>

\* Faulty variant for mutation: the fee is changed without an accrual.
updateStreamingFeeInPlace(newFee) ==
    /\ isFeeModule
    /\ newFee < feeState.maxStreamingFeePercentage
    /\ feeState' = [feeState EXCEPT !.streamingFeePercentage = newFee]
    /\ UNCHANGED <<vaultVars, now, isFeeModule>>

\* The fee for the time elapsed accrues at the old percentage first.
updateStreamingFee(newFee) ==
    /\ isFeeModule
    /\ newFee < feeState.maxStreamingFeePercentage
    /\ accrue
    /\ feeState' = [feeState EXCEPT !.lastStreamingFeeTimestamp = now,
                                    !.streamingFeePercentage = newFee]
    /\ UNCHANGED <<balances, now, isFeeModule>>

\* The manager adds and initializes the module.
initializeStreamingFee(maxFee, fee) ==
    /\ ~isFeeModule
    /\ maxFee < PRECISE_UNIT
    /\ fee <= maxFee
    /\ feeState' = [maxStreamingFeePercentage |-> maxFee,
                    streamingFeePercentage |-> fee,
                    lastStreamingFeeTimestamp |-> now]
    /\ isFeeModule' = TRUE
    /\ UNCHANGED <<vaultVars, now>>

\* The SetToken calls the module back when the manager removes it: the fee
\* since the last accrual is forgone.
removeStreamingFee ==
    /\ isFeeModule
    /\ feeState' = NoFeeState
    /\ isFeeModule' = FALSE
    /\ UNCHANGED <<vaultVars, now>>

=============================================================================
