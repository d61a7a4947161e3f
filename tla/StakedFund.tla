----------------------------- MODULE StakedFund -----------------------------
(***************************************************************************)
(* One SetToken whose components are partly staked: the StakingModule,     *)
(* either of the DebtIssuanceModules and the StreamingFeeModule.  Each     *)
(* module rounds its own products; the questions are what the roundings    *)
(* add up to and whether the two records of a stake, the SetToken's        *)
(* external position and the StakingModule's units, stay the same.         *)
(***************************************************************************)
EXTENDS DebtIssuanceModuleV2, StakingModule, StreamingFeeModule

CONSTANTS Versions,     \* 1: DebtIssuanceModule; 2: DebtIssuanceModuleV2
          StakeUnits,   \* units the manager stakes or unstakes
          MaxRoundings  \* bound on the number of issuances and stakes

ASSUME StakedFundAssumption ==
    /\ Versions \subseteq {1, 2}
    /\ StakeUnits \subseteq Nat
    /\ MaxRoundings \in Nat

VARIABLES version,   \* the issuance module of the SetToken
          roundings  \* history: the issuances and stakes so far

vars == <<vaultVars, issuanceVars, stakingVars, feeVars, version, roundings>>

Init ==
    /\ VaultInit /\ DebtIssuanceInit /\ StakingInit /\ StreamingFeeInit
    /\ version \in Versions
    /\ roundings = 0

-----------------------------------------------------------------------------
\* The staking contracts during an issuance and a redemption: the hooks run
\* for the quantities the issuance module computes.
StakedOnIssue(total) ==
    [c \in Components |-> [k \in StakingContracts |->
        staked[c][k] + Rounds(EquityIn(c, total), DebtOut(c, total))
                         * HookNotional(c, k, total)]]

StakedOnRedeem(net) ==
    [c \in Components |-> [k \in StakingContracts |->
        staked[c][k] - Rounds(EquityOut(c, net), DebtIn(c, net))
                         * HookNotional(c, k, net)]]

Hooks(quantity) == [c \in Components |-> componentHook(c, quantity)]

Errors == [Components -> TransferErrors]

Issuance(quantity) ==
    /\ roundings < MaxRoundings
    /\ \/ version = 1 /\ issue(quantity, Hooks(QuantityWithFees(quantity)))
       \/ /\ version = 2
          /\ \E in, out \in Errors :
                issueV2(quantity, Hooks(QuantityWithFees(quantity)), in, out)
    /\ staked' = StakedOnIssue(QuantityWithFees(quantity))
    /\ roundings' = roundings + 1
    /\ UNCHANGED <<stakingPositions, isStakingModule, feeVars, version>>

Redemption(quantity) ==
    /\ \/ version = 1 /\ redeem(quantity, Hooks(QuantityNetFees(quantity)))
       \/ /\ version = 2
          /\ \E in, out \in Errors :
                redeemV2(quantity, Hooks(QuantityNetFees(quantity)), in, out)
    /\ staked' = StakedOnRedeem(QuantityNetFees(quantity))
    /\ \A c \in Components, k \in StakingContracts : staked'[c][k] >= 0
    /\ UNCHANGED <<stakingPositions, isStakingModule, feeVars, version, roundings>>

Stake(c, k, units) ==
    /\ roundings < MaxRoundings
    /\ stake(c, k, units)
    /\ roundings' = roundings + 1
    /\ UNCHANGED <<issuanceVars, feeVars, version>>

Unstake(c, k, units) ==
    /\ unstake(c, k, units)
    /\ UNCHANGED <<issuanceVars, feeVars, version, roundings>>

StakingSettings ==
    /\ initializeStaking \/ removeStaking
    /\ UNCHANGED <<issuanceVars, feeVars, version, roundings>>

IssuanceSettings ==
    /\ \/ \E f \in ManagerFees : updateIssueFee(f) \/ updateRedeemFee(f)
       \/ \E x, i, r \in ManagerFees : initializeIssuance(x, i, r)
       \/ removeIssuance
    /\ UNCHANGED <<stakingVars, feeVars, version, roundings>>

FeeStreaming ==
    /\ \/ tick
       \/ accrueFee
       \/ \E f \in Fees : updateStreamingFee(f)
       \/ \E x, f \in Fees : initializeStreamingFee(x, f)
       \/ removeStreamingFee
    /\ UNCHANGED <<issuanceVars, stakingVars, version, roundings>>

Next ==
    \/ \E q \in 1..MaxSupply : Issuance(q) \/ Redemption(q)
    \/ \E c \in Components, k \in StakingContracts, u \in StakeUnits :
            Stake(c, k, u) \/ Unstake(c, k, u)
    \/ StakingSettings
    \/ IssuanceSettings
    \/ FeeStreaming

Spec == Init /\ [][Next]_vars

-----------------------------------------------------------------------------
StakingUnits(c) ==
    SumFunction([k \in StakingContracts |-> getStakingPositionUnit(c, k)])

AllStaked(c) == SumFunction([k \in StakingContracts |-> staked[c][k]])

\* The StakingModule's units for a component add up to the external position
\* the SetToken tracks for it, so that the hooks of an issuance stake, and
\* those of a redemption unstake, "only ... the notional amount required to
\* replicate a _setTokenQuantity amount of a position".
StakingUnitsMatch ==
    \A c \in Components :
        /\ StakingUnits(c) = getExternalPositionRealUnit(positions, c, Staking)
        /\ ~hasDuplicate(stakingPositions[c].stakingContracts)
        /\ \A k \in StakingContracts :
             getStakingPositionUnit(c, k) > 0 => hasStakingPosition(c, k)

\* With exact transfers, as DebtIssuanceModule asks for, what the SetToken
\* and the staking contracts hold together covers default and external
\* position at once: no interleaving of issuance, redemption, staking and
\* unstaking, each rounding for itself, loses a token of the holders.
StakeAndDefaultBacked ==
    version = 1 => \A c \in Components :
        (balances[c] + AllStaked(c)) * PRECISE_UNIT
            >= totalSupply * (getDefaultPositionRealUnit(positions, c)
                                + getExternalPositionRealUnit(positions, c, Staking))

\* A staking contract may hold less than the whole supply times the units
\* staked in it, which is what unstaking all of them asks for, but by no more
\* than one wei for each issuance and each stake.
ShortfallBounded ==
    \A c \in Components, k \in StakingContracts :
        getDefaultTotalNotional(totalSupply, getStakingPositionUnit(c, k))
            <= staked[c][k] + roundings

\* "Outstanding staking must be closed out first before removal": a SetToken
\* without the StakingModule has no external position of it.
RemovedWhenClosed ==
    ~isStakingModule => \A c \in Components :
        ~isExternalPositionModule(positions, c, Staking)

\* DebtIssuanceModuleV2's checks, whatever its transfers and hooks really
\* move: no issuance or redemption leaves a default position without full
\* backing that was fully backed before.  (DebtIssuanceModule has no such
\* check: the hook's rounding may leave the default position a wei short.)
DefaultStaysBacked ==
    [][version = 2 /\ totalSupply' # totalSupply /\ positions' = positions =>
         \A c \in Components : Surplus(c) >= 0 => Surplus(c)' >= 0]_vars

=============================================================================
