--------------------------- MODULE StakingModule ---------------------------
(***************************************************************************)
(* contracts/protocol/modules/v1/StakingModule.sol: the manager stakes     *)
(* components in staking contracts, position unit by position unit; the    *)
(* issuance module's hooks replicate and unwind the stakes.  A staking     *)
(* contract pays out no more than it holds for the SetToken.  Adapters     *)
(* only translate calls and are left out.                                  *)
(***************************************************************************)
EXTENDS Vault, Functions, FiniteSets

CONSTANTS Staking,           \* this module, as owner of external positions
          StakingContracts

ASSUME StakingAssumption ==
    /\ Staking \in Modules \ PerpModules
    /\ IsFiniteSet(StakingContracts)

VARIABLES stakingPositions,  \* per component: the staking contracts listed, and
                             \* the position units staked in each
          staked,            \* what the staking contracts hold for the SetToken
          isStakingModule    \* the module is INITIALIZED on the SetToken

stakingVars == <<stakingPositions, staked, isStakingModule>>

StakingInit ==
    /\ stakingPositions = [c \in Components |->
            [stakingContracts |-> <<>>, units |-> [k \in StakingContracts |-> 0]]]
    /\ staked = [c \in Components |-> [k \in StakingContracts |-> 0]]
    /\ isStakingModule = FALSE

-----------------------------------------------------------------------------
hasStakingPosition(c, k) == contains(stakingPositions[c].stakingContracts, k)

getStakingPositionUnit(c, k) == stakingPositions[c].units[k]

\* The SetToken's positions after the module's external unit in c grows by
\* units at the expense of the default unit (both may be negative growth).
Shifted(c, units) ==
    LET default == getDefaultPositionRealUnit(positions, c) - units
        external(p) == editExternalPosition(p, c, Staking,
                           getExternalPositionRealUnit(p, c, Staking) + units, NoData)
    IN  require(default >= 0, Then(editDefaultPosition(positions, c, default), external))

updateStakeState(c, k, units) ==
    [stakingPositions EXCEPT
        ![c].stakingContracts = IF hasStakingPosition(c, k) THEN @ ELSE Append(@, k),
        ![c].units[k] = IF hasStakingPosition(c, k) THEN @ + units ELSE units]

stake(c, k, units) ==
    LET notional == getDefaultTotalNotional(totalSupply, units)
    IN  /\ isStakingModule
        /\ hasSufficientDefaultUnits(positions, c, units)
        /\ notional <= balances[c]
        /\ balances' = [balances EXCEPT ![c] = @ - notional]
        /\ staked' = [staked EXCEPT ![c][k] = @ + notional]
        /\ stakingPositions' = updateStakeState(c, k, units)
        /\ positions' \in Shifted(c, units)
        /\ UNCHANGED <<totalSupply, isStakingModule>>

\* Faulty variant for mutation: the units are not reduced.
updateUnstakeStateWhole(c, k, units) ==
    IF getStakingPositionUnit(c, k) > units THEN stakingPositions
    ELSE [stakingPositions EXCEPT ![c].stakingContracts = remove(@, k),
                                  ![c].units[k] = 0]

\* A contract whose last unit is unstaked is no longer listed.
updateUnstakeState(c, k, units) ==
    IF getStakingPositionUnit(c, k) > units
    THEN [stakingPositions EXCEPT ![c].units[k] = @ - units]
    ELSE [stakingPositions EXCEPT ![c].stakingContracts = remove(@, k),
                                  ![c].units[k] = 0]

\* remove reverts when the contract is not listed.
unstake(c, k, units) ==
    LET notional == getDefaultTotalNotional(totalSupply, units)
    IN  /\ isStakingModule
        /\ getStakingPositionUnit(c, k) >= units
        /\ getStakingPositionUnit(c, k) = units => hasStakingPosition(c, k)
        /\ notional <= staked[c][k]
        /\ balances' = [balances EXCEPT ![c] = @ + notional]
        /\ balances'[c] <= MaxBalance
        /\ staked' = [staked EXCEPT ![c][k] = @ - notional]
        /\ stakingPositions' = updateUnstakeState(c, k, units)
        /\ positions' \in Shifted(c, -units)
        /\ UNCHANGED <<totalSupply, isStakingModule>>

\* Faulty variant for mutation: the first contract listed is skipped.
HookNotionalSkipping(c, k, quantity) ==
    IF /\ isExternalPositionModule(positions, c, Staking) /\ hasStakingPosition(c, k)
       /\ stakingPositions[c].stakingContracts[1] # k
    THEN getDefaultTotalNotional(quantity, getStakingPositionUnit(c, k))
    ELSE 0

\* What componentIssueHook stakes, and componentRedeemHook unstakes, in each
\* contract for a quantity of SetTokens.
HookNotional(c, k, quantity) ==
    IF isExternalPositionModule(positions, c, Staking) /\ hasStakingPosition(c, k)
    THEN getDefaultTotalNotional(quantity, getStakingPositionUnit(c, k))
    ELSE 0

componentHook(c, quantity) ==
    SumFunction([k \in StakingContracts |-> HookNotional(c, k, quantity)])

initializeStaking ==
    /\ ~isStakingModule
    /\ isStakingModule' = TRUE
    /\ UNCHANGED <<vaultVars, stakingPositions, staked>>

\* Faulty variant for mutation: open positions are not looked for.
removeStakingAnyTime ==
    /\ isStakingModule
    /\ isStakingModule' = FALSE
    /\ UNCHANGED <<vaultVars, stakingPositions, staked>>

\* Reverts while a staking contract is listed for a component of the SetToken.
removeStaking ==
    /\ isStakingModule
    /\ \A c \in Entries(positions.components) :
            Len(stakingPositions[c].stakingContracts) = 0
    /\ isStakingModule' = FALSE
    /\ UNCHANGED <<vaultVars, stakingPositions, staked>>

=============================================================================
