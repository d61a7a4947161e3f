------------------------ MODULE DebtIssuanceModule ------------------------
(***************************************************************************)
(* contracts/protocol/modules/v1/DebtIssuanceModule.sol: issuance and      *)
(* redemption of SetTokens with external positions.  Equity is what the    *)
(* default and the positive external positions make up, debt what the      *)
(* others do.  Modules with an external position in a component replicate  *)
(* or unwind it in a hook while the SetToken holds the component.          *)
(*                                                                         *)
(* The hooks are parameters: issueHook[c] is the amount of c that one      *)
(* round of componentIssueHooks moves out of the SetToken, redeemHook[c]   *)
(* what one round of componentRedeemHooks brings back.                     *)
(* The manager's pre-issue hook can only refuse.                           *)
(***************************************************************************)
EXTENDS Vault, Functions

CONSTANTS ManagerFees,      \* fees the manager may ask for
          ProtocolFeeSplit  \* the Controller's share of them

ASSUME DebtIssuanceAssumption ==
    /\ ManagerFees \subseteq Nat
    /\ ProtocolFeeSplit \in 0..PRECISE_UNIT

VARIABLES issuanceSettings,  \* the fees, without their recipient
          isIssuanceModule   \* the module is INITIALIZED on the SetToken

issuanceVars == <<issuanceSettings, isIssuanceModule>>

NoSettings == [maxManagerFee |-> 0, managerIssueFee |-> 0, managerRedeemFee |-> 0]

DebtIssuanceInit ==
    /\ issuanceSettings = NoSettings
    /\ isIssuanceModule = FALSE

-----------------------------------------------------------------------------
totalFee(rate, quantity) == preciseMul(rate, quantity)

\* _resolveFees: the protocol's share is only minted when the manager's is
\* not zero.
MintedFees(rate, quantity) ==
    LET fee == totalFee(rate, quantity)
    IN  IF fee > preciseMul(fee, ProtocolFeeSplit) THEN fee ELSE 0

ExternalUnit(c, m) == getExternalPositionRealUnit(positions, c, m)

EquityUnit(c) ==
    getDefaultPositionRealUnit(positions, c)
        + SumFunction([m \in Entries(positions.externalPositionModules[c]) |->
                         IF ExternalUnit(c, m) > 0 THEN ExternalUnit(c, m) ELSE 0])

DebtUnit(c) ==
    SumFunction([m \in Entries(positions.externalPositionModules[c]) |->
                   IF ExternalUnit(c, m) > 0 THEN 0 ELSE -ExternalUnit(c, m)])

\* Faulty variant for mutation: equity is rounded down on issuance.
EquityInFloor(c, quantity) ==
    IF isComponent(positions, c) THEN preciseMul(EquityUnit(c), quantity) ELSE 0

\* What the issuer of a quantity, fees included, sends in and receives, and
\* what the redeemer of a quantity, net of fees, receives and sends in.
EquityIn(c, quantity) ==
    IF isComponent(positions, c) THEN preciseMulCeil(EquityUnit(c), quantity) ELSE 0

DebtOut(c, quantity) ==
    IF isComponent(positions, c) THEN preciseMul(DebtUnit(c), quantity) ELSE 0

EquityOut(c, quantity) ==
    IF isComponent(positions, c) THEN preciseMul(EquityUnit(c), quantity) ELSE 0

DebtIn(c, quantity) ==
    IF isComponent(positions, c) THEN preciseMulCeil(DebtUnit(c), quantity) ELSE 0

\* The hooks of a component run once for its equity and once for its debt,
\* when there is some.
Rounds(equity, debt) ==
    (IF equity > 0 THEN 1 ELSE 0) + (IF debt > 0 THEN 1 ELSE 0)

\* SetTokens an issuance of a quantity is collateralized for, and those a
\* redemption pays out.
QuantityWithFees(quantity) ==
    quantity + totalFee(issuanceSettings.managerIssueFee, quantity)

QuantityNetFees(quantity) ==
    quantity - totalFee(issuanceSettings.managerRedeemFee, quantity)

-----------------------------------------------------------------------------
issue(quantity, issueHook) ==
    LET total == QuantityWithFees(quantity)
        after(c) == balances[c] + EquityIn(c, total) - DebtOut(c, total)
            - Rounds(EquityIn(c, total), DebtOut(c, total)) * issueHook[c]
    IN  /\ isIssuanceModule
        /\ quantity > 0
        /\ \A c \in Components : after(c) \in 0..MaxBalance
        /\ balances' = [c \in Components |-> after(c)]
        /\ totalSupply' = totalSupply + quantity
                            + MintedFees(issuanceSettings.managerIssueFee, quantity)
        /\ totalSupply' <= MaxSupply
        /\ UNCHANGED <<positions, issuanceVars>>

redeem(quantity, redeemHook) ==
    LET net == QuantityNetFees(quantity)
        after(c) == balances[c] + DebtIn(c, net) - EquityOut(c, net)
            + Rounds(EquityOut(c, net), DebtIn(c, net)) * redeemHook[c]
    IN  /\ isIssuanceModule
        /\ quantity > 0 /\ quantity <= totalSupply
        /\ net >= 0
        /\ \A c \in Components : after(c) \in 0..MaxBalance
        /\ balances' = [c \in Components |-> after(c)]
        /\ totalSupply' = totalSupply - quantity
                            + MintedFees(issuanceSettings.managerRedeemFee, quantity)
        /\ UNCHANGED <<positions, issuanceVars>>

updateIssueFee(newFee) ==
    /\ isIssuanceModule
    /\ newFee <= issuanceSettings.maxManagerFee
    /\ newFee # issuanceSettings.managerIssueFee
    /\ issuanceSettings' = [issuanceSettings EXCEPT !.managerIssueFee = newFee]
    /\ UNCHANGED <<vaultVars, isIssuanceModule>>

updateRedeemFee(newFee) ==
    /\ isIssuanceModule
    /\ newFee <= issuanceSettings.maxManagerFee
    /\ newFee # issuanceSettings.managerRedeemFee
    /\ issuanceSettings' = [issuanceSettings EXCEPT !.managerRedeemFee = newFee]
    /\ UNCHANGED <<vaultVars, isIssuanceModule>>

\* The manager adds and initializes the module.
initializeIssuance(maxFee, issueFee, redeemFee) ==
    /\ ~isIssuanceModule
    /\ issueFee <= maxFee /\ redeemFee <= maxFee
    /\ issuanceSettings' = [maxManagerFee |-> maxFee, managerIssueFee |-> issueFee,
                            managerRedeemFee |-> redeemFee]
    /\ isIssuanceModule' = TRUE
    /\ UNCHANGED vaultVars

\* No module is registered for the module hooks here.
removeIssuance ==
    /\ isIssuanceModule
    /\ issuanceSettings' = NoSettings
    /\ isIssuanceModule' = FALSE
    /\ UNCHANGED vaultVars

=============================================================================
