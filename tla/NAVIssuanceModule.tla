-------------------------- MODULE NAVIssuanceModule --------------------------
(***************************************************************************)
(* contracts/protocol/modules/v1/CustomOracleNAVIssuanceModule.sol: anyone  *)
(* exchanges one reserve asset for SetTokens and back at the SetToken's net *)
(* asset value.  No other component moves: their positions are diluted or   *)
(* concentrated through the multiplier, the reserve's unit is written anew. *)
(* The manager's hooks can only refuse; fee recipients are left out.        *)
(***************************************************************************)
EXTENDS SetValuer

CONSTANTS NAVFees,             \* percentages the manager may ask for
          Premiums,            \* premiums it may ask for
          MinSupplies,         \* minimal supplies the manager may ask for
          ReserveLists,        \* lists of reserve assets the manager may pass
          ProtocolDirectFee,   \* the protocol's fee on the reserve quantity
          ProtocolManagerShare \* its share of the manager's fee

ASSUME NAVAssumption ==
    /\ NAVFees \subseteq Nat
    /\ Premiums \subseteq Nat
    /\ MinSupplies \subseteq Nat
    /\ ReserveLists \subseteq Seq(Components)
    /\ ProtocolDirectFee \in Nat
    /\ ProtocolManagerShare \in Nat

VARIABLES navIssuanceSettings,
          isReserveAsset,
          isNAVModule  \* the module is INITIALIZED on the SetToken

navVars == <<navIssuanceSettings, isReserveAsset, isNAVModule>>

FeeIndex == {"issue", "redeem"}

NoNAVSettings ==
    [reserveAssets        |-> <<>>,
     managerFees          |-> [i \in FeeIndex |-> 0],
     maxManagerFee        |-> 0,
     premiumPercentage    |-> 0,
     maxPremiumPercentage |-> 0,
     minSetTokenSupply    |-> 0]

NAVInit ==
    /\ navIssuanceSettings = NoNAVSettings
    /\ isReserveAsset = [c \in Components |-> FALSE]
    /\ isNAVModule = FALSE

premium == navIssuanceSettings.premiumPercentage

-----------------------------------------------------------------------------
(***************************************************************************)
(* The quantities of an issuance or redemption.                            *)
(***************************************************************************)
getProtocolAndManagerFeePercentages(index) ==
    LET managerFee   == navIssuanceSettings.managerFees[index]
        revenueShare == preciseMul(ProtocolManagerShare, managerFee)
    IN  [protocol |-> revenueShare + ProtocolDirectFee,
         manager  |-> managerFee - revenueShare]

\* Protocol fees, manager fee and what is left of a reserve quantity; none if
\* the fees exceed it.
getFees(quantity, index) ==
    LET percentages  == getProtocolAndManagerFeePercentages(index)
        protocolFees == preciseMul(percentages.protocol, quantity)
        managerFee   == preciseMul(percentages.manager, quantity)
    IN  require(percentages.manager >= 0 /\ protocolFees + managerFee <= quantity,
                {[fees |-> protocolFees + managerFee,
                  net  |-> quantity - protocolFees - managerFee]})

\* Faulty variant for mutation: the premium is not left out of what is minted.
getSetTokenMintQuantityWhole(reserve, net, prices) ==
    {preciseDiv(preciseMul(preciseDiv(net, baseUnits[reserve]), totalSupply),
                preciseMul(totalSupply, valuation)) :
        valuation \in {v \in calculateSetTokenValuation(reserve, prices) :
                         preciseMul(totalSupply, v) > 0}}

getSetTokenMintQuantity(reserve, net, prices) ==
    LET lessPremium == net - preciseMul(net, premium)
        normalizedNet == preciseDiv(net, baseUnits[reserve])
        normalizedLessPremium == preciseDiv(lessPremium, baseUnits[reserve])
        denominator(valuation) == preciseMul(totalSupply, valuation)
                                  + normalizedNet - normalizedLessPremium
    IN  {preciseDiv(preciseMul(normalizedLessPremium, totalSupply), denominator(v)) :
            v \in {w \in calculateSetTokenValuation(reserve, prices) : denominator(w) > 0}}

getRedeemReserveQuantity(reserve, quantity, prices) ==
    LET whole(v) == preciseMul(preciseMul(quantity, v), baseUnits[reserve])
    IN  {whole(v) - preciseMulCeil(whole(v), premium) :
            v \in calculateSetTokenValuation(reserve, prices)}

\* Faulty variant for mutation: the multiplier is rounded up.
getNewPositionMultiplierUp(newSupply) ==
    (positions.positionMultiplier * totalSupply + newSupply - 1) \div newSupply

\* What both directions multiply every position by.
getNewPositionMultiplier(newSupply) ==
    sdiv(positions.positionMultiplier * totalSupply, newSupply)

getIssuePositionUnit(reserve, net, newSupply) ==
    preciseDiv(getDefaultTrackedBalance(positions, totalSupply, reserve) + net, newSupply)

\* Faulty variant for mutation: the fees do not leave the position.
getRedeemPositionUnitNet(reserve, outflow, net, newSupply) ==
    LET tracked == getDefaultTrackedBalance(positions, totalSupply, reserve)
    IN  require(tracked >= outflow, {preciseDiv(tracked - net, newSupply)})

getRedeemPositionUnit(reserve, outflow, net, newSupply) ==
    LET tracked == getDefaultTrackedBalance(positions, totalSupply, reserve)
    IN  require(tracked >= outflow, {preciseDiv(tracked - outflow, newSupply)})

\* The ways to issue for a quantity of the reserve, one or none.
IssueInfos(reserve, quantity, prices) ==
    UNION {{[net |-> f.net, newSupply |-> totalSupply + minted] :
              minted \in getSetTokenMintQuantity(reserve, f.net, prices)} :
           f \in getFees(quantity, "issue")}

\* The ways to redeem a quantity of SetTokens, one or none.
RedeemInfos(reserve, quantity, prices) ==
    LET newSupply == totalSupply - quantity IN
    IF newSupply <= 0 THEN {}
    ELSE UNION {{[outflow |-> f.fees + f.net, net |-> f.net, newSupply |-> newSupply,
                  newUnit |-> u] :
                   u \in getRedeemPositionUnit(reserve, f.fees + f.net, f.net, newSupply)} :
                f \in UNION {getFees(q, "redeem") :
                               q \in getRedeemReserveQuantity(reserve, quantity, prices)}}

-----------------------------------------------------------------------------
(***************************************************************************)
(* Issuance and redemption; the variants for Ether differ in the transfer   *)
(* only.                                                                   *)
(***************************************************************************)
rescaled(newSupply) ==
    editPositionMultiplier(positions, getNewPositionMultiplier(newSupply))

navIssue(reserve, quantity, prices) ==
    /\ isNAVModule
    /\ quantity > 0
    /\ isReserveAsset[reserve]
    /\ totalSupply >= navIssuanceSettings.minSetTokenSupply
    /\ totalSupply > 0
    /\ \E info \in IssueInfos(reserve, quantity, prices) :
         LET newUnit == getIssuePositionUnit(reserve, info.net, info.newSupply)
             edit(p) == editDefaultPosition(p, reserve, newUnit)
         IN  /\ info.newSupply <= MaxSupply
             /\ balances[reserve] + info.net <= MaxBalance
             /\ positions' \in Then(rescaled(info.newSupply), edit)
             /\ balances' = [balances EXCEPT ![reserve] = @ + info.net]
             /\ totalSupply' = info.newSupply
    /\ UNCHANGED navVars

navRedeem(reserve, quantity, prices) ==
    /\ isNAVModule
    /\ quantity > 0
    /\ isReserveAsset[reserve]
    /\ \E info \in RedeemInfos(reserve, quantity, prices) :
         LET edit(p) == editDefaultPosition(p, reserve, info.newUnit)
         IN  /\ info.newSupply >= navIssuanceSettings.minSetTokenSupply
             /\ info.outflow <= balances[reserve]
             /\ positions' \in Then(rescaled(info.newSupply), edit)
             /\ balances' = [balances EXCEPT ![reserve] = @ - info.outflow]
             /\ totalSupply' = info.newSupply
    /\ UNCHANGED navVars

-----------------------------------------------------------------------------
(***************************************************************************)
(* The manager's settings.                                                 *)
(***************************************************************************)
addReserveAsset(c) ==
    /\ isNAVModule
    /\ ~isReserveAsset[c]
    /\ navIssuanceSettings' = [navIssuanceSettings EXCEPT !.reserveAssets = Append(@, c)]
    /\ isReserveAsset' = [isReserveAsset EXCEPT ![c] = TRUE]
    /\ UNCHANGED <<vaultVars, isNAVModule>>

removeReserveAsset(c) ==
    /\ isNAVModule
    /\ isReserveAsset[c]
    /\ navIssuanceSettings' =
         [navIssuanceSettings EXCEPT !.reserveAssets = remove(@, c)]
    /\ isReserveAsset' = [isReserveAsset EXCEPT ![c] = FALSE]
    /\ UNCHANGED <<vaultVars, isNAVModule>>

editPremium(percentage) ==
    /\ isNAVModule
    /\ percentage <= navIssuanceSettings.maxPremiumPercentage
    /\ navIssuanceSettings' = [navIssuanceSettings EXCEPT !.premiumPercentage = percentage]
    /\ UNCHANGED <<vaultVars, isReserveAsset, isNAVModule>>

editManagerFee(percentage, index) ==
    /\ isNAVModule
    /\ percentage <= navIssuanceSettings.maxManagerFee
    /\ navIssuanceSettings' =
         [navIssuanceSettings EXCEPT !.managerFees[index] = percentage]
    /\ UNCHANGED <<vaultVars, isReserveAsset, isNAVModule>>

\* The flags are set one by one: a repeated asset, or one whose flag is still
\* set, reverts.
initializeNAV(assets, fees, maxFee, premiumNow, maxPremium, minSupply) ==
    /\ ~isNAVModule
    /\ assets # <<>>
    /\ ~hasDuplicate(assets)
    /\ \A c \in Entries(assets) : ~isReserveAsset[c]
    /\ maxFee < PRECISE_UNIT
    /\ maxPremium < PRECISE_UNIT
    /\ \A i \in FeeIndex : fees[i] <= maxFee
    /\ premiumNow <= maxPremium
    /\ minSupply > 0
    /\ navIssuanceSettings' =
         [reserveAssets        |-> assets,
          managerFees          |-> fees,
          maxManagerFee        |-> maxFee,
          premiumPercentage    |-> premiumNow,
          maxPremiumPercentage |-> maxPremium,
          minSetTokenSupply    |-> minSupply]
    /\ isReserveAsset' = [c \in Components |-> isReserveAsset[c] \/ contains(assets, c)]
    /\ isNAVModule' = TRUE
    /\ UNCHANGED vaultVars

\* The SetToken calls the module back when the manager removes it.
removeNAV ==
    /\ isNAVModule
    /\ isReserveAsset' = [c \in Components |->
                            /\ isReserveAsset[c]
                            /\ ~contains(navIssuanceSettings.reserveAssets, c)]
    /\ navIssuanceSettings' = NoNAVSettings
    /\ isNAVModule' = FALSE
    /\ UNCHANGED vaultVars

=============================================================================
