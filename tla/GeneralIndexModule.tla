------------------------ MODULE GeneralIndexModule ------------------------
(***************************************************************************)
(* contracts/protocol/modules/v1/GeneralIndexModule.sol: the manager sets  *)
(* a target unit for every component, traders move the components towards  *)
(* their targets by swaps against WETH, a trade size and a cool-off period *)
(* at a time.                                                              *)
(*                                                                         *)
(* Setters take lists of components and values in the contract; here they  *)
(* take one pair at a time.  exchangeName and exchangeData only choose the *)
(* exchange, whose behaviour is Swaps below; a name the registry does not  *)
(* know makes a trade revert, which a behaviour may do anyway.             *)
(***************************************************************************)
EXTENDS Vault

CONSTANTS weth,              \* the component every trade is against
          IndexProtocolFee,  \* the protocol's share of what a trade receives
          TargetUnits,       \* target units the manager may ask for
          TradeSizes,        \* trade maximums the manager may ask for
          CoolOffPeriods,    \* cool-off periods the manager may ask for
          RaisePercentages,  \* raiseTargetPercentages the manager may ask for
          Rates,             \* rates of the exchange
          Traders,           \* accounts that trade, if they are permitted to
          EOAs,              \* those of them that are not contracts
          MaxTime            \* bound on block.timestamp

ASSUME IndexAssumption ==
    /\ weth \in Components
    /\ IndexProtocolFee \in Nat /\ IndexProtocolFee < PRECISE_UNIT
    /\ EOAs \subseteq Traders
    /\ MaxTime \in Nat
    /\ TargetUnits \cup TradeSizes \cup CoolOffPeriods \cup RaisePercentages
            \cup Rates \subseteq Nat

VARIABLES now,             \* block.timestamp
          executionInfo,   \* TradeExecutionParams of each component
          permissionInfo,  \* TradePermissionInfo
          rebalanceInfo,   \* RebalanceInfo
          isIndexModule    \* the module is INITIALIZED on the SetToken

indexVars == <<executionInfo, permissionInfo, rebalanceInfo, isIndexModule>>

NoExecutionInfo ==
    [targetUnit |-> 0, maxSize |-> 0, coolOffPeriod |-> 0, lastTradeTimestamp |-> 0]

NoPermissionInfo == [anyoneTrade |-> FALSE, tradersHistory |-> <<>>]

NoRebalanceInfo ==
    [positionMultiplier |-> 0, raiseTargetPercentage |-> 0, rebalanceComponents |-> <<>>]

\* tradeAllowList, a mapping inside TradePermissionInfo, is a field of its own:
\* deleting the struct does not delete it.
NoPermission == [info |-> NoPermissionInfo, tradeAllowList |-> {}]

currentUnit(c) == getDefaultPositionRealUnit(positions, c)

\* The module was initialized when the SetToken was created, and the manager
\* set trade sizes and permitted a trader.
IndexInit ==
    /\ isIndexModule = TRUE
    /\ \E size \in TradeSizes :
         executionInfo = [c \in Components |->
             [NoExecutionInfo EXCEPT !.maxSize = IF c = weth THEN 0 ELSE size,
                                     !.targetUnit = currentUnit(c)]]
    /\ rebalanceInfo = [NoRebalanceInfo EXCEPT
           !.positionMultiplier = positions.positionMultiplier]
    /\ \E trader \in Traders :
         permissionInfo = [info |-> [NoPermissionInfo EXCEPT !.tradersHistory = <<trader>>],
                           tradeAllowList |-> {trader}]

-----------------------------------------------------------------------------
(***************************************************************************)
(* Units and targets.                                                      *)
(***************************************************************************)
\* Reverts without a rebalance multiplier; every use states that as a guard.
getNormalizedTargetUnit(c) ==
    (executionInfo[c].targetUnit * positions.positionMultiplier)
        \div rebalanceInfo.positionMultiplier

currentNotional(c) == getDefaultTotalNotional(totalSupply, currentUnit(c))

targetNotional(c) == preciseMulCeil(totalSupply, getNormalizedTargetUnit(c))

\* _targetUnmet returns false: a buffer of one wei for the rounding of virtual
\* units, and WETH floats.  It returns true or, for a component of which there
\* is nothing yet, may revert otherwise; raiseAssetTargets does not tell them
\* apart.
targetMet(c) ==
    LET target == getNormalizedTargetUnit(c)
    IN  \/ c = weth
        \/ target > 0 /\ approximatelyEquals(target, currentUnit(c), 1)
        \/ target = 0 /\ currentUnit(c) = 0

allTargetsMet ==
    \A c \in Entries(rebalanceInfo.rebalanceComponents) : targetMet(c)

canSell(c) == c # weth /\ getNormalizedTargetUnit(c) < currentUnit(c)

noTokensToSell ==
    \A c \in Entries(rebalanceInfo.rebalanceComponents) : ~canSell(c)

isSendTokenFixed(c) == targetNotional(c) < currentNotional(c)

Least(a, b) == IF a < b THEN a ELSE b

\* Faulty variant for mutation: every trade has its maximum size.
maximumQuantity(c) == executionInfo[c].maxSize

\* Faulty variant for mutation: the fee is multiplied in, in both directions.
quantityLessFee(c) ==
    LET wanted == preciseMul(abs(targetNotional(c) - currentNotional(c)),
                             PRECISE_UNIT - IndexProtocolFee)
    IN  Least(wanted, executionInfo[c].maxSize)

\* What is bought is increased by the protocol's fee on it.
totalFixedQuantity(c) ==
    LET wanted == IF isSendTokenFixed(c)
                  THEN currentNotional(c) - targetNotional(c)
                  ELSE preciseDiv(targetNotional(c) - currentNotional(c),
                                  PRECISE_UNIT - IndexProtocolFee)
    IN  Least(wanted, executionInfo[c].maxSize)

-----------------------------------------------------------------------------
(***************************************************************************)
(* Trades.                                                                 *)
(***************************************************************************)
isAllowedTrader(trader) ==
    permissionInfo.info.anyoneTrade \/ trader \in permissionInfo.tradeAllowList

\* With trading open to anyone, contracts are kept out.
onlyEOAIfUnrestricted(trader) == permissionInfo.info.anyoneTrade => trader \in EOAs

validateTradeParameters(c) ==
    /\ c # weth
    /\ contains(rebalanceInfo.rebalanceComponents, c)
    /\ executionInfo[c].lastTradeTimestamp + executionInfo[c].coolOffPeriod <= now
    /\ ~hasExternalPosition(positions, c)

\* What is sold or bought of c is fixed, WETH floats within the trader's limit.
createTradeInfo(c, ethQuantityLimit) ==
    IF isSendTokenFixed(c)
    THEN [sendToken |-> c, receiveToken |-> weth, isSendTokenFixed |-> TRUE,
          sendQuantity |-> totalFixedQuantity(c),
          floatingQuantityLimit |-> ethQuantityLimit]
    ELSE [sendToken |-> weth, receiveToken |-> c, isSendTokenFixed |-> FALSE,
          sendQuantity |-> Least(ethQuantityLimit, balances[weth]),
          floatingQuantityLimit |-> totalFixedQuantity(c)]

\* The WETH above its target is sold for c.
createTradeRemainingInfo(c, minComponentReceived) ==
    [sendToken |-> weth, receiveToken |-> c, isSendTokenFixed |-> TRUE,
     sendQuantity |-> currentNotional(weth) - targetNotional(weth),
     floatingQuantityLimit |-> minComponentReceived]

\* The exchange swaps an exact amount in or out, at one of the Rates in WETH
\* for a component and within the limit, and refuses to swap nothing.
Swaps(info) ==
    {o \in [sent : 1..info.sendQuantity, paid : 1..MaxBalance] :
        /\ IF info.isSendTokenFixed
           THEN o.sent = info.sendQuantity /\ o.paid >= info.floatingQuantityLimit
           ELSE o.paid = info.floatingQuantityLimit
        /\ \E r \in Rates : IF info.sendToken = weth THEN o.sent = r * o.paid
                                                     ELSE o.paid = r * o.sent}

\* What is left of the amount received.
netReceived(paid) == paid - getModuleFee(IndexProtocolFee, paid)

\* Both default positions follow the balances of their tokens.
positionsAfter(info) ==
    LET edit(p, c) == calculateAndEditDefaultPosition(p, c, totalSupply, balances[c],
                                                      balances'[c])
        editReceive(p) == edit(p, info.receiveToken)
    IN  Then(edit(positions, info.sendToken), editReceive)

\* c is the component whose cool-off period starts.
executeTrade(info, o, c) ==
    /\ isIndexModule  \* invoke is for initialized modules
    /\ o.sent <= balances[info.sendToken]
    /\ balances' = [balances EXCEPT ![info.sendToken] = @ - o.sent,
                                    ![info.receiveToken] = @ + netReceived(o.paid)]
    /\ balances'[info.receiveToken] <= MaxBalance
    /\ positions' \in positionsAfter(info)
    /\ executionInfo' = [executionInfo EXCEPT ![c].lastTradeTimestamp = now]
    /\ UNCHANGED <<totalSupply, permissionInfo, rebalanceInfo, isIndexModule>>

trade(trader, c, ethQuantityLimit) ==
    /\ isAllowedTrader(trader) /\ onlyEOAIfUnrestricted(trader)
    /\ validateTradeParameters(c)
    /\ rebalanceInfo.positionMultiplier > 0
    /\ currentUnit(c) # getNormalizedTargetUnit(c)
    /\ \E info \in {createTradeInfo(c, ethQuantityLimit)} :
         \E o \in Swaps(info) : executeTrade(info, o, c)

\* The first comparison takes the WETH target as the manager set it, the
\* quantity sent the normalized one.
mayTradeRemainingWETH(trader, c) ==
    /\ isAllowedTrader(trader) /\ onlyEOAIfUnrestricted(trader)
    /\ rebalanceInfo.positionMultiplier > 0
    /\ noTokensToSell
    /\ executionInfo[weth].targetUnit < currentUnit(weth)
    /\ validateTradeParameters(c)
    /\ currentNotional(weth) >= targetNotional(weth)

\* Faulty variant for mutation: the checks after the swap are left out.
tradeRemainingUnchecked(trader, c, minComponentReceived) ==
    /\ mayTradeRemainingWETH(trader, c)
    /\ \E info \in {createTradeRemainingInfo(c, minComponentReceived)} :
         \E o \in Swaps(info) : executeTrade(info, o, c)

\* tradeRemainingWETH checks what it bought after the swap.
tradeRemainingWETH(trader, c, minComponentReceived) ==
    /\ mayTradeRemainingWETH(trader, c)
    /\ \E info \in {createTradeRemainingInfo(c, minComponentReceived)} :
         \E o \in Swaps(info) :
             /\ executeTrade(info, o, c)
             /\ o.paid < executionInfo[c].maxSize
             /\ getDefaultPositionRealUnit(positions', c) <= getNormalizedTargetUnit(c)

\* Lowering the multiplier the targets are normalized by raises the targets.
raiseAssetTargets(trader) ==
    /\ isAllowedTrader(trader)
    /\ rebalanceInfo.positionMultiplier > 0
    /\ allTargetsMet
    /\ currentUnit(weth) > getNormalizedTargetUnit(weth)
    /\ rebalanceInfo' = [rebalanceInfo EXCEPT !.positionMultiplier =
            preciseDiv(@, PRECISE_UNIT + rebalanceInfo.raiseTargetPercentage)]
    /\ UNCHANGED <<vaultVars, executionInfo, permissionInfo, isIndexModule>>

-----------------------------------------------------------------------------
(***************************************************************************)
(* The manager's calls.                                                    *)
(***************************************************************************)
\* The components the SetToken has keep their place, new ones follow.
getAggregateComponents(newComponents) == positions.components \o newComponents

\* targets gives the unit of each component.
startRebalance(newComponents, targets, positionMultiplier) ==
    LET aggregateComponents == getAggregateComponents(newComponents)
    IN  /\ isIndexModule
        /\ aggregateComponents # <<>>
        /\ ~hasDuplicate(aggregateComponents)
        /\ \A c \in Entries(aggregateComponents) : ~hasExternalPosition(positions, c)
        /\ executionInfo' = [c \in Components |->
               IF contains(aggregateComponents, c)
               THEN [executionInfo[c] EXCEPT !.targetUnit = targets[c]]
               ELSE executionInfo[c]]
        /\ rebalanceInfo' = [rebalanceInfo EXCEPT
               !.rebalanceComponents = aggregateComponents,
               !.positionMultiplier = positionMultiplier]
        /\ UNCHANGED <<vaultVars, permissionInfo, isIndexModule>>

setTradeMaximums(c, maximum) ==
    /\ isIndexModule
    /\ executionInfo' = [executionInfo EXCEPT ![c].maxSize = maximum]
    /\ UNCHANGED <<vaultVars, permissionInfo, rebalanceInfo, isIndexModule>>

setCoolOffPeriods(c, period) ==
    /\ isIndexModule
    /\ executionInfo' = [executionInfo EXCEPT ![c].coolOffPeriod = period]
    /\ UNCHANGED <<vaultVars, permissionInfo, rebalanceInfo, isIndexModule>>

setRaiseTargetPercentage(percentage) ==
    /\ isIndexModule
    /\ percentage > 0
    /\ rebalanceInfo' = [rebalanceInfo EXCEPT !.raiseTargetPercentage = percentage]
    /\ UNCHANGED <<vaultVars, executionInfo, permissionInfo, isIndexModule>>

updateTradersHistory(history, trader, status) ==
    IF status = contains(history, trader) THEN history
    ELSE IF status THEN Append(history, trader)
    ELSE removeStorage(history, trader)

setTraderStatus(trader, status) ==
    /\ isIndexModule
    /\ permissionInfo' =
         [info |-> [permissionInfo.info EXCEPT !.tradersHistory =
                        updateTradersHistory(@, trader, status)],
          tradeAllowList |-> IF status THEN permissionInfo.tradeAllowList \cup {trader}
                                       ELSE permissionInfo.tradeAllowList \ {trader}]
    /\ UNCHANGED <<vaultVars, executionInfo, rebalanceInfo, isIndexModule>>

setAnyoneTrade(status) ==
    /\ isIndexModule
    /\ permissionInfo' = [permissionInfo EXCEPT !.info.anyoneTrade = status]
    /\ UNCHANGED <<vaultVars, executionInfo, rebalanceInfo, isIndexModule>>

\* The manager adds and initializes the module: the units held are the first
\* targets.
initializeIndex ==
    /\ ~isIndexModule
    /\ \A c \in Entries(positions.components) : ~hasExternalPosition(positions, c)
    /\ executionInfo' = [c \in Components |->
           IF isComponent(positions, c)
           THEN [executionInfo[c] EXCEPT !.targetUnit = currentUnit(c),
                                         !.lastTradeTimestamp = 0]
           ELSE executionInfo[c]]
    /\ rebalanceInfo' = [rebalanceInfo EXCEPT
           !.positionMultiplier = positions.positionMultiplier]
    /\ isIndexModule' = TRUE
    /\ UNCHANGED <<vaultVars, permissionInfo>>

\* Faulty variant for mutation: tradeAllowList is left as it is.
removeIndexKeepingTraders ==
    /\ isIndexModule
    /\ rebalanceInfo' = NoRebalanceInfo
    /\ permissionInfo' = [permissionInfo EXCEPT !.info = NoPermissionInfo]
    /\ isIndexModule' = FALSE
    /\ UNCHANGED <<vaultVars, executionInfo>>

removeIndex ==
    /\ isIndexModule
    /\ rebalanceInfo' = NoRebalanceInfo
    /\ permissionInfo' =
         [info |-> NoPermissionInfo,
          tradeAllowList |-> permissionInfo.tradeAllowList
                                \ Entries(permissionInfo.info.tradersHistory)]
    /\ isIndexModule' = FALSE
    /\ UNCHANGED <<vaultVars, executionInfo>>

=============================================================================
