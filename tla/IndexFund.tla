----------------------------- MODULE IndexFund -----------------------------
(***************************************************************************)
(* One SetToken that is rebalanced by the GeneralIndexModule while it is   *)
(* issued and redeemed (BasicIssuanceModule) and fee modules scale units   *)
(* and targets alike.  The questions are whether trades stop at the        *)
(* targets, what they are paid with, who may make them, and whether a      *)
(* rebalance that is left alone comes to an end.                           *)
(***************************************************************************)
EXTENDS BasicIssuanceModule, GeneralIndexModule

CONSTANT MaxCalls  \* bound on the manager's calls, apart from initialize

ASSUME IndexFundAssumption == MaxCalls \in Nat

VARIABLE calls     \* those calls so far

vars == <<vaultVars, indexVars, now, calls>>

Init == VaultInit /\ IndexInit /\ now = 0 /\ calls = 0

Issuance ==
    /\ \E q \in 1..MaxSupply : issue(q) \/ redeem(q)
    /\ UNCHANGED <<indexVars, now, calls>>

\* Tokens come in that no position tracks, one at a time.
Donation ==
    /\ \E c \in Components : donate(c, 1)
    /\ UNCHANGED <<indexVars, now, calls>>

\* Blocks are mined.
Time ==
    /\ now < MaxTime
    /\ now' = now + 1
    /\ UNCHANGED <<vaultVars, indexVars, calls>>

\* Any fee module: it scales the positions down and mints SetTokens, which
\* does not raise what the supply as a whole may claim.
Fee ==
    /\ \E x \in Multipliers :
         /\ x < positions.positionMultiplier
         /\ EditPositionMultiplier(x)
         /\ totalSupply' \in
              totalSupply..((totalSupply * positions.positionMultiplier) \div x)
    /\ totalSupply' <= MaxSupply
    /\ UNCHANGED <<balances, indexVars, now, calls>>

\* The least that a sale of c must yield, or the most that a purchase may
\* cost, so that every outcome of the exchange is possible; another limit
\* only rules some out.
NoLimit(c) == IF isSendTokenFixed(c) THEN 0 ELSE MaxBalance

Trade(c) ==
    /\ UNCHANGED <<now, calls>>
    /\ \E t \in Traders : trade(t, c, NoLimit(c))

TradeRemaining(c) ==
    /\ \E t \in Traders : tradeRemainingWETH(t, c, 0)
    /\ UNCHANGED <<now, calls>>

Raise == (\E t \in Traders : raiseAssetTargets(t)) /\ UNCHANGED <<now, calls>>

ManagerCall ==
    /\ calls < MaxCalls
    /\ calls' = calls + 1
    /\ UNCHANGED now

\* The manager names the components to add and the multiplier for which it
\* computed the targets: one the SetToken has, or had before a fee.
Rebalance ==
    /\ \E new \in {<<>>} \cup {<<c>> : c \in Components},
          targets \in [Components -> TargetUnits],
          x \in positions.positionMultiplier..PRECISE_UNIT :
            startRebalance(new, targets, x)
    /\ ManagerCall

\* Nothing reads the trade size and the cool-off period of WETH.
Settings ==
    /\ \/ \E c \in Components \ {weth} :
            \/ \E x \in TradeSizes : setTradeMaximums(c, x)
            \/ \E x \in CoolOffPeriods : setCoolOffPeriods(c, x)
       \/ \E x \in RaisePercentages : setRaiseTargetPercentage(x)
       \/ \E t \in Traders, status \in BOOLEAN : setTraderStatus(t, status)
       \/ \E status \in BOOLEAN : setAnyoneTrade(status)
       \/ removeIndex
    /\ ManagerCall

Initialization == initializeIndex /\ UNCHANGED <<now, calls>>

Next ==
    \/ Issuance
    \/ Donation
    \/ Time
    \/ Fee
    \/ \E c \in Components \ {weth} : Trade(c) \/ TradeRemaining(c)
    \/ Raise
    \/ Rebalance
    \/ Settings
    \/ Initialization

\* Traders keep trading what can be traded, and blocks are mined.
Fairness == WF_vars(Time) /\ \A c \in Components \ {weth} : WF_vars(Trade(c))

Spec == Init /\ [][Next]_vars /\ Fairness

-----------------------------------------------------------------------------
Rebalancing == rebalanceInfo.positionMultiplier > 0

\* Trades move a component only towards its target and not past it, up to the
\* wei that a unit loses when it is stored, once a whole SetToken is in
\* circulation.  A component of which the SetToken holds less than its units
\* claim is left out: the sale of all of it closes its position, whatever the
\* target.
NoOvershoot ==
    [][\A c \in Components \ {weth} :
         currentUnit(c)' # currentUnit(c)
           /\ positions'.positionMultiplier = positions.positionMultiplier
           /\ totalSupply >= PRECISE_UNIT /\ Surplus(c) >= 0 =>
             IF getNormalizedTargetUnit(c) < currentUnit(c)
             THEN currentUnit(c)' \in (getNormalizedTargetUnit(c) - 1)..currentUnit(c)
             ELSE currentUnit(c)' \in (currentUnit(c) - 1)..getNormalizedTargetUnit(c)]_vars

\* A trade of a fully held c whose maximum size does not cut it short.
FullTrade(c) ==
    /\ Rebalancing /\ balances' # balances /\ totalSupply' = totalSupply
    /\ totalSupply >= PRECISE_UNIT /\ Surplus(c) >= 0
    /\ totalFixedQuantity(c) < executionInfo[c].maxSize
    /\ Trade(c)

\* A trade that its maximum size does not cut short leaves its component's
\* target met: "an amount that would match the target unit is traded", the
\* protocol's fee on it included.
FullTradeMeetsTarget ==
    [][\A c \in Components \ {weth} : FullTrade(c) => targetMet(c)']_vars

\* Only a fee accrual shrinks what the SetToken holds beyond its units: a
\* trade that leaves any of a token spends none that the positions do not
\* track.  (The last WETH may be spent with all that came in besides.)
SurplusKept ==
    [][positions'.positionMultiplier = positions.positionMultiplier =>
         \A c \in Components : balances'[c] = 0 \/ Surplus(c)' >= Surplus(c)]_vars

\* tradersHistory lists whom tradeAllowList permits, once each, so that
\* removeModule reaches them all: a SetToken that comes back to the module
\* starts with nobody permitted.
TradersListed ==
    /\ ~hasDuplicate(permissionInfo.info.tradersHistory)
    /\ Entries(permissionInfo.info.tradersHistory) = permissionInfo.tradeAllowList
    /\ ~isIndexModule => \A t \in Traders : ~isAllowedTrader(t)

LeftAlone ==
    /\ UNCHANGED <<calls, totalSupply, rebalanceInfo, permissionInfo, isIndexModule>>
    /\ positions'.positionMultiplier = positions.positionMultiplier

Settled(c) == Rebalancing => targetMet(c) \/ ~ENABLED Trade(c)

\* Once manager, holders and fees leave a rebalance alone and traders go on
\* trading, every component comes to its target or to a point where it cannot
\* be traded: trades do not go back and forth around a target for ever.
RebalanceSettles ==
    <>[][LeftAlone]_vars => \A c \in Components \ {weth} : <>[]Settled(c)

=============================================================================
