----------------------------- MODULE Positions -----------------------------
(***************************************************************************)
(* The position storage of a SetToken (contracts/protocol/SetToken.sol)    *)
(* and the Position library through which every module edits it            *)
(* (contracts/protocol/lib/Position.sol, and PositionV2.sol, its           *)
(* externally linked copy).                                                *)
(*                                                                         *)
(* A storage p is a record:                                                *)
(*   components               the list of tracked components               *)
(*   virtualUnit              default position of each component           *)
(*   externalPositionModules  per component, the modules with a position   *)
(*   externalPositions        per component and module, unit and data      *)
(*   positionMultiplier       real unit = virtual unit * multiplier        *)
(*                                                                         *)
(* A call is an operator that returns the set of storages it may leave     *)
(* behind: {} when it reverts, a singleton when it returns.  Calls compose *)
(* with Then, so that one transaction is one step.                         *)
(***************************************************************************)
EXTENDS PreciseUnitMath, AddressArrayUtils

CONSTANTS Components,  \* ERC20 tokens a SetToken may hold
          Modules,     \* modules, as owners of external positions
          Data,        \* values of an external position's data
          NoData       \* the empty bytes

ASSUME NoDataAssumption == NoData \in Data

Then(results, call(_)) == UNION {call(p) : p \in results}

require(condition, results) == IF condition THEN results ELSE {}

NoExternalPosition == [virtualUnit |-> 0, data |-> NoData]

(***************************************************************************)
(* Getters of SetToken.                                                    *)
(***************************************************************************)
isComponent(p, c) == contains(p.components, c)

isExternalPositionModule(p, c, m) == contains(p.externalPositionModules[c], m)

convertVirtualToRealUnit(p, virtualUnit) ==
    conservativePreciseMul(virtualUnit, p.positionMultiplier)

getDefaultPositionRealUnit(p, c) ==
    convertVirtualToRealUnit(p, p.virtualUnit[c])

getExternalPositionRealUnit(p, c, m) ==
    convertVirtualToRealUnit(p, p.externalPositions[c][m].virtualUnit)

(***************************************************************************)
(* Privileged functions of SetToken (who may call them: module SetToken).  *)
(***************************************************************************)
addComponent(p, c) ==
    require(~isComponent(p, c),
            {[p EXCEPT !.components = Append(@, c)]})

removeComponent(p, c) ==
    require(isComponent(p, c),
            {[p EXCEPT !.components = removeStorage(@, c)]})

\* The virtual units a real unit may be stored as: none when a positive unit
\* would be lost in the conversion or in the conversion back.
convertRealToVirtualUnit(p, realUnit) ==
    LET virtualUnit == conservativePreciseDiv(realUnit, p.positionMultiplier)
    IN  require(realUnit > 0 => /\ virtualUnit # 0
                                /\ convertVirtualToRealUnit(p, virtualUnit) # 0,
                {virtualUnit})

editDefaultPositionUnit(p, c, realUnit) ==
    {[p EXCEPT !.virtualUnit[c] = v] : v \in convertRealToVirtualUnit(p, realUnit)}

addExternalPositionModule(p, c, m) ==
    require(~isExternalPositionModule(p, c, m),
            {[p EXCEPT !.externalPositionModules[c] = Append(@, m)]})

\* Faulty variant for mutation: the position's entry is not deleted.
removeExternalPositionModuleOnly(p, c, m) ==
    require(isExternalPositionModule(p, c, m),
            {[p EXCEPT !.externalPositionModules[c] = removeStorage(@, m)]})

removeExternalPositionModule(p, c, m) ==
    require(isExternalPositionModule(p, c, m),
            {[p EXCEPT !.externalPositionModules[c] = removeStorage(@, m),
                       !.externalPositions[c][m] = NoExternalPosition]})

editExternalPositionUnit(p, c, m, realUnit) ==
    {[p EXCEPT !.externalPositions[c][m].virtualUnit = v] :
        v \in convertRealToVirtualUnit(p, realUnit)}

editExternalPositionData(p, c, m, data) ==
    {[p EXCEPT !.externalPositions[c][m].data = data]}

\* The non-zero absolute units of the tracked positions, over which
\* _getPositionsAbsMinimumVirtualUnit takes the minimum.
AbsVirtualUnits(p) ==
    ({p.virtualUnit[c] : c \in Entries(p.components)} \cup
     UNION {{abs(p.externalPositions[c][m].virtualUnit) :
                 m \in Entries(p.externalPositionModules[c])} :
            c \in Entries(p.components)}) \ {0}

getPositionsAbsMinimumVirtualUnit(p) ==
    CHOOSE u \in AbsVirtualUnits(p) : \A w \in AbsVirtualUnits(p) : u <= w

\* Faulty variant for mutation: only the multiplier itself is validated.
editPositionMultiplierUnchecked(p, newMultiplier) ==
    require(newMultiplier > 0, {[p EXCEPT !.positionMultiplier = newMultiplier]})

\* With no position the minimum stays at 2^256 - 1, whose cast to int256
\* reverts; a negative default unit would revert in its cast to uint256.
editPositionMultiplier(p, newMultiplier) ==
    require(/\ AbsVirtualUnits(p) # {}
            /\ \A c \in Entries(p.components) : p.virtualUnit[c] >= 0
            /\ conservativePreciseMul(getPositionsAbsMinimumVirtualUnit(p),
                                      newMultiplier) > 0,
            {[p EXCEPT !.positionMultiplier = newMultiplier]})

(***************************************************************************)
(* The Position library.                                                   *)
(***************************************************************************)
hasDefaultPosition(p, c) == getDefaultPositionRealUnit(p, c) > 0

hasExternalPosition(p, c) == Len(p.externalPositionModules[c]) > 0

\* Faulty variant for mutation: closing the default position untracks the
\* component although a module still has an external position in it.
editDefaultPositionUntracking(p, c, newUnit) ==
    LET edit(q) == editDefaultPositionUnit(q, c, newUnit)
        opens  == ~hasDefaultPosition(p, c) /\ newUnit > 0
        closes == hasDefaultPosition(p, c) /\ newUnit = 0
        tracked ==
            IF opens /\ ~isComponent(p, c) THEN addComponent(p, c)
            ELSE IF closes THEN removeComponent(p, c)
                 ELSE {p}
    IN  Then(tracked, edit)

editDefaultPosition(p, c, newUnit) ==
    LET edit(q) == editDefaultPositionUnit(q, c, newUnit)
        opens  == ~hasDefaultPosition(p, c) /\ newUnit > 0
        closes == hasDefaultPosition(p, c) /\ newUnit = 0
        tracked ==
            IF opens /\ ~hasExternalPosition(p, c) THEN addComponent(p, c)
            ELSE IF closes /\ ~hasExternalPosition(p, c)
                 THEN removeComponent(p, c)
                 ELSE {p}
    IN  Then(tracked, edit)

setExternalPosition(p, c, m, newUnit, data) ==
    LET add(q)  == addExternalPositionModule(q, c, m)
        unit(q) == editExternalPositionUnit(q, c, m, newUnit)
        info(q) == editExternalPositionData(q, c, m, data)
        tracked ==
            IF ~isComponent(p, c) THEN Then(addComponent(p, c), add)
            ELSE IF ~isExternalPositionModule(p, c, m) THEN add(p)
            ELSE {p}
    IN  Then(Then(tracked, unit), info)

closeExternalPosition(p, c, m) ==
    LET positionModules == p.externalPositionModules[c]
        drop(q) == removeExternalPositionModule(q, c, m)
        isLast == /\ getDefaultPositionRealUnit(p, c) = 0
                  /\ Len(positionModules) = 1
    IN  IF getExternalPositionRealUnit(p, c, m) = 0 THEN {p}
        ELSE IF ~isLast THEN drop(p)
        ELSE require(positionModules[1] = m, Then(removeComponent(p, c), drop))

editExternalPosition(p, c, m, newUnit, data) ==
    IF newUnit # 0 THEN setExternalPosition(p, c, m, newUnit, data)
    ELSE require(data = NoData, closeExternalPosition(p, c, m))

getDefaultTotalNotional(setTokenSupply, positionUnit) ==
    preciseMul(setTokenSupply, positionUnit)

hasSufficientDefaultUnits(p, c, unit) ==
    getDefaultPositionRealUnit(p, c) >= unit

\* Position units from total notional; reverts on a zero supply.
getDefaultPositionUnit(supply, totalNotional) == preciseDiv(totalNotional, supply)

getDefaultTrackedBalance(p, supply, c) ==
    preciseMul(supply, getDefaultPositionRealUnit(p, c))

\* Faulty variant for mutation: the whole balance becomes the position.
calculateUnitFromBalance(supply, pre, post, prePositionUnit) ==
    require(supply > 0, {getDefaultPositionUnit(supply, post)})

\* The units a change of balance from pre to post leads to: none when pre is
\* below the tracked amount or post below the airdropped one (SafeMath), or
\* when there is no supply to divide by.
calculateDefaultEditPositionUnit(supply, pre, post, prePositionUnit) ==
    LET airdroppedAmount == pre - preciseMul(prePositionUnit, supply)
    IN  require(airdroppedAmount >= 0 /\ post >= airdroppedAmount /\ supply > 0,
                {getDefaultPositionUnit(supply, post - airdroppedAmount)})

calculateAndEditDefaultPosition(p, c, supply, pre, post) ==
    LET newUnits == IF post > 0
                    THEN calculateDefaultEditPositionUnit(supply, pre, post,
                             getDefaultPositionRealUnit(p, c))
                    ELSE {0}
    IN  UNION {editDefaultPosition(p, c, u) : u \in newUnits}

=============================================================================
