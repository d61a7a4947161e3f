--------------------------- MODULE PositionBook ---------------------------
(***************************************************************************)
(* The positions of one SetToken as its modules drive them: every          *)
(* production module edits them through the Position library, except the   *)
(* PerpV2 modules, whose issue and redeem hooks write the unit of their    *)
(* external position directly, and the fee modules, which scale every      *)
(* position through the multiplier.                                        *)
(***************************************************************************)
EXTENDS Positions

CONSTANTS PerpModules,   \* modules whose hooks write the unit directly
          RealUnits,     \* real units requested by modules
          Multipliers,   \* multipliers requested by fee modules
          MaxComponents  \* bound on the number of components at creation

ASSUME PositionBookAssumption ==
    /\ PerpModules \subseteq Modules
    /\ RealUnits \subseteq Int
    /\ Multipliers \subseteq Int

ASSUME MaxComponentsAssumption == MaxComponents \in Nat

VARIABLE positions

StorageType ==
    [components : Seq(Components),
     virtualUnit : [Components -> Int],
     externalPositionModules : [Components -> Seq(Modules)],
     externalPositions :
        [Components -> [Modules -> [virtualUnit : Int, data : Data]]],
     positionMultiplier : Int]

-----------------------------------------------------------------------------
\* The SetToken constructor, called by SetTokenCreator.create with a
\* duplicate-free, non-empty list of components and positive units.
InitialPositions(components, units) ==
    [components |-> components,
     virtualUnit |-> [c \in Components |->
                        IF contains(components, c) THEN units[c] ELSE 0],
     externalPositionModules |-> [c \in Components |-> <<>>],
     externalPositions |->
        [c \in Components |-> [m \in Modules |-> NoExternalPosition]],
     positionMultiplier |-> PRECISE_UNIT]

ComponentLists(n) ==
    {A \in UNION {[1..k -> Components] : k \in 1..n} : ~hasDuplicate(A)}

PositiveUnits == {u \in RealUnits : u > 0}

PositionsInit == \E A \in ComponentLists(MaxComponents) :
            \E units \in [Components -> PositiveUnits] :
                positions = InitialPositions(A, units)

\* Position.editDefaultPosition; the unit is a uint256.
EditDefaultPosition(c, newUnit) ==
    /\ newUnit >= 0
    /\ positions' \in editDefaultPosition(positions, c, newUnit)

\* Position.editExternalPosition, called by a module for its own position.
EditExternalPosition(c, m, newUnit, data) ==
    positions' \in editExternalPosition(positions, c, m, newUnit, data)

\* PerpV2 moduleIssueHook and moduleRedeemHook: the unit is written whenever
\* the collateral token has an external position of any module.
EditUnitInHook(c, m, newUnit) ==
    /\ m \in PerpModules
    /\ hasExternalPosition(positions, c)
    /\ positions' \in editExternalPositionUnit(positions, c, m, newUnit)

EditPositionMultiplier(newMultiplier) ==
    positions' \in editPositionMultiplier(positions, newMultiplier)

PositionsNext ==
    \/ \E c \in Components, u \in RealUnits : EditDefaultPosition(c, u)
    \/ \E c \in Components, m \in Modules, u \in RealUnits, d \in Data :
            EditExternalPosition(c, m, u, d)
    \/ \E c \in Components, m \in Modules, u \in RealUnits :
            EditUnitInHook(c, m, u)
    \/ \E x \in Multipliers : EditPositionMultiplier(x)

PositionsSpec == PositionsInit /\ [][PositionsNext]_positions

-----------------------------------------------------------------------------
\* Every field of the storage keeps its Solidity type.
PositionsTypeOK == positions \in StorageType

ComponentsTrackedIn(p) ==
    /\ ~hasDuplicate(p.components)
    /\ \A c \in Components :
        /\ ~hasDuplicate(p.externalPositionModules[c])
        /\ isComponent(p, c) <=>
               p.virtualUnit[c] # 0 \/ hasExternalPosition(p, c)

ExternalPositionsTrackedIn(p) ==
    \A c \in Components, m \in Modules :
        LET position == p.externalPositions[c][m]
            listed == isExternalPositionModule(p, c, m)
        IN  /\ m \notin PerpModules => (position.virtualUnit # 0 <=> listed)
            /\ position.data # NoData => listed

PositionsVisibleIn(p) ==
    /\ p.positionMultiplier > 0
    /\ \A c \in Components :
        /\ p.virtualUnit[c] >= 0
        /\ p.virtualUnit[c] > 0 => hasDefaultPosition(p, c)
        /\ \A m \in Modules : isExternalPositionModule(p, c, m) =>
              LET unit == p.externalPositions[c][m].virtualUnit
                  real == getExternalPositionRealUnit(p, c, m)
              IN  (unit > 0 <=> real > 0) /\ (unit < 0 <=> real < 0)

\* The components array has no duplicates and lists exactly the components
\* that have a default position or an external position module, whatever the
\* order in which modules open, resize and close positions; likewise the
\* externalPositionModules arrays have no duplicates.
ComponentsTracked == ComponentsTrackedIn(positions)

\* A module that edits only through the Position library is listed for a
\* component exactly while its unit is not zero, and no data is left behind
\* for a module that is not listed.
ExternalPositionsTracked == ExternalPositionsTrackedIn(positions)

\* No sequence of unit edits and multiplier changes rounds a tracked position
\* to a real unit of zero or flips its sign: what the storage tracks, the
\* issuance modules can see.
NoPositionVanishes == PositionsVisibleIn(positions)

=============================================================================
