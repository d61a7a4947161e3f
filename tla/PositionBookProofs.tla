------------------------ MODULE PositionBookProofs ------------------------
(***************************************************************************)
(* The invariants of PositionBook are inductive together, and what the     *)
(* Position library makes of balances: proofs for every set of components, *)
(* modules, units and multipliers, and every PRECISE_UNIT.                 *)
(***************************************************************************)
EXTENDS PositionBook, LibraryProofs, WellFoundedInduction

StorageOK(p) ==
    /\ p \in StorageType
    /\ ComponentsTrackedIn(p)
    /\ ExternalPositionsTrackedIn(p)
    /\ PositionsVisibleIn(p)

PositionsInv == StorageOK(positions)

-----------------------------------------------------------------------------
\* A virtual unit stored for a real unit has its sign, and a positive one
\* converts back to a positive real unit.
LEMMA ConvertSign ==
    ASSUME NEW p, p.positionMultiplier \in Int, p.positionMultiplier > 0,
           NEW u \in Int, NEW v \in convertRealToVirtualUnit(p, u)
    PROVE  /\ v \in Int
           /\ u = 0 => v = 0
           /\ u > 0 => v > 0 /\ convertVirtualToRealUnit(p, v) > 0
           /\ u < 0 => v < 0
  <1> DEFINE x == p.positionMultiplier
  <1>1. x \in Nat \ {0}
    OBVIOUS
  <1>2. /\ v = conservativePreciseDiv(u, x)
        /\ u > 0 => v # 0 /\ convertVirtualToRealUnit(p, v) # 0
    BY DEF convertRealToVirtualUnit, require
  <1>3. /\ v \in Int
        /\ u = 0 => v = 0
        /\ u > 0 => v >= 0
        /\ u < 0 => v < 0
    BY <1>1, <1>2, ConservativeDivSign
  <1>4. /\ convertVirtualToRealUnit(p, v) \in Int
        /\ convertVirtualToRealUnit(p, v) < 0 => v * x < 0
    BY <1>1, <1>3, ConservativeMulSign DEF convertVirtualToRealUnit
  <1>5. v >= 0 => v * x >= 0
    BY <1>1, <1>3
  <1> QED BY <1>2, <1>3, <1>4, <1>5

\* Real units keep the sign of virtual units while the multiplier is
\* positive, except that a positive virtual unit may round to zero.
LEMMA RealUnitSign ==
    ASSUME NEW p, p.positionMultiplier \in Int, p.positionMultiplier > 0,
           NEW v \in Int
    PROVE  /\ convertVirtualToRealUnit(p, v) \in Int
           /\ v = 0 => convertVirtualToRealUnit(p, v) = 0
           /\ convertVirtualToRealUnit(p, v) > 0 => v > 0
           /\ convertVirtualToRealUnit(p, v) < 0 <=> v < 0
  <1> DEFINE x == p.positionMultiplier
             r == convertVirtualToRealUnit(p, v)
  <1>1. /\ r \in Int
        /\ r > 0 <=> v * x >= PRECISE_UNIT
        /\ r < 0 <=> v * x < 0
    BY ConservativeMulSign DEF convertVirtualToRealUnit
  <1>2. /\ v * x \in Int
        /\ v = 0 => v * x = 0
        /\ v < 0 <=> v * x < 0
    OBVIOUS
  <1>3. PRECISE_UNIT \in Nat \ {0}
    BY PreciseUnitAssumption
  <1> QED BY <1>1, <1>2, <1>3

-----------------------------------------------------------------------------
\* The Position library's edit of a default position keeps the storage well
\* formed.
LEMMA EditDefaultPositionOK ==
    ASSUME NEW p, StorageOK(p), NEW c \in Components,
           NEW u \in Int, u >= 0, NEW q \in editDefaultPosition(p, c, u)
    PROVE  StorageOK(q)
  <1> DEFINE ext == hasExternalPosition(p, c)
             tracked ==
                IF ~hasDefaultPosition(p, c) /\ u > 0 /\ ~ext
                THEN addComponent(p, c)
                ELSE IF hasDefaultPosition(p, c) /\ u = 0 /\ ~ext
                     THEN removeComponent(p, c)
                     ELSE {p}
  <1>1. PICK t \in tracked : q \in editDefaultPositionUnit(t, c, u)
    BY Zenon DEF editDefaultPosition, Then
  <1>2. p \in StorageType /\ p.positionMultiplier > 0
    BY DEF StorageOK, PositionsVisibleIn
  <1>3. /\ ~hasDuplicate(p.components)
        /\ isComponent(p, c) <=> p.virtualUnit[c] # 0 \/ ext
    BY DEF StorageOK, ComponentsTrackedIn
  <1>4. hasDefaultPosition(p, c) <=> p.virtualUnit[c] # 0
    <2>1. /\ p.virtualUnit[c] \in Int
          /\ p.virtualUnit[c] >= 0
          /\ p.virtualUnit[c] > 0 => hasDefaultPosition(p, c)
      BY <1>2 DEF StorageOK, PositionsVisibleIn, StorageType
    <2>2. p.positionMultiplier \in Int
      BY <1>2 DEF StorageType
    <2>3. hasDefaultPosition(p, c) => p.virtualUnit[c] > 0
      BY <1>2, <2>1, <2>2, RealUnitSign
         DEF hasDefaultPosition, getDefaultPositionRealUnit
    <2> QED BY <2>1, <2>3
  \* The list of components after the first part of the edit.
  <1>5. /\ t = [p EXCEPT !.components = t.components]
        /\ t.components \in Seq(Components)
        /\ ~hasDuplicate(t.components)
        /\ \A x : contains(t.components, x) <=>
                    IF x = c THEN u > 0 \/ ext ELSE contains(p.components, x)
    <2>1. p.components \in Seq(Components)
      BY <1>2 DEF StorageType
    <2>2. CASE ~hasDefaultPosition(p, c) /\ u > 0 /\ ~ext
      <3>1. t = [p EXCEPT !.components = Append(@, c)] /\ ~contains(p.components, c)
        BY <1>1, <2>2 DEF addComponent, require, isComponent
      <3>2. t.components = Append(p.components, c)
        BY <1>2, <3>1 DEF StorageType
      <3> QED BY <1>2, <1>3, <2>1, <2>2, <3>1, <3>2, AppendAbsent DEF StorageType
    <2>3. CASE hasDefaultPosition(p, c) /\ u = 0 /\ ~ext
      <3>1. /\ t = [p EXCEPT !.components = removeStorage(@, c)]
            /\ contains(p.components, c)
        BY <1>1, <2>3 DEF removeComponent, require, isComponent
      <3>2. t.components = removeStorage(p.components, c)
        BY <1>2, <3>1 DEF StorageType
      <3> QED BY <1>2, <1>3, <2>1, <2>3, <3>1, <3>2, RemoveStorageExact DEF StorageType
    <2>4. CASE /\ ~(~hasDefaultPosition(p, c) /\ u > 0 /\ ~ext)
               /\ ~(hasDefaultPosition(p, c) /\ u = 0 /\ ~ext)
      <3>1. t = p
        BY <1>1, <2>4
      <3>2. contains(p.components, c) <=> u > 0 \/ ext
        BY <1>3, <1>4, <2>4 DEF isComponent
      <3> QED BY <1>2, <1>3, <2>1, <3>1, <3>2 DEF StorageType
    <2> QED BY <2>2, <2>3, <2>4
  <1>6. PICK v \in convertRealToVirtualUnit(t, u) : q = [t EXCEPT !.virtualUnit[c] = v]
    BY <1>1 DEF editDefaultPositionUnit
  <1>7. /\ t.positionMultiplier = p.positionMultiplier
        /\ t \in StorageType
    BY <1>2, <1>5 DEF StorageType
  <1>8. /\ v \in Int
        /\ u = 0 => v = 0
        /\ u > 0 => v > 0 /\ convertVirtualToRealUnit(t, v) > 0
    <2>1. t.positionMultiplier \in Int /\ t.positionMultiplier > 0
      BY <1>2, <1>7 DEF StorageType
    <2> QED BY <1>6, <2>1, ConvertSign
  <1>9. /\ q \in StorageType
        /\ q.components = t.components
        /\ q.virtualUnit = [p.virtualUnit EXCEPT ![c] = v]
        /\ q.externalPositionModules = p.externalPositionModules
        /\ q.externalPositions = p.externalPositions
        /\ q.positionMultiplier = p.positionMultiplier
    BY <1>2, <1>5, <1>6, <1>7, <1>8 DEF StorageType
  <1>10. ComponentsTrackedIn(q)
    <2>1. ASSUME NEW x \in Components
          PROVE  isComponent(q, x) <=> q.virtualUnit[x] # 0 \/ hasExternalPosition(q, x)
      <3>1. isComponent(p, x) <=> p.virtualUnit[x] # 0 \/ hasExternalPosition(p, x)
        BY DEF StorageOK, ComponentsTrackedIn
      <3>2. q.virtualUnit[x] = IF x = c THEN v ELSE p.virtualUnit[x]
        BY <1>2, <1>9 DEF StorageType
      <3> QED BY <1>5, <1>8, <1>9, <3>1, <3>2 DEF isComponent, hasExternalPosition
    <2>2. \A x \in Components : ~hasDuplicate(q.externalPositionModules[x])
      BY <1>9 DEF StorageOK, ComponentsTrackedIn
    <2> QED BY <1>5, <1>9, <2>1, <2>2 DEF ComponentsTrackedIn
  <1>11. ExternalPositionsTrackedIn(q)
    BY <1>9 DEF StorageOK, ExternalPositionsTrackedIn, isExternalPositionModule
  <1>12. PositionsVisibleIn(q)
    <2>1. ASSUME NEW x \in Components
          PROVE  /\ q.virtualUnit[x] >= 0
                 /\ q.virtualUnit[x] > 0 => hasDefaultPosition(q, x)
      <3>1. CASE x = c
        <4>1. q.virtualUnit[x] = v
          BY <1>2, <1>9, <3>1 DEF StorageType
        <4> QED BY <1>7, <1>8, <1>9, <4>1
                DEF hasDefaultPosition, getDefaultPositionRealUnit, convertVirtualToRealUnit
      <3>2. CASE x # c
        <4>1. q.virtualUnit[x] = p.virtualUnit[x]
          BY <1>2, <1>9, <3>2 DEF StorageType
        <4>2. /\ p.virtualUnit[x] >= 0
              /\ p.virtualUnit[x] > 0 => hasDefaultPosition(p, x)
          BY DEF StorageOK, PositionsVisibleIn
        <4> QED BY <1>9, <4>1, <4>2
                DEF hasDefaultPosition, getDefaultPositionRealUnit, convertVirtualToRealUnit
      <3> QED BY <3>1, <3>2
    <2> QED BY <1>2, <1>9, <2>1
            DEF StorageOK, PositionsVisibleIn, isExternalPositionModule,
                getExternalPositionRealUnit, convertVirtualToRealUnit
  <1> QED BY <1>9, <1>10, <1>11, <1>12 DEF StorageOK

-----------------------------------------------------------------------------
\* An entry of the external positions has the type of one.
LEMMA ExternalPositionType ==
    ASSUME NEW p \in StorageType, NEW c \in Components, NEW m \in Modules
    PROVE  p.externalPositions[c][m] \in [virtualUnit : Int, data : Data]
  <1>1. p.externalPositions \in [Components -> [Modules -> [virtualUnit : Int, data : Data]]]
    BY DEF StorageType
  <1>2. p.externalPositions[c] \in [Modules -> [virtualUnit : Int, data : Data]]
    BY <1>1
  <1> QED BY <1>2

\* Replacing the entry of one component and module keeps the type of the
\* external positions.
LEMMA ReplaceExternalPosition ==
    ASSUME NEW p \in StorageType, NEW c \in Components, NEW m \in Modules,
           NEW r \in [virtualUnit : Int, data : Data]
    PROVE  [p EXCEPT !.externalPositions[c][m] = r] \in StorageType
  <1> DEFINE E == p.externalPositions
             F == [E[c] EXCEPT ![m] = r]
  <1>1. E \in [Components -> [Modules -> [virtualUnit : Int, data : Data]]]
    BY DEF StorageType
  <1>2. E[c] \in [Modules -> [virtualUnit : Int, data : Data]]
    BY <1>1
  <1>3. F \in [Modules -> [virtualUnit : Int, data : Data]]
    BY <1>2
  <1>4. [E EXCEPT ![c] = F] \in [Components -> [Modules -> [virtualUnit : Int, data : Data]]]
    BY <1>1, <1>3
  <1>5. [p EXCEPT !.externalPositions = [E EXCEPT ![c] = F]] \in StorageType
    BY <1>4 DEF StorageType
  <1> QED BY <1>5

\* While the entry of module m for component c is being written, the storage
\* is well formed but for the unit of that entry.
StorageOKBut(p, c, m) ==
    /\ p \in StorageType
    /\ ComponentsTrackedIn(p)
    /\ \A x \in Components, n \in Modules :
        LET position == p.externalPositions[x][n]
            listed == isExternalPositionModule(p, x, n)
            real == getExternalPositionRealUnit(p, x, n)
        IN  /\ position.data # NoData => listed
            /\ (x # c \/ n # m) =>
                /\ n \notin PerpModules => (position.virtualUnit # 0 <=> listed)
                /\ listed => /\ position.virtualUnit > 0 <=> real > 0
                             /\ position.virtualUnit < 0 <=> real < 0
    /\ p.positionMultiplier > 0
    /\ \A x \in Components :
        /\ p.virtualUnit[x] >= 0
        /\ p.virtualUnit[x] > 0 => hasDefaultPosition(p, x)

LEMMA StorageOKImpliesBut ==
    ASSUME NEW p, StorageOK(p), NEW c \in Components, NEW m \in Modules
    PROVE  StorageOKBut(p, c, m)
  BY DEF StorageOK, StorageOKBut, ExternalPositionsTrackedIn, PositionsVisibleIn

\* Writing the unit of an external position that is listed, or that belongs
\* to a PerpV2 module, completes the storage, provided the unit of a module
\* of the library does not become zero.
LEMMA EditExternalPositionUnitOK ==
    ASSUME NEW p, NEW c \in Components, NEW m \in Modules, StorageOKBut(p, c, m),
           NEW u \in Int, NEW q \in editExternalPositionUnit(p, c, m, u),
           m \in PerpModules \/ (u # 0 /\ isExternalPositionModule(p, c, m))
    PROVE  /\ StorageOK(q)
           /\ q.externalPositionModules = p.externalPositionModules
  <1>1. PICK v \in convertRealToVirtualUnit(p, u) :
            q = [p EXCEPT !.externalPositions[c][m].virtualUnit = v]
    BY DEF editExternalPositionUnit
  <1>2. /\ p \in StorageType
        /\ p.positionMultiplier \in Int /\ p.positionMultiplier > 0
    BY DEF StorageOKBut, StorageType
  <1>3. /\ v \in Int
        /\ u = 0 => v = 0
        /\ u > 0 => v > 0 /\ convertVirtualToRealUnit(p, v) > 0
        /\ u < 0 => v < 0
    BY <1>1, <1>2, ConvertSign
  <1>4. /\ q \in StorageType
        /\ q.components = p.components
        /\ q.virtualUnit = p.virtualUnit
        /\ q.externalPositionModules = p.externalPositionModules
        /\ q.positionMultiplier = p.positionMultiplier
    <2> DEFINE r == [p.externalPositions[c][m] EXCEPT !.virtualUnit = v]
    <2>1. r \in [virtualUnit : Int, data : Data]
      <3>1. p.externalPositions[c][m] \in [virtualUnit : Int, data : Data]
        BY <1>2, ExternalPositionType
      <3> QED BY <1>3, <3>1
    <2>2. q = [p EXCEPT !.externalPositions[c][m] = r]
      BY <1>1
    <2>3. q \in StorageType
      BY <1>2, <2>1, <2>2, ReplaceExternalPosition
    <2> QED BY <1>1, <1>2, <2>3 DEF StorageType
  <1>5. \A x \in Components, n \in Modules :
            /\ q.externalPositions[x][n].data = p.externalPositions[x][n].data
            /\ q.externalPositions[x][n].virtualUnit =
                 IF x = c /\ n = m THEN v ELSE p.externalPositions[x][n].virtualUnit
    BY <1>1, <1>2, <1>3 DEF StorageType
  <1>6. ComponentsTrackedIn(q)
    BY <1>4 DEF StorageOKBut, ComponentsTrackedIn, isComponent, hasExternalPosition
  <1>7. ExternalPositionsTrackedIn(q)
    <2>1. m \notin PerpModules => v # 0 /\ isExternalPositionModule(p, c, m)
      BY <1>3
    <2> QED BY <1>4, <1>5, <2>1
            DEF StorageOKBut, ExternalPositionsTrackedIn, isExternalPositionModule
  <1>8. PositionsVisibleIn(q)
    <2>1. ASSUME NEW x \in Components, NEW n \in Modules,
                 isExternalPositionModule(q, x, n)
          PROVE  LET unit == q.externalPositions[x][n].virtualUnit
                     real == getExternalPositionRealUnit(q, x, n)
                 IN  (unit > 0 <=> real > 0) /\ (unit < 0 <=> real < 0)
      <3>1. CASE x = c /\ n = m
        <4>1. getExternalPositionRealUnit(q, x, n) = convertVirtualToRealUnit(p, v)
          BY <1>4, <1>5, <3>1 DEF getExternalPositionRealUnit, convertVirtualToRealUnit
        <4>2. /\ convertVirtualToRealUnit(p, v) > 0 => v > 0
              /\ convertVirtualToRealUnit(p, v) < 0 <=> v < 0
          BY <1>2, <1>3, RealUnitSign
        <4>3. v > 0 => convertVirtualToRealUnit(p, v) > 0
          BY <1>3
        <4> QED BY <1>5, <3>1, <4>1, <4>2, <4>3
      <3>2. CASE ~(x = c /\ n = m)
        <4>1. /\ q.externalPositions[x][n].virtualUnit = p.externalPositions[x][n].virtualUnit
              /\ getExternalPositionRealUnit(q, x, n) = getExternalPositionRealUnit(p, x, n)
          BY <1>4, <1>5, <3>2 DEF getExternalPositionRealUnit, convertVirtualToRealUnit
        <4>2. isExternalPositionModule(p, x, n)
          BY <1>4, <2>1 DEF isExternalPositionModule
        <4> QED BY <3>2, <4>1, <4>2 DEF StorageOKBut
      <3> QED BY <3>1, <3>2
    <2>2. \A x \in Components : /\ q.virtualUnit[x] >= 0
                                /\ q.virtualUnit[x] > 0 => hasDefaultPosition(q, x)
      BY <1>4 DEF StorageOKBut, hasDefaultPosition,
                  getDefaultPositionRealUnit, convertVirtualToRealUnit
    <2> QED BY <1>2, <1>4, <2>1, <2>2 DEF PositionsVisibleIn
  <1> QED BY <1>4, <1>6, <1>7, <1>8 DEF StorageOK

\* Writing the data of a listed position keeps the storage well formed.
LEMMA EditExternalPositionDataOK ==
    ASSUME NEW p, StorageOK(p), NEW c \in Components, NEW m \in Modules,
           NEW d \in Data, NEW q \in editExternalPositionData(p, c, m, d),
           isExternalPositionModule(p, c, m)
    PROVE  StorageOK(q)
  <1>1. q = [p EXCEPT !.externalPositions[c][m].data = d]
    BY DEF editExternalPositionData
  <1>2. p \in StorageType
    BY DEF StorageOK
  <1>3. /\ q \in StorageType
        /\ q.components = p.components
        /\ q.virtualUnit = p.virtualUnit
        /\ q.externalPositionModules = p.externalPositionModules
        /\ q.positionMultiplier = p.positionMultiplier
    <2> DEFINE r == [p.externalPositions[c][m] EXCEPT !.data = d]
    <2>1. r \in [virtualUnit : Int, data : Data]
      <3>1. p.externalPositions[c][m] \in [virtualUnit : Int, data : Data]
        BY <1>2, ExternalPositionType
      <3> QED BY <3>1
    <2>2. q = [p EXCEPT !.externalPositions[c][m] = r]
      BY <1>1
    <2>3. q \in StorageType
      BY <1>2, <2>1, <2>2, ReplaceExternalPosition
    <2> QED BY <1>1, <1>2, <2>3 DEF StorageType
  <1>4. \A x \in Components, n \in Modules :
            /\ q.externalPositions[x][n].virtualUnit =
                 p.externalPositions[x][n].virtualUnit
            /\ q.externalPositions[x][n].data =
                 IF x = c /\ n = m THEN d ELSE p.externalPositions[x][n].data
    BY <1>1, <1>2 DEF StorageType
  <1>5. ComponentsTrackedIn(q)
    BY <1>3 DEF StorageOK, ComponentsTrackedIn, isComponent, hasExternalPosition
  <1>6. ExternalPositionsTrackedIn(q)
    BY <1>3, <1>4 DEF StorageOK, ExternalPositionsTrackedIn, isExternalPositionModule
  <1>7. PositionsVisibleIn(q)
    BY <1>3, <1>4
       DEF StorageOK, PositionsVisibleIn, hasDefaultPosition, getDefaultPositionRealUnit,
           isExternalPositionModule, getExternalPositionRealUnit, convertVirtualToRealUnit
  <1> QED BY <1>3, <1>5, <1>6, <1>7 DEF StorageOK

-----------------------------------------------------------------------------
\* Listing a module for a component that is tracked, or is tracked in the
\* same call, leaves only the unit of the new entry to be written.
LEMMA AddExternalPositionModuleOK ==
    ASSUME NEW p, StorageOK(p), NEW c \in Components, NEW m \in Modules,
           ~isExternalPositionModule(p, c, m),
           NEW A \in Seq(Components), ~hasDuplicate(A),
           \A x : contains(A, x) <=> contains(p.components, x) \/ x = c,
           NEW q, q = [p EXCEPT !.components = A,
                                !.externalPositionModules[c] = Append(@, m)]
    PROVE  StorageOKBut(q, c, m) /\ isExternalPositionModule(q, c, m)
  <1> DEFINE X == p.externalPositionModules
             Y == q.externalPositionModules
  <1>1. p \in StorageType
    BY DEF StorageOK
  <1>2. X \in [Components -> Seq(Modules)]
    BY <1>1 DEF StorageType
  <1>3. /\ Append(X[c], m) \in Seq(Modules)
        /\ ~hasDuplicate(Append(X[c], m))
        /\ \A n : contains(Append(X[c], m), n) <=> contains(X[c], n) \/ n = m
        /\ Len(Append(X[c], m)) = Len(X[c]) + 1
    <2>1. X[c] \in Seq(Modules) /\ ~hasDuplicate(X[c]) /\ ~contains(X[c], m)
      BY <1>2 DEF StorageOK, ComponentsTrackedIn, isExternalPositionModule
    <2> QED BY <2>1, AppendAbsent
  <1>4. /\ q.components = A
        /\ q.virtualUnit = p.virtualUnit
        /\ Y = [X EXCEPT ![c] = Append(X[c], m)]
        /\ q.externalPositions = p.externalPositions
        /\ q.positionMultiplier = p.positionMultiplier
    BY <1>1 DEF StorageType
  <1>5. q \in StorageType
    <2>1. Y \in [Components -> Seq(Modules)]
      BY <1>2, <1>3, <1>4
    <2> QED BY <1>1, <1>4, <2>1 DEF StorageType
  <1>6. \A x \in Components : Y[x] = IF x = c THEN Append(X[c], m) ELSE X[x]
    BY <1>2, <1>4
  <1>7. Len(X[c]) \in Nat
    BY <1>2
  <1>8. ComponentsTrackedIn(q)
    <2>1. ASSUME NEW x \in Components
          PROVE  /\ ~hasDuplicate(Y[x])
                 /\ isComponent(q, x) <=> q.virtualUnit[x] # 0 \/ hasExternalPosition(q, x)
      <3>1. /\ ~hasDuplicate(X[x])
            /\ isComponent(p, x) <=> p.virtualUnit[x] # 0 \/ hasExternalPosition(p, x)
        BY DEF StorageOK, ComponentsTrackedIn
      <3>2. CASE x = c
        <4>1. Len(Y[x]) > 0
          <5>1. Y[x] = Append(X[c], m)
            BY <1>6, <3>2
          <5> QED BY <1>3, <1>7, <5>1
        <4>2. isComponent(q, x)
          BY <1>4, <3>2 DEF isComponent
        <4> QED BY <1>3, <1>6, <3>2, <4>1, <4>2 DEF hasExternalPosition
      <3>3. CASE x # c
        BY <1>4, <1>6, <3>1, <3>3 DEF isComponent, hasExternalPosition
      <3> QED BY <3>2, <3>3
    <2> QED BY <1>4, <2>1 DEF ComponentsTrackedIn
  <1>9. \A x \in Components, n \in Modules :
            isExternalPositionModule(q, x, n) <=>
                isExternalPositionModule(p, x, n) \/ (x = c /\ n = m)
    BY <1>3, <1>6 DEF isExternalPositionModule
  <1>10. \A x \in Components, n \in Modules :
            getExternalPositionRealUnit(q, x, n) = getExternalPositionRealUnit(p, x, n)
    BY <1>4 DEF getExternalPositionRealUnit, convertVirtualToRealUnit
  <1>11. \A x \in Components : /\ q.virtualUnit[x] >= 0
                               /\ q.virtualUnit[x] > 0 => hasDefaultPosition(q, x)
    BY <1>4 DEF StorageOK, PositionsVisibleIn, hasDefaultPosition,
                getDefaultPositionRealUnit, convertVirtualToRealUnit
  <1>12. StorageOKBut(p, c, m)
    BY StorageOKImpliesBut
  <1>13. p.positionMultiplier > 0
    BY <1>12 DEF StorageOKBut
  <1>14. \A x \in Components, n \in Modules :
            LET position == q.externalPositions[x][n]
                listed == isExternalPositionModule(q, x, n)
                real == getExternalPositionRealUnit(q, x, n)
            IN  /\ position.data # NoData => listed
                /\ (x # c \/ n # m) =>
                    /\ n \notin PerpModules => (position.virtualUnit # 0 <=> listed)
                    /\ listed => /\ position.virtualUnit > 0 <=> real > 0
                                 /\ position.virtualUnit < 0 <=> real < 0
    BY <1>4, <1>9, <1>10, <1>12 DEF StorageOKBut
  <1> QED BY <1>4, <1>5, <1>8, <1>9, <1>11, <1>13, <1>14 DEF StorageOKBut

\* Opening or resizing an external position keeps the storage well formed.
LEMMA SetExternalPositionOK ==
    ASSUME NEW p, StorageOK(p), NEW c \in Components, NEW m \in Modules,
           NEW u \in Int, u # 0, NEW d \in Data,
           NEW q \in setExternalPosition(p, c, m, u, d)
    PROVE  StorageOK(q)
  <1> DEFINE tracked ==
                IF ~isComponent(p, c)
                THEN UNION {addExternalPositionModule(r, c, m) : r \in addComponent(p, c)}
                ELSE IF ~isExternalPositionModule(p, c, m)
                     THEN addExternalPositionModule(p, c, m)
                     ELSE {p}
  <1>1. PICK t \in tracked : \E s \in editExternalPositionUnit(t, c, m, u) :
                                q \in editExternalPositionData(s, c, m, d)
    <2>1. q \in UNION {editExternalPositionData(s, c, m, d) :
                s \in UNION {editExternalPositionUnit(t, c, m, u) : t \in tracked}}
      BY DEF setExternalPosition, Then
    <2> HIDE DEF tracked
    <2> QED BY <2>1
  <1>2. p \in StorageType /\ p.components \in Seq(Components)
                          /\ ~hasDuplicate(p.components)
    BY DEF StorageOK, StorageType, ComponentsTrackedIn
  <1>3. StorageOKBut(t, c, m) /\ isExternalPositionModule(t, c, m)
    <2>1. CASE ~isComponent(p, c)
      <3>1. PICK r \in addComponent(p, c) : t \in addExternalPositionModule(r, c, m)
        BY <1>1, <2>1
      <3>2. r = [p EXCEPT !.components = Append(p.components, c)]
        BY <3>1 DEF addComponent, require
      <3>3. /\ Append(p.components, c) \in Seq(Components)
            /\ ~hasDuplicate(Append(p.components, c))
            /\ \A x : contains(Append(p.components, c), x) <=>
                          contains(p.components, x) \/ x = c
        BY <1>2, <2>1, AppendAbsent DEF isComponent
      <3>4. /\ t = [p EXCEPT !.components = Append(p.components, c),
                             !.externalPositionModules[c] = Append(@, m)]
            /\ ~isExternalPositionModule(p, c, m)
        BY <1>2, <3>1, <3>2
           DEF addExternalPositionModule, require, isExternalPositionModule, StorageType
      <3> QED BY <3>3, <3>4, AddExternalPositionModuleOK
    <2>2. CASE isComponent(p, c) /\ ~isExternalPositionModule(p, c, m)
      <3>1. t = [p EXCEPT !.externalPositionModules[c] = Append(@, m)]
        BY <1>1, <2>2 DEF addExternalPositionModule, require
      <3>2. t = [p EXCEPT !.components = p.components,
                          !.externalPositionModules[c] = Append(@, m)]
        BY <1>2, <3>1 DEF StorageType
      <3>3. \A x : contains(p.components, x) <=> contains(p.components, x) \/ x = c
        BY <2>2 DEF isComponent
      <3> QED BY <1>2, <2>2, <3>2, <3>3, AddExternalPositionModuleOK
    <2>3. CASE isComponent(p, c) /\ isExternalPositionModule(p, c, m)
      <3>1. t = p
        BY <1>1, <2>3
      <3> QED BY <2>3, <3>1, StorageOKImpliesBut
    <2> QED BY <2>1, <2>2, <2>3
  <1>4. PICK s \in editExternalPositionUnit(t, c, m, u) :
            q \in editExternalPositionData(s, c, m, d)
    BY <1>1
  <1>5. StorageOK(s) /\ s.externalPositionModules = t.externalPositionModules
    BY <1>3, <1>4, EditExternalPositionUnitOK
  <1>6. isExternalPositionModule(s, c, m)
    BY <1>3, <1>5 DEF isExternalPositionModule
  <1> QED BY <1>4, <1>5, <1>6, EditExternalPositionDataOK

-----------------------------------------------------------------------------
\* Removing a listed module keeps the storage well formed when the component
\* is untracked exactly if nothing else is held for it.
LEMMA RemoveExternalPositionModuleOK ==
    ASSUME NEW p, StorageOK(p), NEW c \in Components, NEW m \in Modules,
           isExternalPositionModule(p, c, m),
           NEW A \in Seq(Components), ~hasDuplicate(A),
           \A x : contains(A, x) <=>
                    /\ contains(p.components, x)
                    /\ x = c => \/ p.virtualUnit[c] # 0
                                \/ Len(p.externalPositionModules[c]) > 1,
           NEW q, q = [p EXCEPT !.components = A,
                                !.externalPositionModules[c] = removeStorage(@, m),
                                !.externalPositions[c][m] = NoExternalPosition]
    PROVE  StorageOK(q)
  <1> DEFINE X == p.externalPositionModules
             Y == q.externalPositionModules
             R == removeStorage(X[c], m)
  <1>1. p \in StorageType
    BY DEF StorageOK
  <1>2. X \in [Components -> Seq(Modules)] /\ Len(X[c]) \in Nat
    BY <1>1 DEF StorageType
  <1>3. /\ R \in Seq(Modules)
        /\ ~hasDuplicate(R)
        /\ \A n : contains(R, n) <=> contains(X[c], n) /\ n # m
        /\ Len(R) = Len(X[c]) - 1
    <2>1. X[c] \in Seq(Modules) /\ ~hasDuplicate(X[c]) /\ contains(X[c], m)
      BY <1>2 DEF StorageOK, ComponentsTrackedIn, isExternalPositionModule
    <2> QED BY <2>1, RemoveStorageExact
  <1>4. /\ q.components = A
        /\ q.virtualUnit = p.virtualUnit
        /\ Y = [X EXCEPT ![c] = R]
        /\ q.positionMultiplier = p.positionMultiplier
    BY <1>1 DEF StorageType
  <1> HIDE DEF R
  <1>5. q \in StorageType
    <2> DEFINE s == [p EXCEPT !.externalPositions[c][m] = NoExternalPosition]
    <2>1. NoExternalPosition \in [virtualUnit : Int, data : Data]
      BY NoDataAssumption DEF NoExternalPosition
    <2>2. s \in StorageType
      BY <1>1, <2>1, ReplaceExternalPosition
    <2>3. [X EXCEPT ![c] = R] \in [Components -> Seq(Modules)]
      BY <1>2, <1>3
    <2>4. q = [s EXCEPT !.components = A, !.externalPositionModules = [X EXCEPT ![c] = R]]
      BY <1>1 DEF StorageType, R
    <2> HIDE DEF s
    <2> QED BY <2>2, <2>3, <2>4 DEF StorageType
  <1>6. \A x \in Components : Y[x] = IF x = c THEN R ELSE X[x]
    BY <1>2, <1>4
  <1>7. \A x \in Components, n \in Modules :
            q.externalPositions[x][n] =
                IF x = c /\ n = m THEN NoExternalPosition ELSE p.externalPositions[x][n]
    BY <1>1 DEF StorageType
  <1>8. ComponentsTrackedIn(q)
    <2>1. ASSUME NEW x \in Components
          PROVE  /\ ~hasDuplicate(Y[x])
                 /\ isComponent(q, x) <=> q.virtualUnit[x] # 0 \/ hasExternalPosition(q, x)
      <3>1. /\ ~hasDuplicate(X[x])
            /\ isComponent(p, x) <=> p.virtualUnit[x] # 0 \/ hasExternalPosition(p, x)
        BY DEF StorageOK, ComponentsTrackedIn
      <3>2. CASE x = c
        <4>1. Y[x] = R
          BY <1>6, <3>2
        <4>2. Len(Y[x]) > 0 <=> Len(X[c]) > 1
          BY <1>2, <1>3, <4>1
        <4>3. isComponent(q, x) <=> isComponent(p, c) /\
                                     (p.virtualUnit[c] # 0 \/ Len(X[c]) > 1)
          BY <1>4, <3>2 DEF isComponent
        <4>4. Len(X[c]) > 1 => hasExternalPosition(p, c)
          BY <1>2 DEF hasExternalPosition
        <4> QED BY <1>3, <1>4, <3>1, <3>2, <4>1, <4>2, <4>3, <4>4 DEF hasExternalPosition
      <3>3. CASE x # c
        BY <1>4, <1>6, <3>1, <3>3 DEF isComponent, hasExternalPosition
      <3> QED BY <3>2, <3>3
    <2> QED BY <1>4, <2>1 DEF ComponentsTrackedIn
  <1>9. \A x \in Components, n \in Modules :
            isExternalPositionModule(q, x, n) <=>
                isExternalPositionModule(p, x, n) /\ ~(x = c /\ n = m)
    BY <1>3, <1>6 DEF isExternalPositionModule
  <1>10. ExternalPositionsTrackedIn(q)
    <2>1. NoExternalPosition.virtualUnit = 0 /\ NoExternalPosition.data = NoData
      BY DEF NoExternalPosition
    <2> QED BY <1>7, <1>9, <2>1 DEF StorageOK, ExternalPositionsTrackedIn
  <1>11. PositionsVisibleIn(q)
    <2>1. \A x \in Components : /\ q.virtualUnit[x] >= 0
                                /\ q.virtualUnit[x] > 0 => hasDefaultPosition(q, x)
      BY <1>4 DEF StorageOK, PositionsVisibleIn, hasDefaultPosition,
                  getDefaultPositionRealUnit, convertVirtualToRealUnit
    <2>2. \A x \in Components, n \in Modules :
            ~(x = c /\ n = m) =>
                /\ q.externalPositions[x][n] = p.externalPositions[x][n]
                /\ getExternalPositionRealUnit(q, x, n) = getExternalPositionRealUnit(p, x, n)
      BY <1>4, <1>7 DEF getExternalPositionRealUnit, convertVirtualToRealUnit
    <2>3. q.positionMultiplier > 0
      BY <1>4 DEF StorageOK, PositionsVisibleIn
    <2> QED BY <1>9, <2>1, <2>2, <2>3 DEF StorageOK, PositionsVisibleIn
  <1> QED BY <1>5, <1>8, <1>10, <1>11 DEF StorageOK

\* Closing an external position keeps the storage well formed.
LEMMA CloseExternalPositionOK ==
    ASSUME NEW p, StorageOK(p), NEW c \in Components, NEW m \in Modules,
           NEW q \in closeExternalPosition(p, c, m)
    PROVE  StorageOK(q)
  <1> DEFINE X == p.externalPositionModules
             isLast == getDefaultPositionRealUnit(p, c) = 0 /\ Len(X[c]) = 1
  <1>1. /\ p \in StorageType /\ p.components \in Seq(Components)
        /\ X[c] \in Seq(Modules) /\ Len(X[c]) \in Nat
        /\ p.virtualUnit[c] \in Int
        /\ p.positionMultiplier \in Int /\ p.positionMultiplier > 0
    BY DEF StorageOK, StorageType, PositionsVisibleIn
  <1>2. /\ ~hasDuplicate(p.components)
        /\ isComponent(p, c) <=> p.virtualUnit[c] # 0 \/ hasExternalPosition(p, c)
    BY DEF StorageOK, ComponentsTrackedIn
  <1>3. p.virtualUnit[c] = 0 <=> getDefaultPositionRealUnit(p, c) = 0
    <2>1. /\ p.virtualUnit[c] >= 0
          /\ p.virtualUnit[c] > 0 => getDefaultPositionRealUnit(p, c) > 0
      BY DEF StorageOK, PositionsVisibleIn, hasDefaultPosition
    <2>2. /\ getDefaultPositionRealUnit(p, c) \in Int
          /\ p.virtualUnit[c] = 0 => getDefaultPositionRealUnit(p, c) = 0
      BY <1>1, RealUnitSign DEF getDefaultPositionRealUnit
    <2> QED BY <1>1, <2>1, <2>2
  <1>4. CASE getExternalPositionRealUnit(p, c, m) = 0
    BY <1>4 DEF closeExternalPosition
  <1>5. CASE getExternalPositionRealUnit(p, c, m) # 0 /\ ~isLast
    <2>1. q \in removeExternalPositionModule(p, c, m)
      BY <1>5 DEF closeExternalPosition
    <2>2. /\ q = [p EXCEPT !.externalPositionModules[c] = removeStorage(@, m),
                           !.externalPositions[c][m] = NoExternalPosition]
          /\ isExternalPositionModule(p, c, m)
      BY <2>1 DEF removeExternalPositionModule, require
    <2> DEFINE A == p.components
    <2>3. q = [p EXCEPT !.components = A,
                        !.externalPositionModules[c] = removeStorage(@, m),
                        !.externalPositions[c][m] = NoExternalPosition]
      BY <1>1, <2>2 DEF StorageType
    <2>4. Len(X[c]) >= 1
      BY <1>1, <2>2 DEF isExternalPositionModule, contains
    <2>5. p.virtualUnit[c] # 0 \/ Len(X[c]) > 1
      <3>1. getDefaultPositionRealUnit(p, c) = 0 => Len(X[c]) # 1
        BY <1>5
      <3>2. Len(X[c]) # 1 => Len(X[c]) > 1
        <4> DEFINE n == Len(X[c])
        <4>1. n \in Nat /\ n >= 1
          BY <1>1, <2>4
        <4> HIDE DEF n
        <4>2. n # 1 => n > 1
          BY <4>1
        <4> QED BY <4>2 DEF n
      <3> QED BY <1>3, <3>1, <3>2
    <2>6. \A x : contains(A, x) <=>
                    /\ contains(p.components, x)
                    /\ x = c => p.virtualUnit[c] # 0 \/ Len(X[c]) > 1
      BY <2>5
    <2>7. A \in Seq(Components) /\ ~hasDuplicate(A)
      BY <1>1, <1>2
    <2>8. isExternalPositionModule(p, c, m)
      BY <2>2
    <2> HIDE DEF A
    <2> QED BY <2>3, <2>6, <2>7, <2>8, RemoveExternalPositionModuleOK
  <1>6. CASE getExternalPositionRealUnit(p, c, m) # 0 /\ isLast
    <2>1. /\ X[c][1] = m
          /\ q \in UNION {removeExternalPositionModule(r, c, m) : r \in removeComponent(p, c)}
      BY <1>6 DEF closeExternalPosition, require, Then
    <2>2. PICK r \in removeComponent(p, c) : q \in removeExternalPositionModule(r, c, m)
      BY <2>1
    <2> DEFINE A == removeStorage(p.components, c)
    <2>3. r = [p EXCEPT !.components = A] /\ contains(p.components, c)
      BY <2>2 DEF removeComponent, require, isComponent
    <2>4. /\ A \in Seq(Components)
          /\ ~hasDuplicate(A)
          /\ \A x : contains(A, x) <=> contains(p.components, x) /\ x # c
      BY <1>1, <1>2, <2>3, RemoveStorageExact
    <2> HIDE DEF A
    <2>5. /\ q = [p EXCEPT !.components = A,
                           !.externalPositionModules[c] = removeStorage(@, m),
                           !.externalPositions[c][m] = NoExternalPosition]
          /\ isExternalPositionModule(p, c, m)
      BY <1>1, <2>2, <2>3
         DEF removeExternalPositionModule, require, isExternalPositionModule, StorageType
    <2>6. \A x : contains(A, x) <=>
                    /\ contains(p.components, x)
                    /\ x = c => p.virtualUnit[c] # 0 \/ Len(X[c]) > 1
      BY <1>3, <1>6, <2>4
    <2> QED BY <2>4, <2>5, <2>6, RemoveExternalPositionModuleOK
  <1> QED BY <1>4, <1>5, <1>6

-----------------------------------------------------------------------------
\* A non-empty set of natural numbers has a least element.
LEMMA LeastNatural ==
    ASSUME NEW T \in SUBSET Nat, T # {}
    PROVE  \E x \in T : \A y \in T : x <= y
  <1>1. PICK x \in T : \A y \in T : ~(<<y, x>> \in OpToRel(<, Nat))
    BY NatLessThanWellFounded, WFMin
  <1>2. ASSUME NEW y \in T PROVE x <= y
    <2>1. <<y, x>> \notin OpToRel(<, Nat)
      BY <1>1
    <2>2. y < x => <<y, x>> \in OpToRel(<, Nat)
      BY DEF OpToRel
    <2>3. ~(y < x)
      BY <2>1, <2>2, Zenon
    <2>4. x \in Nat /\ y \in Nat
      OBVIOUS
    <2> QED BY <2>3, <2>4
  <1> QED BY <1>2

\* A multiplier that _validateNewMultiplier accepts is positive and leaves
\* every tracked position a real unit of its own sign.
LEMMA EditPositionMultiplierOK ==
    ASSUME NEW p, StorageOK(p), NEW x \in Int,
           NEW q \in editPositionMultiplier(p, x)
    PROVE  StorageOK(q)
  <1> DEFINE units == AbsVirtualUnits(p)
             least == getPositionsAbsMinimumVirtualUnit(p)
  <1>1. /\ q = [p EXCEPT !.positionMultiplier = x]
        /\ units # {}
        /\ conservativePreciseMul(least, x) > 0
    BY DEF editPositionMultiplier, require
  <1>2. /\ p \in StorageType
        /\ p.components \in Seq(Components)
        /\ p.virtualUnit \in [Components -> Int]
        /\ p.externalPositionModules \in [Components -> Seq(Modules)]
    BY DEF StorageOK, StorageType
  <1>3. /\ q \in StorageType
        /\ q.components = p.components
        /\ q.virtualUnit = p.virtualUnit
        /\ q.externalPositionModules = p.externalPositionModules
        /\ q.externalPositions = p.externalPositions
        /\ q.positionMultiplier = x
    BY <1>1, <1>2 DEF StorageType
  <1>4. \A c \in Components : p.virtualUnit[c] \in Int /\ p.virtualUnit[c] >= 0
    BY <1>2 DEF StorageOK, PositionsVisibleIn
  <1>5. \A c \in Components, m \in Modules : p.externalPositions[c][m].virtualUnit \in Int
    <2>1. ASSUME NEW c \in Components, NEW m \in Modules
          PROVE  p.externalPositions[c][m].virtualUnit \in Int
      <3>1. p.externalPositions[c][m] \in [virtualUnit : Int, data : Data]
        BY <1>2, ExternalPositionType
      <3> QED BY <3>1
    <2> QED BY <2>1
  <1>6. Entries(p.components) \subseteq Components
    BY <1>2 DEF Entries
  <1>7. \A c \in Components : Entries(p.externalPositionModules[c]) \subseteq Modules
    <2>1. ASSUME NEW c \in Components
          PROVE  Entries(p.externalPositionModules[c]) \subseteq Modules
      <3>1. p.externalPositionModules[c] \in Seq(Modules)
        BY <1>2
      <3> QED BY <3>1 DEF Entries
    <2> QED BY <2>1
  <1>8. units \in SUBSET (Nat \ {0})
    <2>1. ASSUME NEW u \in units PROVE u \in Nat \ {0}
      <3>1. u # 0
        BY DEF AbsVirtualUnits
      <3>2. CASE \E c \in Entries(p.components) : u = p.virtualUnit[c]
        BY <1>4, <1>6, <3>1, <3>2
      <3>3. CASE \E c \in Entries(p.components) :
                    \E m \in Entries(p.externalPositionModules[c]) :
                        u = abs(p.externalPositions[c][m].virtualUnit)
        <4>1. PICK c \in Components, m \in Modules :
                    u = abs(p.externalPositions[c][m].virtualUnit)
          BY <1>6, <1>7, <3>3
        <4>2. p.externalPositions[c][m].virtualUnit \in Int
          BY <1>5
        <4> QED BY <3>1, <4>1, <4>2 DEF abs
      <3> QED BY <3>2, <3>3 DEF AbsVirtualUnits
    <2> QED BY <2>1
  <1>9. least \in units /\ \A w \in units : least <= w
    <2>1. \E u \in units : \A w \in units : u <= w
      BY <1>1, <1>8, LeastNatural
    <2> QED BY <2>1 DEF getPositionsAbsMinimumVirtualUnit
  <1> HIDE DEF units, least
  <1>10. PRECISE_UNIT \in Nat \ {0}
    BY PreciseUnitAssumption
  <1>11. least \in Nat \ {0} /\ least * x >= PRECISE_UNIT
    BY <1>1, <1>8, <1>9, ConservativeMulSign
  <1>12. x > 0
    <2>1. ASSUME x <= 0 PROVE FALSE
      <3>1. least * x <= 0
        BY <1>11, <2>1
      <3> QED BY <1>10, <1>11, <3>1
    <2> QED BY <2>1
  <1>13. \A w \in units : w * x >= PRECISE_UNIT
    <2>1. ASSUME NEW w \in units PROVE w * x >= PRECISE_UNIT
      <3>1. w \in Int /\ least \in Int /\ least <= w /\ x \in Nat
        BY <1>8, <1>9, <1>12
      <3>2. least * x <= w * x
        BY <3>1, MulMonotonic
      <3> QED BY <1>10, <1>11, <3>1, <3>2
    <2> QED BY <2>1
  <1>14. ComponentsTrackedIn(q) /\ ExternalPositionsTrackedIn(q)
    BY <1>3 DEF StorageOK, ComponentsTrackedIn, ExternalPositionsTrackedIn,
                isComponent, hasExternalPosition, isExternalPositionModule
  <1>15. ASSUME NEW c \in Components
         PROVE  /\ q.virtualUnit[c] >= 0
                /\ q.virtualUnit[c] > 0 => hasDefaultPosition(q, c)
    <2>1. ASSUME p.virtualUnit[c] > 0 PROVE hasDefaultPosition(q, c)
      <3>1. c \in Entries(p.components)
        <4>1. isComponent(p, c)
          BY <2>1, <1>4 DEF StorageOK, ComponentsTrackedIn
        <4> QED BY <4>1 DEF isComponent, contains, Entries
      <3>2. p.virtualUnit[c] \in units
        BY <1>4, <2>1, <3>1 DEF units, AbsVirtualUnits
      <3>3. p.virtualUnit[c] * x >= PRECISE_UNIT
        BY <1>13, <3>2
      <3>4. conservativePreciseMul(p.virtualUnit[c], x) > 0
        BY <1>4, <3>3, ConservativeMulSign
      <3> QED BY <1>3, <3>4
              DEF hasDefaultPosition, getDefaultPositionRealUnit, convertVirtualToRealUnit
    <2> QED BY <1>3, <1>4, <2>1
  <1>16. ASSUME NEW c \in Components, NEW m \in Modules,
                isExternalPositionModule(q, c, m)
         PROVE  LET unit == q.externalPositions[c][m].virtualUnit
                    real == getExternalPositionRealUnit(q, c, m)
                IN  (unit > 0 <=> real > 0) /\ (unit < 0 <=> real < 0)
    <2> DEFINE v == p.externalPositions[c][m].virtualUnit
    <2>1. v \in Int
      BY <1>5
    <2>2. getExternalPositionRealUnit(q, c, m) = convertVirtualToRealUnit(q, v)
      BY <1>3 DEF getExternalPositionRealUnit
    <2>3. v > 0 => v \in units
      <3>1. m \in Entries(p.externalPositionModules[c])
        BY <1>3, <1>16 DEF isExternalPositionModule, contains, Entries
      <3>2. c \in Entries(p.components)
        <4>1. hasExternalPosition(p, c)
          <5>1. p.externalPositionModules[c] \in Seq(Modules)
            BY <1>2
          <5>2. \E i \in 1..Len(p.externalPositionModules[c]) : TRUE
            BY <3>1, <5>1 DEF Entries
          <5>3. Len(p.externalPositionModules[c]) \in Nat
            BY <5>1
          <5> QED BY <5>2, <5>3 DEF hasExternalPosition
        <4>2. isComponent(p, c)
          BY <4>1 DEF StorageOK, ComponentsTrackedIn
        <4> QED BY <4>2 DEF isComponent, contains, Entries
      <3>3. v > 0 => abs(v) = v /\ v # 0
        BY <2>1 DEF abs
      <3>4. abs(v) # 0 => abs(v) \in units
        BY <3>1, <3>2 DEF units, AbsVirtualUnits
      <3> QED BY <3>3, <3>4
    <2>4. v > 0 => convertVirtualToRealUnit(q, v) > 0
      BY <1>3, <1>13, <2>1, <2>3, ConservativeMulSign DEF convertVirtualToRealUnit
    <2>5. /\ convertVirtualToRealUnit(q, v) > 0 => v > 0
          /\ convertVirtualToRealUnit(q, v) < 0 <=> v < 0
      BY <1>3, <1>12, <2>1, RealUnitSign
    <2> QED BY <1>3, <2>2, <2>4, <2>5
  <1>17. PositionsVisibleIn(q)
    BY <1>3, <1>12, <1>15, <1>16 DEF PositionsVisibleIn
  <1> QED BY <1>3, <1>14, <1>17 DEF StorageOK

-----------------------------------------------------------------------------
\* A positive factor cancels.
LEMMA MulCancel ==
    ASSUME NEW a \in Int, NEW b \in Int, NEW k \in Nat \ {0}, a * k <= b * k
    PROVE  a <= b
  <1> SUFFICES ASSUME b + 1 <= a PROVE FALSE
    OBVIOUS
  <1>1. (b + 1) * k <= a * k
    BY MulMonotonic
  <1>2. (b + 1) * k = b * k + k /\ b * k \in Int
    OBVIOUS
  <1> QED BY <1>1, <1>2

\* The unsigned products round down and up.
LEMMA PreciseMulFloor ==
    ASSUME NEW a \in Nat, NEW b \in Nat
    PROVE  /\ preciseMul(a, b) \in Nat
           /\ preciseMul(a, b) * PRECISE_UNIT <= a * b
  <1> DEFINE x == a * b
  <1>1. x \in Nat
    OBVIOUS
  <1> HIDE DEF x
  <1>2. x \div PRECISE_UNIT \in Nat /\ (x \div PRECISE_UNIT) * PRECISE_UNIT <= x
    BY <1>1, DivFloor, PreciseUnitAssumption
  <1> QED BY <1>2 DEF preciseMul, x

LEMMA PreciseMulCeilCovers ==
    ASSUME NEW a \in Nat, NEW b \in Nat
    PROVE  /\ preciseMulCeil(a, b) \in Nat
           /\ preciseMulCeil(a, b) * PRECISE_UNIT >= a * b
  <1> DEFINE x == a * b
             y == (x - 1) \div PRECISE_UNIT
  <1>1. CASE a = 0 \/ b = 0
    <2>1. a * b = 0
      BY <1>1
    <2> QED BY <1>1, <2>1, PreciseUnitAssumption DEF preciseMulCeil
  <1>2. CASE a # 0 /\ b # 0
    <2>1. x \in Nat /\ x >= 1
      BY <1>2
    <2>2. preciseMulCeil(a, b) = y + 1
      BY <1>2 DEF preciseMulCeil
    <2> HIDE DEF x
    <2>3. y \in Nat /\ x - 1 < y * PRECISE_UNIT + PRECISE_UNIT
      BY <2>1, DivFloor, PreciseUnitAssumption
    <2> HIDE DEF y
    <2>4. (y + 1) * PRECISE_UNIT = y * PRECISE_UNIT + PRECISE_UNIT
      BY <2>3, PreciseUnitAssumption
    <2>5. y * PRECISE_UNIT \in Int
      BY <2>3, PreciseUnitAssumption
    <2>6. (y + 1) * PRECISE_UNIT >= x
      BY <2>1, <2>3, <2>4, <2>5, PreciseUnitAssumption
    <2> QED BY <2>2, <2>3, <2>6 DEF x
  <1> QED BY <1>1, <1>2

LEMMA PositionUnitFloor ==
    ASSUME NEW supply \in Nat \ {0}, NEW n \in Nat
    PROVE  /\ getDefaultPositionUnit(supply, n) \in Nat
           /\ getDefaultPositionUnit(supply, n) * supply <= n * PRECISE_UNIT
  <1> DEFINE x == n * PRECISE_UNIT
  <1>1. x \in Nat
    BY PreciseUnitAssumption
  <1> HIDE DEF x
  <1>2. x \div supply \in Nat /\ (x \div supply) * supply <= x
    BY <1>1, DivFloor
  <1> QED BY <1>2 DEF getDefaultPositionUnit, preciseDiv, x

\* A unit stored under a multiplier reads back as no more than was asked for,
\* and as at most one less while the multiplier is at most one.
LEMMA StoredUnitBounds ==
    ASSUME NEW p, p.positionMultiplier \in Int, p.positionMultiplier > 0,
           NEW u \in Nat, NEW v \in convertRealToVirtualUnit(p, u)
    PROVE  /\ convertVirtualToRealUnit(p, v) \in Int
           /\ convertVirtualToRealUnit(p, v) <= u
           /\ p.positionMultiplier <= PRECISE_UNIT => u <= convertVirtualToRealUnit(p, v) + 1
  <1> DEFINE x == p.positionMultiplier
             n == u * PRECISE_UNIT
             r == convertVirtualToRealUnit(p, v)
             y == v * x
  <1>1. x \in Nat \ {0} /\ n \in Int
    BY PreciseUnitAssumption
  <1>2. v = divDown(n, x)
    BY DEF convertRealToVirtualUnit, require, conservativePreciseDiv
  <1>3. v = n \div x
    BY <1>1, <1>2, DivDownFloor
  <1> HIDE DEF n
  <1>4. v \in Int /\ v * x <= n /\ n < v * x + x
    BY <1>1, <1>3, DivFloor
  <1>5. y \in Int
    BY <1>1, <1>4
  <1>6. r = divDown(y, PRECISE_UNIT)
    BY DEF convertVirtualToRealUnit, conservativePreciseMul
  <1>7. y <= n /\ n < y + x
    BY <1>4
  <1> HIDE DEF y, r
  <1>8. r = y \div PRECISE_UNIT
    BY <1>5, <1>6, DivDownFloor, PreciseUnitAssumption
  <1>9. r \in Int /\ r * PRECISE_UNIT <= y /\ y < r * PRECISE_UNIT + PRECISE_UNIT
    BY <1>5, <1>8, DivFloor, PreciseUnitAssumption
  <1>10. r * PRECISE_UNIT <= u * PRECISE_UNIT
    BY <1>5, <1>7, <1>9, <1>1, PreciseUnitAssumption DEF n
  <1>11. r <= u
    BY <1>9, <1>10, MulCancel, PreciseUnitAssumption
  <1>12. ASSUME x <= PRECISE_UNIT PROVE u <= r + 1
    <2>1. SUFFICES ASSUME r + 2 <= u PROVE FALSE
      BY <1>9
    <2>2. (r + 2) * PRECISE_UNIT <= n
      BY <1>9, <2>1, MulMonotonic, PreciseUnitAssumption DEF n
    <2>3. (r + 2) * PRECISE_UNIT = r * PRECISE_UNIT + PRECISE_UNIT + PRECISE_UNIT
      BY <1>9, PreciseUnitAssumption
    <2>4. r * PRECISE_UNIT \in Int
      BY <1>9, PreciseUnitAssumption
    <2> HIDE DEF x
    <2> QED BY <1>1, <1>5, <1>7, <1>9, <1>12, <2>2, <2>3, <2>4, PreciseUnitAssumption
  <1> QED BY <1>9, <1>11, <1>12 DEF r

\* An edit of a default position leaves the other units and the multiplier
\* alone, and the unit reads back as no more than was asked for, as at most one
\* less while the multiplier is at most one, and never as nothing.
LEMMA EditDefaultUnit ==
    ASSUME NEW p, StorageOK(p), NEW c \in Components,
           NEW u \in Nat, NEW q \in editDefaultPosition(p, c, u)
    PROVE  /\ q.positionMultiplier = p.positionMultiplier
           /\ \A d \in Components \ {c} : q.virtualUnit[d] = p.virtualUnit[d]
           /\ getDefaultPositionRealUnit(q, c) <= u
           /\ p.positionMultiplier <= PRECISE_UNIT =>
                u <= getDefaultPositionRealUnit(q, c) + 1
           /\ u > 0 => getDefaultPositionRealUnit(q, c) # 0
  <1>1. /\ p.virtualUnit \in [Components -> Int]
        /\ p.positionMultiplier \in Int /\ p.positionMultiplier > 0
        /\ p \in StorageType
    BY DEF StorageOK, StorageType, PositionsVisibleIn
  <1>2. PICK t : /\ q \in editDefaultPositionUnit(t, c, u)
                 /\ t \in addComponent(p, c) \/ t \in removeComponent(p, c) \/ t = p
    BY DEF editDefaultPosition, Then
  <1>3. /\ t.virtualUnit = p.virtualUnit
        /\ t.positionMultiplier = p.positionMultiplier
        /\ \E A : t = [p EXCEPT !.components = A]
    BY <1>1, <1>2 DEF addComponent, removeComponent, require, StorageType
  <1>4. PICK v \in convertRealToVirtualUnit(t, u) : q = [t EXCEPT !.virtualUnit[c] = v]
    BY <1>2 DEF editDefaultPositionUnit
  <1>5. /\ q.positionMultiplier = p.positionMultiplier
        /\ q.virtualUnit = [p.virtualUnit EXCEPT ![c] = v]
    BY <1>1, <1>3, <1>4 DEF StorageType
  <1>6. /\ convertVirtualToRealUnit(t, v) <= u
        /\ p.positionMultiplier <= PRECISE_UNIT => u <= convertVirtualToRealUnit(t, v) + 1
    BY <1>1, <1>3, StoredUnitBounds
  <1>7. convertVirtualToRealUnit(q, v) = convertVirtualToRealUnit(t, v)
    BY <1>3, <1>5 DEF convertVirtualToRealUnit
  <1>8. q.virtualUnit[c] = v
    BY <1>1, <1>5
  <1>9. u > 0 => convertVirtualToRealUnit(t, v) # 0
    BY <1>4 DEF convertRealToVirtualUnit, require
  <1> QED BY <1>1, <1>5, <1>6, <1>7, <1>8, <1>9 DEF getDefaultPositionRealUnit

\* Default units are never negative, and a component that is not tracked has
\* none.
LEMMA RealUnitNat ==
    ASSUME NEW p, StorageOK(p), NEW c \in Components
    PROVE  /\ getDefaultPositionRealUnit(p, c) \in Nat
           /\ ~isComponent(p, c) => getDefaultPositionRealUnit(p, c) = 0
  <1>1. /\ p.virtualUnit[c] \in Int
        /\ p.positionMultiplier \in Int /\ p.positionMultiplier > 0
        /\ p.virtualUnit[c] >= 0
        /\ ~isComponent(p, c) => p.virtualUnit[c] = 0
    BY DEF StorageOK, StorageType, PositionsVisibleIn, ComponentsTrackedIn
  <1> QED BY <1>1, RealUnitSign DEF getDefaultPositionRealUnit

\* A position derived from a change of balance tracks no more of the new
\* balance than the old position tracked of the old one.
LEMMA CalculateAndEditOK ==
    ASSUME NEW p, StorageOK(p), NEW c \in Components, NEW supply \in Nat,
           NEW pre \in Nat, NEW post \in Nat,
           NEW q \in calculateAndEditDefaultPosition(p, c, supply, pre, post)
    PROVE  /\ StorageOK(q)
           /\ q.positionMultiplier = p.positionMultiplier
           /\ \A d \in Components \ {c} : q.virtualUnit[d] = p.virtualUnit[d]
           /\ post = 0 => getDefaultPositionRealUnit(q, c) = 0
           /\ post > 0 =>
                post * PRECISE_UNIT - getDefaultPositionRealUnit(q, c) * supply
                  >= pre * PRECISE_UNIT - getDefaultPositionRealUnit(p, c) * supply
  <1> DEFINE r == getDefaultPositionRealUnit(p, c)
             z == getDefaultPositionRealUnit(q, c)
             tracked == preciseMul(r, supply)
             airdropped == pre - tracked
  <1>1. r \in Nat
    BY RealUnitNat
  <1>2. PICK u : /\ q \in editDefaultPosition(p, c, u)
                 /\ post = 0 => u = 0
                 /\ post > 0 => u \in calculateDefaultEditPositionUnit(supply, pre, post, r)
    BY DEF calculateAndEditDefaultPosition
  <1>3. tracked \in Nat /\ tracked * PRECISE_UNIT <= r * supply
    BY <1>1, PreciseMulFloor
  <1>4. post > 0 => /\ airdropped >= 0 /\ post >= airdropped /\ supply > 0
                    /\ u = getDefaultPositionUnit(supply, post - airdropped)
    BY <1>2 DEF calculateDefaultEditPositionUnit, require
  <1> HIDE DEF r, tracked
  <1>5. post > 0 => u \in Nat /\ u * supply <= (post - airdropped) * PRECISE_UNIT
    BY <1>3, <1>4, PositionUnitFloor
  <1>6. u \in Nat
    BY <1>2, <1>5
  <1>7. /\ StorageOK(q)
        /\ q.positionMultiplier = p.positionMultiplier
        /\ \A d \in Components \ {c} : q.virtualUnit[d] = p.virtualUnit[d]
        /\ z <= u
    BY <1>2, <1>6, EditDefaultUnit, EditDefaultPositionOK
  <1>8. z \in Nat
    BY <1>7, RealUnitNat
  <1> HIDE DEF z
  <1>9. post = 0 => z = 0
    BY <1>2, <1>7, <1>8
  <1>10. ASSUME post > 0
         PROVE  post * PRECISE_UNIT - z * supply >= pre * PRECISE_UNIT - r * supply
    <2>1. z * supply <= u * supply
      BY <1>6, <1>7, <1>8, MulMonotonic
    <2>2. (post - airdropped) * PRECISE_UNIT
            = post * PRECISE_UNIT - pre * PRECISE_UNIT + tracked * PRECISE_UNIT
      BY <1>3, PreciseUnitAssumption
    <2>3. u * supply <= (post - airdropped) * PRECISE_UNIT
      BY <1>5, <1>10
    <2> DEFINE a == z * supply
               b == u * supply
               d == tracked * PRECISE_UNIT
               e == r * supply
               f == post * PRECISE_UNIT
               g == pre * PRECISE_UNIT
    <2>4. a \in Int /\ b \in Int /\ d \in Int /\ e \in Int /\ f \in Int /\ g \in Int
      BY <1>1, <1>3, <1>6, <1>8, PreciseUnitAssumption
    <2>5. a <= b /\ b <= f - g + d /\ d <= e
      BY <2>1, <2>2, <2>3, <1>3
    <2> HIDE DEF a, b, d, e, f, g
    <2>6. f - a >= g - e
      BY <2>4, <2>5
    <2> QED BY <2>6 DEF a, e, f, g
  <1> QED BY <1>7, <1>9, <1>10 DEF r, z

\* The unit derived from a change of balance is that of the tracked balance
\* plus the change, up to the wei lost when it is stored.
LEMMA CalculatedUnit ==
    ASSUME NEW p, StorageOK(p), NEW c \in Components, NEW supply \in Nat,
           NEW pre \in Nat, NEW post \in Nat, post > 0,
           NEW q \in calculateAndEditDefaultPosition(p, c, supply, pre, post)
    PROVE  LET notional == getDefaultTrackedBalance(p, supply, c) + post - pre
               u == getDefaultPositionUnit(supply, notional)
           IN  /\ supply > 0 /\ notional \in Nat
               /\ getDefaultPositionRealUnit(q, c) \in Nat
               /\ getDefaultPositionRealUnit(q, c) <= u
               /\ p.positionMultiplier <= PRECISE_UNIT =>
                    u <= getDefaultPositionRealUnit(q, c) + 1
               /\ u > 0 => getDefaultPositionRealUnit(q, c) > 0
  <1> DEFINE r == getDefaultPositionRealUnit(p, c)
             tracked == preciseMul(r, supply)
             notional == getDefaultTrackedBalance(p, supply, c) + post - pre
  <1>1. r \in Nat
    BY RealUnitNat
  <1>2. tracked \in Nat
    BY <1>1, PreciseMulFloor
  <1>3. getDefaultTrackedBalance(p, supply, c) = tracked
    <2>1. r * supply = supply * r
      BY <1>1
    <2> QED BY <2>1 DEF getDefaultTrackedBalance, preciseMul
  <1>4. PICK u : /\ q \in editDefaultPosition(p, c, u)
                 /\ u \in calculateDefaultEditPositionUnit(supply, pre, post, r)
    BY DEF calculateAndEditDefaultPosition
  <1>5. /\ pre - tracked >= 0 /\ post >= pre - tracked /\ supply > 0
        /\ u = getDefaultPositionUnit(supply, post - (pre - tracked))
    BY <1>4 DEF calculateDefaultEditPositionUnit, require
  <1> HIDE DEF r, tracked
  <1>6. notional = post - (pre - tracked) /\ notional \in Nat
    BY <1>2, <1>3, <1>5
  <1> HIDE DEF notional
  <1>7. u = getDefaultPositionUnit(supply, notional)
    BY <1>5, <1>6
  <1>8. u \in Nat
    BY <1>5, <1>6, <1>7, PositionUnitFloor
  <1>9. /\ getDefaultPositionRealUnit(q, c) <= u
        /\ p.positionMultiplier <= PRECISE_UNIT =>
             u <= getDefaultPositionRealUnit(q, c) + 1
        /\ u > 0 => getDefaultPositionRealUnit(q, c) # 0
    BY <1>4, <1>8, EditDefaultUnit
  <1>10. getDefaultPositionRealUnit(q, c) \in Nat
    BY <1>4, <1>8, EditDefaultPositionOK, RealUnitNat
  <1> QED BY <1>5, <1>6, <1>7, <1>9, <1>10 DEF notional

\* What an issuer pays in for k more SetTokens leaves the surplus as it was,
\* if it is what they are owed.
LEMMA PaidInCovers ==
    ASSUME NEW r \in Nat, NEW b \in Nat, NEW s \in Nat, NEW k \in Nat, NEW got \in Nat,
           got * PRECISE_UNIT >= r * k
    PROVE  (b + got) * PRECISE_UNIT - r * (s + k) >= b * PRECISE_UNIT - r * s
  <1>1. (b + got) * PRECISE_UNIT = b * PRECISE_UNIT + got * PRECISE_UNIT
    BY PreciseUnitAssumption
  <1>2. r * (s + k) = r * s + r * k
    OBVIOUS
  <1>3. /\ b * PRECISE_UNIT \in Int /\ got * PRECISE_UNIT \in Int
        /\ r * s \in Int /\ r * k \in Int
    BY PreciseUnitAssumption
  <1> QED BY <1>1, <1>2, <1>3

\* So does what a redeemer is paid out for k SetTokens, if it is no more than
\* they were owed.
LEMMA PaidOutCovered ==
    ASSUME NEW r \in Nat, NEW b \in Nat, NEW s \in Nat, NEW k \in Nat, NEW paid \in Nat,
           paid * PRECISE_UNIT <= r * k
    PROVE  (b - paid) * PRECISE_UNIT - r * (s - k) >= b * PRECISE_UNIT - r * s
  <1>1. (b - paid) * PRECISE_UNIT = b * PRECISE_UNIT - paid * PRECISE_UNIT
    BY PreciseUnitAssumption
  <1>2. r * (s - k) = r * s - r * k
    OBVIOUS
  <1>3. /\ b * PRECISE_UNIT \in Int /\ paid * PRECISE_UNIT \in Int
        /\ r * s \in Int /\ r * k \in Int
    BY PreciseUnitAssumption
  <1> QED BY <1>1, <1>2, <1>3

\* What a swap of token s for token t leaves behind once the positions of both
\* follow the balances: every other unit is as it was, and a token of which
\* something is left has no smaller surplus than before.
LEMMA PositionsFollowSwap ==
    ASSUME NEW p, StorageOK(p), NEW s \in Components, NEW t \in Components, s # t,
           NEW supply \in Nat,
           NEW before \in [Components -> Nat], NEW after \in [Components -> Nat],
           \A c \in Components \ {s, t} : after[c] = before[c],
           NEW q \in calculateAndEditDefaultPosition(p, s, supply, before[s], after[s]),
           NEW z \in calculateAndEditDefaultPosition(q, t, supply, before[t], after[t])
    PROVE  /\ StorageOK(z)
           /\ z.positionMultiplier = p.positionMultiplier
           /\ \A c \in {s, t} : after[c] = 0 => getDefaultPositionRealUnit(z, c) = 0
           /\ \A c \in Components : c \notin {s, t} \/ after[c] > 0 =>
                after[c] * PRECISE_UNIT - getDefaultPositionRealUnit(z, c) * supply
                  >= before[c] * PRECISE_UNIT - getDefaultPositionRealUnit(p, c) * supply
  <1> DEFINE real(x, c) == getDefaultPositionRealUnit(x, c)
  <1>1. before[s] \in Nat /\ before[t] \in Nat /\ after[s] \in Nat /\ after[t] \in Nat
    OBVIOUS
  <1>2. /\ StorageOK(q)
        /\ q.positionMultiplier = p.positionMultiplier
        /\ \A d \in Components \ {s} : q.virtualUnit[d] = p.virtualUnit[d]
        /\ after[s] = 0 => real(q, s) = 0
        /\ after[s] > 0 => after[s] * PRECISE_UNIT - real(q, s) * supply
                             >= before[s] * PRECISE_UNIT - real(p, s) * supply
    BY <1>1, CalculateAndEditOK
  <1>3. /\ StorageOK(z)
        /\ z.positionMultiplier = q.positionMultiplier
        /\ \A d \in Components \ {t} : z.virtualUnit[d] = q.virtualUnit[d]
        /\ after[t] = 0 => real(z, t) = 0
        /\ after[t] > 0 => after[t] * PRECISE_UNIT - real(z, t) * supply
                             >= before[t] * PRECISE_UNIT - real(q, t) * supply
    BY <1>1, <1>2, CalculateAndEditOK
  <1>4. /\ \A d \in Components \ {s} : real(q, d) = real(p, d)
        /\ \A d \in Components \ {t} : real(z, d) = real(q, d)
    BY <1>2, <1>3 DEF getDefaultPositionRealUnit, convertVirtualToRealUnit
  <1>5. \A c \in Components : real(p, c) \in Nat
    BY RealUnitNat
  <1> HIDE DEF real
  <1>6. real(z, s) = real(q, s) /\ real(q, t) = real(p, t)
    BY <1>4
  <1>7. ASSUME NEW c \in Components, c \notin {s, t}
        PROVE  after[c] * PRECISE_UNIT - real(z, c) * supply
                 >= before[c] * PRECISE_UNIT - real(p, c) * supply
    <2>1. after[c] = before[c] /\ real(z, c) = real(p, c)
      BY <1>4, <1>7
    <2>2. before[c] * PRECISE_UNIT \in Int /\ real(p, c) * supply \in Int
      BY <1>5, PreciseUnitAssumption
    <2> QED BY <2>1, <2>2
  <1> QED BY <1>2, <1>3, <1>6, <1>7 DEF real

-----------------------------------------------------------------------------
\* A SetToken is created with a well-formed storage.
LEMMA PositionsInitOK == PositionsInit => PositionsInv
  <1> SUFFICES ASSUME PositionsInit PROVE PositionsInv
    OBVIOUS
  <1>1. PICK A \in ComponentLists(MaxComponents), units \in [Components -> PositiveUnits] :
            positions = InitialPositions(A, units)
    BY DEF PositionsInit
  <1>2. PICK k : A \in [1..k -> Components] /\ k \in 1..MaxComponents
    BY DEF ComponentLists
  <1>3. A \in Seq(Components) /\ ~hasDuplicate(A)
    BY <1>2, MaxComponentsAssumption DEF ComponentLists
  <1>4. \A c \in Components : units[c] \in Int /\ units[c] > 0
    BY PositionBookAssumption DEF PositiveUnits
  <1>5. PRECISE_UNIT \in Nat \ {0}
    BY PreciseUnitAssumption
  <1> DEFINE p == InitialPositions(A, units)
  <1>6. /\ p.components = A
        /\ p.virtualUnit = [c \in Components |-> IF contains(A, c) THEN units[c] ELSE 0]
        /\ p.externalPositionModules = [c \in Components |-> <<>>]
        /\ p.externalPositions =
              [c \in Components |-> [m \in Modules |-> NoExternalPosition]]
        /\ p.positionMultiplier = PRECISE_UNIT
    BY DEF InitialPositions
  <1>7. p \in StorageType
    <2>1. p.virtualUnit \in [Components -> Int]
      BY <1>4, <1>6
    <2>2. p.externalPositionModules \in [Components -> Seq(Modules)]
      BY <1>6
    <2>3. NoExternalPosition \in [virtualUnit : Int, data : Data]
      BY NoDataAssumption DEF NoExternalPosition
    <2>4. p.externalPositions \in [Components -> [Modules -> [virtualUnit : Int, data : Data]]]
      BY <1>6, <2>3
    <2> QED BY <1>3, <1>5, <1>6, <2>1, <2>2, <2>4 DEF StorageType, InitialPositions
  <1>8. \A c \in Components : p.externalPositionModules[c] = <<>>
    BY <1>6
  <1>9. ComponentsTrackedIn(p)
    <2>1. ~hasDuplicate(<<>>) /\ Len(<<>>) = 0
      BY DEF hasDuplicate
    <2>2. \A c \in Components : isComponent(p, c) <=> p.virtualUnit[c] # 0
      BY <1>4, <1>6 DEF isComponent
    <2> QED BY <1>3, <1>6, <1>8, <2>1, <2>2 DEF ComponentsTrackedIn, hasExternalPosition
  <1>10. \A c \in Components, m \in Modules : ~isExternalPositionModule(p, c, m)
    BY <1>8 DEF isExternalPositionModule, contains
  <1>11. ExternalPositionsTrackedIn(p)
    <2>1. \A c \in Components, m \in Modules :
            /\ p.externalPositions[c][m].virtualUnit = 0
            /\ p.externalPositions[c][m].data = NoData
      BY <1>6 DEF NoExternalPosition
    <2> QED BY <1>10, <2>1 DEF ExternalPositionsTrackedIn
  <1>12. PositionsVisibleIn(p)
    <2>1. ASSUME NEW c \in Components
          PROVE  /\ p.virtualUnit[c] >= 0
                 /\ p.virtualUnit[c] > 0 => hasDefaultPosition(p, c)
      <3>1. p.virtualUnit[c] = IF contains(A, c) THEN units[c] ELSE 0
        BY <1>6
      <3>2. p.virtualUnit[c] \in Int /\ p.virtualUnit[c] >= 0
        BY <1>4, <3>1
      <3> DEFINE v == p.virtualUnit[c]
      <3>3. ASSUME v > 0 PROVE conservativePreciseMul(v, PRECISE_UNIT) > 0
        <4>1. v \in Int /\ 1 <= v
          BY <3>2, <3>3
        <4> HIDE DEF v
        <4>2. 1 * PRECISE_UNIT <= v * PRECISE_UNIT
          BY <1>5, <4>1, MulMonotonic
        <4>3. v * PRECISE_UNIT >= PRECISE_UNIT
          BY <1>5, <4>1, <4>2
        <4>4. PRECISE_UNIT \in Int
          BY <1>5
        <4>5. conservativePreciseMul(v, PRECISE_UNIT) > 0 <=> v * PRECISE_UNIT >= PRECISE_UNIT
          BY <4>1, <4>4, ConservativeMulSign, Zenon
        <4> QED BY <4>3, <4>5
      <3> QED BY <1>6, <3>2, <3>3
              DEF hasDefaultPosition, getDefaultPositionRealUnit, convertVirtualToRealUnit
    <2> QED BY <1>5, <1>6, <1>10, <2>1 DEF PositionsVisibleIn
  <1> QED BY <1>1, <1>7, <1>9, <1>11, <1>12 DEF PositionsInv, StorageOK

\* Every step of PositionBook keeps the storage well formed.
LEMMA PositionsNextOK == PositionsInv /\ [PositionsNext]_positions => PositionsInv'
  <1> SUFFICES ASSUME PositionsInv, [PositionsNext]_positions PROVE PositionsInv'
    OBVIOUS
  <1>1. StorageOK(positions)
    BY DEF PositionsInv
  <1>2. ASSUME NEW c \in Components, NEW u \in RealUnits, EditDefaultPosition(c, u)
        PROVE  PositionsInv'
    BY <1>1, <1>2, PositionBookAssumption, EditDefaultPositionOK
       DEF EditDefaultPosition, PositionsInv
  <1>3. ASSUME NEW c \in Components, NEW m \in Modules, NEW u \in RealUnits,
               NEW d \in Data, EditExternalPosition(c, m, u, d)
        PROVE  PositionsInv'
    <2>1. u \in Int
      BY PositionBookAssumption
    <2>2. CASE u # 0
      <3>1. positions' \in setExternalPosition(positions, c, m, u, d)
        BY <1>3, <2>2 DEF EditExternalPosition, editExternalPosition
      <3> QED BY <1>1, <2>1, <2>2, <3>1, SetExternalPositionOK DEF PositionsInv
    <2>3. CASE u = 0
      <3>1. positions' \in closeExternalPosition(positions, c, m)
        BY <1>3, <2>3 DEF EditExternalPosition, editExternalPosition, require
      <3> QED BY <1>1, <3>1, CloseExternalPositionOK DEF PositionsInv
    <2> QED BY <2>2, <2>3
  <1>4. ASSUME NEW c \in Components, NEW m \in Modules, NEW u \in RealUnits,
               EditUnitInHook(c, m, u)
        PROVE  PositionsInv'
    <2>1. u \in Int /\ m \in PerpModules
              /\ positions' \in editExternalPositionUnit(positions, c, m, u)
      BY <1>4, PositionBookAssumption DEF EditUnitInHook
    <2>2. StorageOKBut(positions, c, m)
      BY <1>1, StorageOKImpliesBut
    <2> QED BY <2>1, <2>2, EditExternalPositionUnitOK DEF PositionsInv
  <1>5. ASSUME NEW x \in Multipliers, EditPositionMultiplier(x) PROVE PositionsInv'
    BY <1>1, <1>5, PositionBookAssumption, EditPositionMultiplierOK
       DEF EditPositionMultiplier, PositionsInv
  <1>6. CASE UNCHANGED positions
    BY <1>1, <1>6 DEF PositionsInv
  <1> QED BY <1>2, <1>3, <1>4, <1>5, <1>6 DEF PositionsNext

\* The three invariants hold together in every reachable state, for every
\* interleaving of library edits, PerpV2 hooks and multiplier changes.
THEOREM PositionBookInvariant == PositionsSpec => []PositionsInv
  BY PositionsInitOK, PositionsNextOK, PTL DEF PositionsSpec

\* The storage always has its Solidity type.
THEOREM PositionBookTypeOK == PositionsSpec => []PositionsTypeOK
  <1>1. PositionsInv => PositionsTypeOK
    BY DEF PositionsInv, StorageOK, PositionsTypeOK
  <1> QED BY <1>1, PositionBookInvariant, PTL

\* The components array is duplicate-free and lists exactly what is held.
THEOREM PositionBookComponentsTracked == PositionsSpec => []ComponentsTracked
  <1>1. PositionsInv => ComponentsTracked
    BY DEF PositionsInv, StorageOK, ComponentsTracked
  <1> QED BY <1>1, PositionBookInvariant, PTL

\* A module of the library is listed exactly while its unit is not zero.
THEOREM PositionBookExternalPositionsTracked == PositionsSpec => []ExternalPositionsTracked
  <1>1. PositionsInv => ExternalPositionsTracked
    BY DEF PositionsInv, StorageOK, ExternalPositionsTracked
  <1> QED BY <1>1, PositionBookInvariant, PTL

\* No tracked position is rounded away by the multiplier.
THEOREM PositionBookNoPositionVanishes == PositionsSpec => []NoPositionVanishes
  <1>1. PositionsInv => NoPositionVanishes
    BY DEF PositionsInv, StorageOK, NoPositionVanishes
  <1> QED BY <1>1, PositionBookInvariant, PTL

=============================================================================
