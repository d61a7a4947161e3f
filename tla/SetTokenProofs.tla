-------------------------- MODULE SetTokenProofs --------------------------
(***************************************************************************)
(* SetToken: its positions implement PositionBook, and its module list and *)
(* lock are consistent, for every set of modules, components and managers. *)
(***************************************************************************)
EXTENDS SetToken, PositionBookProofs

-----------------------------------------------------------------------------
\* A step of LibraryEdit is a step of PositionBook.
LEMMA LibraryEditIsBookStep ==
    ASSUME NEW m \in Modules, LibraryEdit(m)
    PROVE  PositionsNext
  BY DEF LibraryEdit, PositionsNext

\* Every step of SetToken leaves the positions alone or is a step of
\* PositionBook.
LEMMA StepIsBookStep ==
    ASSUME [Next]_vars
    PROVE  [PositionsNext]_positions
  <1>1. ASSUME NEW m \in Modules, editPositions(m) PROVE PositionsNext
    <2>1. CASE LibraryEdit(m)
      BY <2>1, LibraryEditIsBookStep
    <2>2. CASE \E c \in Components, u \in RealUnits : EditUnitInHook(c, m, u)
      BY <2>2 DEF PositionsNext
    <2>3. CASE \E x \in Multipliers : EditPositionMultiplier(x)
      BY <2>3 DEF PositionsNext
    <2> QED BY <1>1, <2>1, <2>2, <2>3 DEF editPositions
  <1>2. ASSUME NEW m \in Modules, removeModule(m) PROVE [PositionsNext]_positions
    BY <1>2, LibraryEditIsBookStep DEF removeModule
  <1>3. ASSUME NEW m \in Modules,
               \/ addModule(m) \/ initializeModule(m) \/ removePendingModule(m)
               \/ lock(m) \/ unlock(m)
               \/ (\E q \in 1..MaxSupply : mint(m, q) \/ burn(m, q))
               \/ ControllerAddModule(m) \/ ControllerRemoveModule(m)
        PROVE  UNCHANGED positions
    BY <1>3 DEF addModule, initializeModule, removePendingModule, lock, unlock, mint,
                burn, ControllerAddModule, ControllerRemoveModule
  <1>4. ASSUME NEW a, setManager(a) PROVE UNCHANGED positions
    BY <1>4 DEF setManager
  <1>5. CASE UNCHANGED vars
    BY <1>5 DEF vars
  <1> QED BY <1>1, <1>2, <1>3, <1>4, <1>5 DEF Next

\* The privileged functions of SetToken, gated by module state, lock and
\* Controller, implement the position storage of PositionBook.
THEOREM SetTokenImplementsPositionBook == Spec => ImplementsPositionBook
  <1>1. Init => PositionsInit
    BY DEF Init
  <1>2. [Next]_vars => [PositionsNext]_positions
    BY StepIsBookStep
  <1> QED BY <1>1, <1>2, PTL DEF Spec, ImplementsPositionBook, PositionsSpec

-----------------------------------------------------------------------------
\* The positions of a SetToken are always well formed.
THEOREM SetTokenPositionsOK == Spec => []PositionsInv
  BY SetTokenImplementsPositionBook, PositionBookInvariant, PTL
     DEF ImplementsPositionBook

-----------------------------------------------------------------------------
(***************************************************************************)
(* The life cycle and the lock.                                            *)
(***************************************************************************)
LifecycleType ==
    /\ manager \in Managers \cup {NoAddress}
    /\ locker \in Modules \cup {NoAddress}
    /\ isLocked \in BOOLEAN
    /\ modules \in Seq(Modules)
    /\ moduleStates \in [Modules -> ModuleState]
    /\ totalSupply \in Nat
    /\ enabledModules \in SUBSET Modules

\* The list of modules, stated with contains as the library lemmas are.
ListOK ==
    /\ ~hasDuplicate(modules)
    /\ \A m \in Modules : contains(modules, m) <=> moduleStates[m] = "INITIALIZED"

LifecycleInv == LifecycleType /\ ListOK /\ LockerInitialized

LEMMA ListOKImpliesModulesListed ==
    ASSUME LifecycleType, ListOK
    PROVE  ModulesListed
  <1>1. modules \in Seq(Modules)
    BY DEF LifecycleType
  <1>2. \A x : contains(modules, x) <=> x \in Entries(modules)
    BY DEF contains, Entries
  <1>3. Entries(modules) \subseteq Modules
    BY <1>1 DEF Entries
  <1> QED BY <1>2, <1>3 DEF ListOK, ModulesListed

LEMMA LifecycleInit == Init => LifecycleInv
  <1> SUFFICES ASSUME Init PROVE LifecycleInv
    OBVIOUS
  <1>1. PICK pending \in (SUBSET enabledModules) \ {{}} :
          moduleStates = [m \in Modules |-> IF m \in pending THEN "PENDING" ELSE "NONE"]
    BY DEF Init
  <1>2. modules = <<>> /\ isLocked = FALSE /\ locker = NoAddress /\ manager \in Managers
          /\ totalSupply = 0 /\ enabledModules \in SUBSET Modules
    BY DEF Init
  <1>3. LifecycleType
    <2>1. moduleStates \in [Modules -> ModuleState]
      BY <1>1 DEF ModuleState
    <2>2. modules \in Seq(Modules)
      BY <1>2
    <2> QED BY <1>2, <2>1, <2>2 DEF LifecycleType
  <1>4. ListOK
    BY <1>1, <1>2 DEF ListOK, hasDuplicate, contains
  <1>5. LockerInitialized
    BY <1>2 DEF LockerInitialized
  <1> QED BY <1>3, <1>4, <1>5 DEF LifecycleInv

LEMMA LifecycleNext == LifecycleInv /\ [Next]_vars => LifecycleInv'
  <1> SUFFICES ASSUME LifecycleInv, [Next]_vars PROVE LifecycleInv'
    OBVIOUS
  <1> USE DEF LifecycleInv
  <1>1. LifecycleType /\ ListOK /\ LockerInitialized
    OBVIOUS
  <1>2. ASSUME NEW m \in Modules, addModule(m) PROVE LifecycleInv'
    BY <1>1, <1>2 DEF addModule, LifecycleType, ListOK, LockerInitialized, ModuleState
  <1>3. ASSUME NEW m \in Modules, initializeModule(m) PROVE LifecycleInv'
    <2>1. /\ moduleStates' = [moduleStates EXCEPT ![m] = "INITIALIZED"]
          /\ modules' = Append(modules, m)
          /\ ~isLocked /\ moduleStates[m] = "PENDING"
          /\ UNCHANGED <<manager, locker, isLocked, totalSupply, enabledModules>>
      BY <1>3 DEF initializeModule
    <2>2. modules \in Seq(Modules) /\ ~hasDuplicate(modules) /\ ~contains(modules, m)
      BY <1>1, <2>1 DEF LifecycleType, ListOK
    <2>3. /\ modules' \in Seq(Modules)
          /\ ~hasDuplicate(modules')
          /\ \A x : contains(modules', x) <=> contains(modules, x) \/ x = m
      BY <2>1, <2>2, AppendAbsent
    <2>4. LifecycleType'
      BY <1>1, <2>1, <2>3 DEF LifecycleType, ModuleState
    <2>5. ListOK'
      BY <1>1, <2>1, <2>3 DEF ListOK, LifecycleType
    <2>6. LockerInitialized'
      BY <1>1, <2>1 DEF LockerInitialized
    <2> QED BY <2>4, <2>5, <2>6
  <1>4. ASSUME NEW m \in Modules, removePendingModule(m) PROVE LifecycleInv'
    BY <1>1, <1>4 DEF removePendingModule, LifecycleType, ListOK, LockerInitialized,
                      ModuleState
  <1>5. ASSUME NEW m \in Modules, removeModule(m) PROVE LifecycleInv'
    <2>1. /\ moduleStates' = [moduleStates EXCEPT ![m] = "NONE"]
          /\ modules' = removeStorage(modules, m)
          /\ ~isLocked /\ moduleStates[m] = "INITIALIZED"
          /\ UNCHANGED <<manager, locker, isLocked, totalSupply, enabledModules>>
      BY <1>5 DEF removeModule
    <2>2. modules \in Seq(Modules) /\ ~hasDuplicate(modules) /\ contains(modules, m)
      BY <1>1, <2>1 DEF LifecycleType, ListOK
    <2>3. /\ modules' \in Seq(Modules)
          /\ ~hasDuplicate(modules')
          /\ \A x : contains(modules', x) <=> contains(modules, x) /\ x # m
      BY <2>1, <2>2, RemoveStorageExact
    <2>4. LifecycleType'
      BY <1>1, <2>1, <2>3 DEF LifecycleType, ModuleState
    <2>5. ListOK'
      BY <1>1, <2>1, <2>3 DEF ListOK, LifecycleType
    <2>6. LockerInitialized'
      BY <1>1, <2>1 DEF LockerInitialized
    <2> QED BY <2>4, <2>5, <2>6
  <1>6. ASSUME NEW a \in Managers \cup {NoAddress}, setManager(a) PROVE LifecycleInv'
    BY <1>1, <1>6 DEF setManager, LifecycleType, ListOK, LockerInitialized
  <1>7. ASSUME NEW m \in Modules, lock(m) PROVE LifecycleInv'
    BY <1>1, <1>7, SetTokenAssumption
       DEF lock, onlyModule, LifecycleType, ListOK, LockerInitialized
  <1>8. ASSUME NEW m \in Modules, unlock(m) PROVE LifecycleInv'
    BY <1>1, <1>8 DEF unlock, LifecycleType, ListOK, LockerInitialized
  <1>9. ASSUME NEW m \in Modules, editPositions(m) PROVE LifecycleInv'
    BY <1>1, <1>9 DEF editPositions, LifecycleType, ListOK, LockerInitialized
  <1>10. ASSUME NEW m \in Modules, NEW q \in 1..MaxSupply, mint(m, q) \/ burn(m, q)
         PROVE  LifecycleInv'
    BY <1>1, <1>10, SetTokenAssumption
       DEF mint, burn, LifecycleType, ListOK, LockerInitialized
  <1>11. ASSUME NEW m \in Modules, ControllerAddModule(m) \/ ControllerRemoveModule(m)
         PROVE  LifecycleInv'
    BY <1>1, <1>11 DEF ControllerAddModule, ControllerRemoveModule, LifecycleType,
                       ListOK, LockerInitialized
  <1>12. CASE UNCHANGED vars
    BY <1>1, <1>12 DEF vars, LifecycleType, ListOK, LockerInitialized
  <1> QED BY <1>2, <1>3, <1>4, <1>5, <1>6, <1>7, <1>8, <1>9, <1>10, <1>11, <1>12
          DEF Next

\* Every variable keeps its type.
THEOREM SetTokenTypeOK == Spec => []TypeOK
  <1>1. Spec => []LifecycleInv
    BY LifecycleInit, LifecycleNext, PTL DEF Spec
  <1>2. PositionsInv /\ LifecycleInv => TypeOK
    BY DEF PositionsInv, StorageOK, LifecycleInv, LifecycleType, TypeOK, PositionsTypeOK
  <1> QED BY <1>1, <1>2, SetTokenPositionsOK, PTL

\* The modules array is the set of INITIALIZED modules, without duplicates.
THEOREM SetTokenModulesListed == Spec => []ModulesListed
  <1>1. LifecycleInv => ModulesListed
    BY ListOKImpliesModulesListed DEF LifecycleInv
  <1> QED BY <1>1, LifecycleInit, LifecycleNext, PTL DEF Spec

\* The lock is always held by a module that is still initialized.
THEOREM SetTokenLockerInitialized == Spec => []LockerInitialized
  <1>1. LifecycleInv => LockerInitialized
    BY DEF LifecycleInv
  <1> QED BY <1>1, LifecycleInit, LifecycleNext, PTL DEF Spec

-----------------------------------------------------------------------------
\* While the lock is held nobody but an enabled locker changes anything.
THEOREM SetTokenLockFreezes == Spec => LockFreezes
  <1> DEFINE Frozen ==
        isLocked =>
          /\ UNCHANGED <<manager, modules>>
          /\ isLocked' => locker' = locker
          /\ \A m \in Modules : moduleStates[m] = "INITIALIZED"
                                 <=> moduleStates'[m] = "INITIALIZED"
          /\ locker \notin enabledModules =>
                 UNCHANGED <<positions, totalSupply, isLocked>>
  <1>1. ASSUME LifecycleInv, [Next]_vars PROVE [Frozen]_vars
    <2>1. moduleStates \in [Modules -> ModuleState]
      BY <1>1 DEF LifecycleInv, LifecycleType
    <2>2. ASSUME NEW m \in Modules, addModule(m) PROVE Frozen
      BY <2>1, <2>2 DEF addModule
    <2>3. ASSUME NEW m \in Modules,
                 \/ initializeModule(m) \/ removePendingModule(m)
                 \/ removeModule(m) \/ lock(m)
          PROVE  Frozen
      BY <2>3 DEF initializeModule, removePendingModule, removeModule, lock
    <2>4. ASSUME NEW m \in Modules, unlock(m) PROVE Frozen
      BY <2>4 DEF unlock, onlyModule
    <2>5. ASSUME NEW m \in Modules,
                 editPositions(m) \/ (\E q \in 1..MaxSupply : mint(m, q) \/ burn(m, q))
          PROVE  Frozen
      <3>1. isLocked => locker \in enabledModules
        BY <2>5 DEF editPositions, mint, burn, Privileged, onlyModule, whenLockedOnlyLocker
      <3>2. UNCHANGED <<manager, locker, isLocked, modules, moduleStates>>
        BY <2>5 DEF editPositions, mint, burn
      <3> QED BY <3>1, <3>2
    <2>6. ASSUME NEW m \in Modules, ControllerAddModule(m) \/ ControllerRemoveModule(m)
          PROVE  Frozen
      BY <2>6 DEF ControllerAddModule, ControllerRemoveModule
    <2>7. ASSUME NEW a, setManager(a) PROVE Frozen
      BY <2>7 DEF setManager
    <2> QED BY <1>1, <2>2, <2>3, <2>4, <2>5, <2>6, <2>7 DEF Next
  <1>2. Spec => []LifecycleInv
    BY LifecycleInit, LifecycleNext, PTL DEF Spec
  <1> QED BY <1>1, <1>2, PTL DEF Spec, LockFreezes

\* A SetToken without manager stays without manager and gets no new module.
THEOREM SetTokenWindDownIsFinal == Spec => WindDownIsFinal
  <1> DEFINE Final ==
        manager = NoAddress =>
          /\ UNCHANGED manager
          /\ \A m \in Modules :
               moduleStates'[m] # moduleStates[m] => moduleStates[m] = "PENDING"
  <1>1. ASSUME LifecycleInv, [Next]_vars PROVE [Final]_vars
    <2>1. moduleStates \in [Modules -> ModuleState]
      BY <1>1 DEF LifecycleInv, LifecycleType
    <2>2. ASSUME NEW m \in Modules,
                 addModule(m) \/ removePendingModule(m) \/ removeModule(m)
          PROVE  Final
      BY <2>2 DEF addModule, removePendingModule, removeModule, onlyManager
    <2>3. ASSUME NEW m \in Modules, initializeModule(m) PROVE Final
      BY <2>1, <2>3 DEF initializeModule
    <2>4. ASSUME NEW m \in Modules,
                 \/ lock(m) \/ unlock(m) \/ editPositions(m)
                 \/ (\E q \in 1..MaxSupply : mint(m, q) \/ burn(m, q))
                 \/ ControllerAddModule(m) \/ ControllerRemoveModule(m)
          PROVE  Final
      BY <2>4 DEF lock, unlock, editPositions, mint, burn, ControllerAddModule,
                  ControllerRemoveModule
    <2>5. ASSUME NEW a, setManager(a) PROVE Final
      BY <2>5 DEF setManager, onlyManager
    <2> QED BY <1>1, <2>2, <2>3, <2>4, <2>5 DEF Next
  <1>2. Spec => []LifecycleInv
    BY LifecycleInit, LifecycleNext, PTL DEF Spec
  <1> QED BY <1>1, <1>2, PTL DEF Spec, WindDownIsFinal

=============================================================================
