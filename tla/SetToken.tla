----------------------------- MODULE SetToken -----------------------------
(***************************************************************************)
(* One SetToken (contracts/protocol/SetToken.sol): the life cycle of its   *)
(* modules, the lock with which one module excludes the others over        *)
(* several transactions, and the privileged functions that edit positions  *)
(* and supply.  The Controller can enable and disable a module at any      *)
(* time; the manager and the modules act in any order.                     *)
(*                                                                         *)
(* Holders' balances are ERC20 bookkeeping and are left out: totalSupply   *)
(* stands for them.                                                        *)
(***************************************************************************)
EXTENDS PositionBook

CONSTANTS Managers,          \* accounts that may manage the SetToken
          NoAddress,         \* the null address
          PermanentModules,  \* modules whose removeModule always reverts
          MaxSupply          \* bound on totalSupply

ASSUME SetTokenAssumption ==
    /\ NoAddress \notin Managers
    /\ NoAddress \notin Modules
    /\ PermanentModules \subseteq Modules
    /\ MaxSupply \in Nat

\* The variable positions of PositionBook is the rest of the state.
VARIABLES
    manager,
    locker,
    isLocked,
    modules,         \* the array of initialized modules
    moduleStates,
    totalSupply,
    enabledModules   \* the modules for which controller.isModule holds

vars == <<positions, manager, locker, isLocked, modules, moduleStates,
          totalSupply, enabledModules>>

ModuleState == {"NONE", "PENDING", "INITIALIZED"}

-----------------------------------------------------------------------------
(***************************************************************************)
(* SetTokenCreator.create: at least one module, every one enabled on the   *)
(* Controller, a manager other than the null address; the constructor puts *)
(* the modules in PENDING state.                                           *)
(***************************************************************************)
Init ==
    /\ PositionsInit
    /\ manager \in Managers
    /\ locker = NoAddress
    /\ isLocked = FALSE
    /\ modules = <<>>
    /\ enabledModules \in (SUBSET Modules) \ {{}}
    /\ \E pending \in (SUBSET enabledModules) \ {{}} :
         moduleStates = [m \in Modules |-> IF m \in pending THEN "PENDING" ELSE "NONE"]
    /\ totalSupply = 0

(***************************************************************************)
(* Modifiers.                                                              *)
(***************************************************************************)
onlyManager == manager # NoAddress

onlyModule(m) == moduleStates[m] = "INITIALIZED" /\ m \in enabledModules

whenLockedOnlyLocker(m) == isLocked => locker = m

Privileged(m) == onlyModule(m) /\ whenLockedOnlyLocker(m)

-----------------------------------------------------------------------------
(***************************************************************************)
(* Module life cycle.                                                      *)
(***************************************************************************)
\* Faulty variant for mutation: anyone may add a module.
addModuleByAnyone(m) ==
    /\ moduleStates[m] = "NONE"
    /\ m \in enabledModules
    /\ moduleStates' = [moduleStates EXCEPT ![m] = "PENDING"]
    /\ UNCHANGED <<positions, manager, locker, isLocked, modules, totalSupply,
                   enabledModules>>

addModule(m) ==
    /\ onlyManager
    /\ moduleStates[m] = "NONE"
    /\ m \in enabledModules
    /\ moduleStates' = [moduleStates EXCEPT ![m] = "PENDING"]
    /\ UNCHANGED <<positions, manager, locker, isLocked, modules, totalSupply,
                   enabledModules>>

initializeModule(m) ==
    /\ ~isLocked
    /\ moduleStates[m] = "PENDING"
    /\ moduleStates' = [moduleStates EXCEPT ![m] = "INITIALIZED"]
    /\ modules' = Append(modules, m)
    /\ UNCHANGED <<positions, manager, locker, isLocked, totalSupply, enabledModules>>

removePendingModule(m) ==
    /\ onlyManager
    /\ ~isLocked
    /\ moduleStates[m] = "PENDING"
    /\ moduleStates' = [moduleStates EXCEPT ![m] = "NONE"]
    /\ UNCHANGED <<positions, manager, locker, isLocked, modules, totalSupply,
                   enabledModules>>

\* A module's edit of the positions through the Position library.
LibraryEdit(m) ==
    \/ \E c \in Components, u \in RealUnits : EditDefaultPosition(c, u)
    \/ \E c \in Components, u \in RealUnits, d \in Data :
            EditExternalPosition(c, m, u, d)

\* Faulty variant for mutation: the modules array is not updated.
removeModuleState(m) ==
    /\ onlyManager
    /\ ~isLocked
    /\ moduleStates[m] = "INITIALIZED"
    /\ m \notin PermanentModules
    /\ UNCHANGED positions \/ (Privileged(m) /\ LibraryEdit(m))
    /\ moduleStates' = [moduleStates EXCEPT ![m] = "NONE"]
    /\ UNCHANGED <<manager, locker, isLocked, modules, totalSupply, enabledModules>>

\* Faulty variant for mutation: a module is removed while the lock is held.
removeModuleWhileLocked(m) ==
    /\ onlyManager
    /\ moduleStates[m] = "INITIALIZED"
    /\ m \notin PermanentModules
    /\ UNCHANGED positions
    /\ moduleStates' = [moduleStates EXCEPT ![m] = "NONE"]
    /\ modules' = removeStorage(modules, m)
    /\ UNCHANGED <<manager, locker, isLocked, totalSupply, enabledModules>>

\* The module is called back before its state changes: it may refuse, or
\* synchronise a position (the leverage modules do) with the privileges that
\* it still has.
removeModule(m) ==
    /\ onlyManager
    /\ ~isLocked
    /\ moduleStates[m] = "INITIALIZED"
    /\ m \notin PermanentModules
    /\ UNCHANGED positions \/ (Privileged(m) /\ LibraryEdit(m))
    /\ moduleStates' = [moduleStates EXCEPT ![m] = "NONE"]
    /\ modules' = removeStorage(modules, m)
    /\ UNCHANGED <<manager, locker, isLocked, totalSupply, enabledModules>>

\* The null address winds the SetToken down: nobody is manager afterwards.
setManager(newManager) ==
    /\ onlyManager
    /\ ~isLocked
    /\ manager' = newManager
    /\ UNCHANGED <<positions, locker, isLocked, modules, moduleStates,
                   totalSupply, enabledModules>>

(***************************************************************************)
(* The lock.                                                               *)
(***************************************************************************)
lock(m) ==
    /\ onlyModule(m)
    /\ ~isLocked
    /\ locker' = m
    /\ isLocked' = TRUE
    /\ UNCHANGED <<positions, manager, modules, moduleStates, totalSupply,
                   enabledModules>>

\* Faulty variant for mutation: the locker is not checked against the
\* Controller.
unlockByLocker(m) ==
    /\ isLocked
    /\ locker = m
    /\ locker' = NoAddress
    /\ isLocked' = FALSE
    /\ UNCHANGED <<positions, manager, modules, moduleStates, totalSupply,
                   enabledModules>>

unlock(m) ==
    /\ onlyModule(m)
    /\ isLocked
    /\ locker = m
    /\ locker' = NoAddress
    /\ isLocked' = FALSE
    /\ UNCHANGED <<positions, manager, modules, moduleStates, totalSupply,
                   enabledModules>>

(***************************************************************************)
(* Privileged module functions.                                            *)
(***************************************************************************)
editPositions(m) ==
    /\ Privileged(m)
    /\ \/ LibraryEdit(m)
       \/ \E c \in Components, u \in RealUnits : EditUnitInHook(c, m, u)
       \/ \E x \in Multipliers : EditPositionMultiplier(x)
    /\ UNCHANGED <<manager, locker, isLocked, modules, moduleStates, totalSupply,
                   enabledModules>>

mint(m, quantity) ==
    /\ Privileged(m)
    /\ totalSupply + quantity <= MaxSupply
    /\ totalSupply' = totalSupply + quantity
    /\ UNCHANGED <<positions, manager, locker, isLocked, modules, moduleStates,
                   enabledModules>>

\* _burn reverts unless the account holds the quantity.
burn(m, quantity) ==
    /\ Privileged(m)
    /\ quantity <= totalSupply
    /\ totalSupply' = totalSupply - quantity
    /\ UNCHANGED <<positions, manager, locker, isLocked, modules, moduleStates,
                   enabledModules>>

(***************************************************************************)
(* The Controller's owner enables and disables modules at any time.        *)
(***************************************************************************)
ControllerAddModule(m) ==
    /\ m \notin enabledModules
    /\ enabledModules' = enabledModules \cup {m}
    /\ UNCHANGED <<positions, manager, locker, isLocked, modules, moduleStates,
                   totalSupply>>

ControllerRemoveModule(m) ==
    /\ m \in enabledModules
    /\ enabledModules' = enabledModules \ {m}
    /\ UNCHANGED <<positions, manager, locker, isLocked, modules, moduleStates,
                   totalSupply>>

-----------------------------------------------------------------------------
Next ==
    \/ \E m \in Modules :
        \/ addModule(m) \/ initializeModule(m)
        \/ removePendingModule(m) \/ removeModule(m)
        \/ lock(m) \/ unlock(m)
        \/ editPositions(m)
        \/ \E q \in 1..MaxSupply : mint(m, q) \/ burn(m, q)
        \/ ControllerAddModule(m) \/ ControllerRemoveModule(m)
    \/ \E a \in Managers \cup {NoAddress} : setManager(a)

Spec == Init /\ [][Next]_vars

-----------------------------------------------------------------------------
\* Every variable keeps its Solidity type.
TypeOK ==
    /\ PositionsTypeOK
    /\ manager \in Managers \cup {NoAddress}
    /\ locker \in Modules \cup {NoAddress}
    /\ isLocked \in BOOLEAN
    /\ modules \in Seq(Modules)
    /\ moduleStates \in [Modules -> ModuleState]
    /\ totalSupply \in Nat
    /\ enabledModules \in SUBSET Modules

\* The modules array lists exactly the INITIALIZED modules, once each, through
\* every sequence of additions, initializations and swap-and-pop removals.
ModulesListed ==
    /\ ~hasDuplicate(modules)
    /\ Entries(modules) = {m \in Modules : moduleStates[m] = "INITIALIZED"}

\* A locked SetToken has a locker, and the locker is still an INITIALIZED
\* module: the lock never outlives its holder, so the manager cannot be shut
\* out by a module that is gone.
LockerInitialized ==
    /\ isLocked <=> locker # NoAddress
    /\ isLocked => moduleStates[locker] = "INITIALIZED"

\* While the lock is held, the manager, the initialized modules and the
\* locker are frozen, and positions and supply change only if the Controller
\* still enables the locker; a lock whose holder the Controller has disabled
\* can only be waited out.
LockFreezes ==
    [][isLocked =>
         /\ UNCHANGED <<manager, modules>>
         /\ isLocked' => locker' = locker
         /\ \A m \in Modules : moduleStates[m] = "INITIALIZED"
                                <=> moduleStates'[m] = "INITIALIZED"
         /\ locker \notin enabledModules =>
                UNCHANGED <<positions, totalSupply, isLocked>>]_vars

\* Once the manager is the null address it stays so, and from then on no
\* module becomes PENDING and none is removed.
WindDownIsFinal ==
    [][manager = NoAddress =>
         /\ UNCHANGED manager
         /\ \A m \in Modules :
              moduleStates'[m] # moduleStates[m] => moduleStates[m] = "PENDING"]_vars

\* What modules do to the positions, under any interleaving of life cycle,
\* lock and Controller, is what PositionBook allows.
ImplementsPositionBook == PositionsSpec

=============================================================================
