----------------------------- MODULE Controller -----------------------------
(***************************************************************************)
(* contracts/protocol/Controller.sol: the owner's registry of factories,   *)
(* modules and resources, of the SetTokens the factories create            *)
(* (SetTokenCreator.sol), and of protocol fees.  Every list is kept twice, *)
(* as an array and as a mapping of flags.                                  *)
(***************************************************************************)
EXTENDS AddressArrayUtils

CONSTANTS Sets, Factories, Modules, Resources,  \* contract addresses
          ResourceIds,    \* identifiers of resources
          FeeTypes,       \* fee types of a module
          Fees,           \* protocol fee percentages
          NoResource,     \* the null address
          Accounts,       \* candidates for the protocol fee recipient
          MaxListLength   \* bound on the lists the owner initializes with

ASSUME ControllerAssumption ==
    /\ NoResource \notin Resources
    /\ Fees \subseteq Nat
    /\ MaxListLength \in Nat

\* The owner initializes with lists without repetition, which initialize does
\* not ask for.
InitialLists(S) ==
    {A \in UNION {[1..i -> S] : i \in 0..MaxListLength} : ~hasDuplicate(A)}

VARIABLES sets, factories, modules, resources,         \* the arrays
          isSet, isFactory, isModule, isResource,      \* the flags
          resourceId,     \* the resource of each identifier
          fees,           \* protocol fee of each module and fee type
          feeRecipient,
          isInitialized

arrays == <<sets, factories, modules, resources>>
flags == <<isSet, isFactory, isModule, isResource>>
controllerVars == <<arrays, flags, resourceId, fees, feeRecipient, isInitialized>>

ControllerInit ==
    /\ sets = <<>> /\ factories = <<>> /\ modules = <<>> /\ resources = <<>>
    /\ isSet = {} /\ isFactory = {} /\ isModule = {} /\ isResource = {}
    /\ resourceId = [i \in ResourceIds |-> NoResource]
    /\ fees = [m \in Modules |-> [t \in FeeTypes |-> 0]]
    /\ feeRecipient \in Accounts
    /\ isInitialized = FALSE

\* Once, by the owner.  Neither the factories nor the modules nor the
\* resources are compared with one another; the identifiers are.
initialize(F, M, R, ids) ==
    /\ ~isInitialized
    /\ Len(R) = Len(ids)
    /\ \A i, j \in DOMAIN ids : ids[i] = ids[j] => i = j
    /\ factories' = F /\ modules' = M /\ resources' = R
    /\ isFactory' = Entries(F) /\ isModule' = Entries(M) /\ isResource' = Entries(R)
    /\ resourceId' = [i \in ResourceIds |->
                        IF contains(ids, i) THEN R[indexOf(ids, i)] ELSE NoResource]
    /\ isInitialized' = TRUE
    /\ UNCHANGED <<sets, isSet, fees, feeRecipient>>

addSet(factory, s) ==
    /\ isInitialized
    /\ factory \in isFactory
    /\ s \notin isSet
    /\ isSet' = isSet \cup {s}
    /\ sets' = Append(sets, s)
    /\ UNCHANGED <<factories, modules, resources, isFactory, isModule, isResource,
                   resourceId, fees, feeRecipient, isInitialized>>

\* SetTokenCreator.create, whose modules must all be enabled.
create(factory, s, setModules) ==
    /\ setModules # {}
    /\ setModules \subseteq isModule
    /\ addSet(factory, s)

removeSet(s) ==
    /\ isInitialized
    /\ s \in isSet
    /\ sets' = remove(sets, s)
    /\ isSet' = isSet \ {s}
    /\ UNCHANGED <<factories, modules, resources, isFactory, isModule, isResource,
                   resourceId, fees, feeRecipient, isInitialized>>

addFactory(f) ==
    /\ isInitialized
    /\ f \notin isFactory
    /\ isFactory' = isFactory \cup {f}
    /\ factories' = Append(factories, f)
    /\ UNCHANGED <<sets, modules, resources, isSet, isModule, isResource,
                   resourceId, fees, feeRecipient, isInitialized>>

removeFactory(f) ==
    /\ isInitialized
    /\ f \in isFactory
    /\ factories' = remove(factories, f)
    /\ isFactory' = isFactory \ {f}
    /\ UNCHANGED <<sets, modules, resources, isSet, isModule, isResource,
                   resourceId, fees, feeRecipient, isInitialized>>

\* Faulty variant for mutation: an enabled module is pushed again.
addModuleAgain(m) ==
    /\ isInitialized
    /\ Len(modules) < 3
    /\ isModule' = isModule \cup {m}
    /\ modules' = Append(modules, m)
    /\ UNCHANGED <<sets, factories, resources, isSet, isFactory, isResource,
                   resourceId, fees, feeRecipient, isInitialized>>

addModule(m) ==
    /\ isInitialized
    /\ m \notin isModule
    /\ isModule' = isModule \cup {m}
    /\ modules' = Append(modules, m)
    /\ UNCHANGED <<sets, factories, resources, isSet, isFactory, isResource,
                   resourceId, fees, feeRecipient, isInitialized>>

\* The module's fees are left as they are.
removeModule(m) ==
    /\ isInitialized
    /\ m \in isModule
    /\ modules' = remove(modules, m)
    /\ isModule' = isModule \ {m}
    /\ UNCHANGED <<sets, factories, resources, isSet, isFactory, isResource,
                   resourceId, fees, feeRecipient, isInitialized>>

addResource(r, id) ==
    /\ isInitialized
    /\ r \notin isResource
    /\ resourceId[id] = NoResource
    /\ isResource' = isResource \cup {r}
    /\ resourceId' = [resourceId EXCEPT ![id] = r]
    /\ resources' = Append(resources, r)
    /\ UNCHANGED <<sets, factories, modules, isSet, isFactory, isModule,
                   fees, feeRecipient, isInitialized>>

\* Faulty variant for mutation: the identifier still leads to the resource.
removeResourceKeepingId(id) ==
    /\ isInitialized
    /\ resourceId[id] # NoResource
    /\ contains(resources, resourceId[id])
    /\ resources' = remove(resources, resourceId[id])
    /\ isResource' = isResource \ {resourceId[id]}
    /\ UNCHANGED <<sets, factories, modules, isSet, isFactory, isModule,
                   resourceId, fees, feeRecipient, isInitialized>>

removeResource(id) ==
    LET resourceToRemove == resourceId[id]
    IN  /\ isInitialized
        /\ resourceToRemove # NoResource
        /\ contains(resources, resourceToRemove)
        /\ resources' = remove(resources, resourceToRemove)
        /\ resourceId' = [resourceId EXCEPT ![id] = NoResource]
        /\ isResource' = isResource \ {resourceToRemove}
        /\ UNCHANGED <<sets, factories, modules, isSet, isFactory, isModule,
                       fees, feeRecipient, isInitialized>>

addFee(m, feeType, newFeePercentage) ==
    /\ isInitialized
    /\ m \in isModule
    /\ fees[m][feeType] = 0
    /\ fees' = [fees EXCEPT ![m][feeType] = newFeePercentage]
    /\ UNCHANGED <<arrays, flags, resourceId, feeRecipient, isInitialized>>

editFee(m, feeType, newFeePercentage) ==
    /\ isInitialized
    /\ m \in isModule
    /\ fees[m][feeType] # 0
    /\ fees' = [fees EXCEPT ![m][feeType] = newFeePercentage]
    /\ UNCHANGED <<arrays, flags, resourceId, feeRecipient, isInitialized>>

editFeeRecipient(newFeeRecipient) ==
    /\ isInitialized
    /\ feeRecipient' = newFeeRecipient
    /\ UNCHANGED <<arrays, flags, resourceId, fees, isInitialized>>

ControllerNext ==
    \/ \E F \in InitialLists(Factories), M \in InitialLists(Modules),
          R \in InitialLists(Resources) :
            \E ids \in [DOMAIN R -> ResourceIds] : initialize(F, M, R, ids)
    \/ \E f \in Factories :
        \/ addFactory(f) \/ removeFactory(f)
        \/ \E s \in Sets : addSet(f, s) \/ \E M \in SUBSET Modules : create(f, s, M)
    \/ \E s \in Sets : removeSet(s)
    \/ \E m \in Modules :
        \/ addModule(m) \/ removeModule(m)
        \/ \E t \in FeeTypes, x \in Fees : addFee(m, t, x) \/ editFee(m, t, x)
    \/ \E id \in ResourceIds :
        \/ removeResource(id)
        \/ \E r \in Resources : addResource(r, id)
    \/ \E a \in Accounts : editFeeRecipient(a)

=============================================================================
