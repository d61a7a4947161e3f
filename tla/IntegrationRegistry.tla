------------------------ MODULE IntegrationRegistry ------------------------
(***************************************************************************)
(* contracts/protocol/IntegrationRegistry.sol beside the Controller: the   *)
(* owner's table of adapters, by module and name.                          *)
(***************************************************************************)
EXTENDS Controller

CONSTANTS Names,      \* names of integrations (their hashes)
          Adapters,   \* adapter contracts
          NoAdapter,  \* the null address
          MaxBatch    \* bound on the lists passed to the batch functions

ASSUME RegistryAssumption == NoAdapter \notin Adapters /\ MaxBatch \in Nat

Batches == UNION {[1..i -> [module : Modules, name : Names, adapter : Adapters]] :
                    i \in 0..MaxBatch}

VARIABLE integrations

vars == <<controllerVars, integrations>>

Init ==
    /\ ControllerInit
    /\ integrations = [m \in Modules |-> [n \in Names |-> NoAdapter]]

isValidIntegration(m, n) == integrations[m][n] # NoAdapter

\* The integrations after the batch is written: of two entries for the same
\* module and name the later one stands.
Written(batch) ==
    [m \in Modules |-> [n \in Names |->
        LET writes == {i \in DOMAIN batch : batch[i].module = m /\ batch[i].name = n}
        IN  IF writes = {} THEN integrations[m][n]
            ELSE batch[CHOOSE i \in writes : \A j \in writes : j <= i].adapter]]

\* The adapter is never the null address.  An entry for a module and name
\* already written, by the same batch too, reverts the batch.  addIntegration
\* is the batch of one.
batchAddIntegration(batch) ==
    /\ Len(batch) > 0
    /\ \A i \in DOMAIN batch :
        /\ batch[i].module \in isModule
        /\ ~isValidIntegration(batch[i].module, batch[i].name)
        /\ \A j \in DOMAIN batch : batch[j].module = batch[i].module
                                     /\ batch[j].name = batch[i].name => j = i
    /\ integrations' = Written(batch)
    /\ UNCHANGED controllerVars

batchEditIntegration(batch) ==
    /\ Len(batch) > 0
    /\ \A i \in DOMAIN batch :
        /\ batch[i].module \in isModule
        /\ isValidIntegration(batch[i].module, batch[i].name)
    /\ integrations' = Written(batch)
    /\ UNCHANGED controllerVars

\* The module need not be enabled.
removeIntegration(m, n) ==
    /\ isValidIntegration(m, n)
    /\ integrations' = [integrations EXCEPT ![m][n] = NoAdapter]
    /\ UNCHANGED controllerVars

Next ==
    \/ ControllerNext /\ UNCHANGED integrations
    \/ \E b \in Batches : batchAddIntegration(b) \/ batchEditIntegration(b)
    \/ \E m \in Modules, n \in Names : removeIntegration(m, n)

Spec == Init /\ [][Next]_vars

-----------------------------------------------------------------------------
Lists(A, enabled) == ~hasDuplicate(A) /\ Entries(A) = enabled

\* Each array of the Controller lists exactly the addresses its mapping
\* flags, once each, so that what getModules or getSets reports is what
\* isModule or isSet admits.  A resource is flagged exactly while one identifier
\* leads to it: the identifiers through which the other contracts look
\* resources up never reach one that was removed.
ArraysMatchFlags ==
    /\ Lists(sets, isSet)
    /\ Lists(factories, isFactory)
    /\ Lists(modules, isModule)
    /\ Lists(resources, isResource)
    /\ \A r \in Resources : r \in isResource <=> \E i \in ResourceIds : resourceId[i] = r
    /\ \A i, j \in ResourceIds : resourceId[i] = resourceId[j] /\ i # j
                                   => resourceId[i] = NoResource

=============================================================================
