---------------------------- MODULE SystemProofs ----------------------------
(***************************************************************************)
(* What stands around the SetTokens and decides over them: the Controller  *)
(* and the IntegrationRegistry, the MultiSigOperator, the ICManager, and   *)
(* the build that the tests of all of them rest on.                        *)
(***************************************************************************)
EXTENDS IntegrationRegistry, MultiSigOperator, ManagerConsent, Toolchain,
        LibraryProofs, FiniteSetTheorems, WellFoundedInduction

(***************************************************************************)
(* The Controller's arrays list what its mappings flag, and resources are  *)
(* flagged while one identifier leads to them: for every set of addresses, *)
(* through every order of the owner's calls.                               *)
(***************************************************************************)

\* One array beside its flags, with the addresses it may list.
ListOK(S, A, enabled) == A \in Seq(S) /\ Lists(A, enabled)

\* The resource flagged is the resource some identifier leads to, and no two
\* identifiers lead to one.
IdsMatch(ids, enabled) ==
    /\ ids \in [ResourceIds -> Resources \cup {NoResource}]
    /\ \A r \in Resources : r \in enabled <=> \E i \in ResourceIds : ids[i] = r
    /\ \A i, j \in ResourceIds : ids[i] = ids[j] /\ i # j => ids[i] = NoResource

RegistryInv ==
    /\ ListOK(Sets, sets, isSet)
    /\ ListOK(Factories, factories, isFactory)
    /\ ListOK(Modules, modules, isModule)
    /\ ListOK(Resources, resources, isResource)
    /\ IdsMatch(resourceId, isResource)

-----------------------------------------------------------------------------
\* A list is what contains finds in it.
LEMMA EntriesContained ==
    ASSUME NEW A, NEW x
    PROVE  x \in Entries(A) <=> contains(A, x)
  BY DEF Entries, contains

\* An address that is not flagged is appended and flagged.
LEMMA AppendListed ==
    ASSUME NEW S, NEW A, NEW enabled, ListOK(S, A, enabled),
           NEW a \in S, a \notin enabled
    PROVE  ListOK(S, Append(A, a), enabled \cup {a})
  <1>1. A \in Seq(S) /\ ~hasDuplicate(A) /\ Entries(A) = enabled
        BY DEF ListOK, Lists
  <1>2. ~contains(A, a) BY <1>1, EntriesContained
  <1>3. /\ Append(A, a) \in Seq(S) /\ ~hasDuplicate(Append(A, a))
        /\ \A x : contains(Append(A, a), x) <=> contains(A, x) \/ x = a
        BY <1>1, <1>2, AppendAbsent
  <1>4. \A x : x \in Entries(Append(A, a)) <=> x \in enabled \cup {a}
        BY <1>1, <1>3, EntriesContained
  <1> QED BY <1>3, <1>4 DEF ListOK, Lists

\* A flagged address is removed and its flag dropped.
LEMMA RemoveListed ==
    ASSUME NEW S, NEW A, NEW enabled, ListOK(S, A, enabled), NEW a \in enabled
    PROVE  ListOK(S, remove(A, a), enabled \ {a})
  <1>1. A \in Seq(S) /\ ~hasDuplicate(A) /\ Entries(A) = enabled
        BY DEF ListOK, Lists
  <1>2. contains(A, a) BY <1>1, EntriesContained
  <1>3. /\ remove(A, a) \in Seq(S) /\ ~hasDuplicate(remove(A, a))
        /\ \A x : contains(remove(A, a), x) <=> contains(A, x) /\ x # a
        BY <1>1, <1>2, RemoveExact
  <1>4. \A x : x \in Entries(remove(A, a)) <=> x \in enabled \ {a}
        BY <1>1, <1>3, EntriesContained
  <1> QED BY <1>3, <1>4 DEF ListOK, Lists

\* initialize pairs each resource with the identifier at its place.
LEMMA InitializeIds ==
    ASSUME NEW R \in Seq(Resources), ~hasDuplicate(R),
           NEW ids \in [DOMAIN R -> ResourceIds],
           \A i, j \in DOMAIN ids : ids[i] = ids[j] => i = j
    PROVE  IdsMatch([i \in ResourceIds |->
                        IF contains(ids, i) THEN R[indexOf(ids, i)] ELSE NoResource],
                    Entries(R))
  <1> DEFINE n == Len(R)
             f == [i \in ResourceIds |->
                      IF contains(ids, i) THEN R[indexOf(ids, i)] ELSE NoResource]
  <1>1. n \in Nat /\ DOMAIN R = 1..n /\ \A k \in 1..n : R[k] \in Resources
        OBVIOUS
  <1>2. \A j, k \in 1..n : R[j] = R[k] => j = k
        BY <1>1 DEF hasDuplicate
  <1> HIDE DEF n
  <1>3. DOMAIN ids = 1..n /\ \A k \in 1..n : ids[k] \in ResourceIds
        BY <1>1
  <1>4. ASSUME NEW i, contains(ids, i)
        PROVE  indexOf(ids, i) \in 1..n /\ ids[indexOf(ids, i)] = i
    <2>1. PICK k \in 1..n : ids[k] = i BY <1>3, <1>4 DEF contains
    <2>2. \A j \in 1..(k - 1) : ids[j] # i BY <1>1, <1>3, <2>1
    <2>3. \E l \in DOMAIN ids : ids[l] = i /\ \A j \in 1..(l - 1) : ids[j] # i
          BY <1>3, <2>1, <2>2
    <2> QED BY <1>3, <2>3 DEF indexOf
  <1>5. ASSUME NEW k \in 1..n PROVE contains(ids, ids[k]) /\ indexOf(ids, ids[k]) = k
    <2>1. contains(ids, ids[k]) BY <1>3 DEF contains
    <2> QED BY <1>3, <1>4, <2>1
  <1>6. \A i \in ResourceIds :
          f[i] = IF contains(ids, i) THEN R[indexOf(ids, i)] ELSE NoResource
        OBVIOUS
  <1>7. f \in [ResourceIds -> Resources \cup {NoResource}]
        BY <1>1, <1>4
  <1> HIDE DEF f
  <1>8. ASSUME NEW r \in Resources
        PROVE  r \in Entries(R) <=> \E i \in ResourceIds : f[i] = r
    <2>1. ASSUME r \in Entries(R) PROVE \E i \in ResourceIds : f[i] = r
      <3>1. PICK k \in 1..n : R[k] = r BY <1>1, <2>1 DEF Entries
      <3> QED BY <1>3, <1>5, <1>6, <3>1
    <2>2. ASSUME NEW i \in ResourceIds, f[i] = r PROVE r \in Entries(R)
      <3>1. contains(ids, i) /\ r = R[indexOf(ids, i)]
            BY <1>6, <2>2, ControllerAssumption
      <3> QED BY <1>1, <1>4, <3>1 DEF Entries
    <2> QED BY <2>1, <2>2
  <1>9. ASSUME NEW i \in ResourceIds, NEW j \in ResourceIds, f[i] = f[j], i # j
        PROVE  f[i] = NoResource
    <2>1. CASE contains(ids, i) /\ contains(ids, j)
      BY <1>2, <1>4, <1>6, <1>9, <2>1
    <2>2. CASE ~contains(ids, i) \/ ~contains(ids, j)
      BY <1>6, <1>9, <2>2
    <2> QED BY <2>1, <2>2
  <1> QED BY <1>7, <1>8, <1>9 DEF IdsMatch, f

-----------------------------------------------------------------------------
\* The lists the owner may initialize with are sequences without repetition.
LEMMA InitialListsDistinct ==
    ASSUME NEW S, NEW A \in InitialLists(S)
    PROVE  A \in Seq(S) /\ ~hasDuplicate(A)
  <1>1. PICK i \in 0..MaxListLength : A \in [1..i -> S]
        BY DEF InitialLists
  <1>2. i \in Nat
        BY ControllerAssumption
  <1> QED BY <1>1, <1>2 DEF InitialLists

\* Every call of the owner and of the factories keeps arrays, flags and
\* identifiers in step.
LEMMA ControllerStep ==
    ASSUME RegistryInv, ControllerNext
    PROVE  RegistryInv'
  <1>0. /\ ListOK(Sets, sets, isSet) /\ ListOK(Factories, factories, isFactory)
        /\ ListOK(Modules, modules, isModule) /\ ListOK(Resources, resources, isResource)
        /\ IdsMatch(resourceId, isResource)
        BY DEF RegistryInv
  <1>1. ASSUME NEW F \in InitialLists(Factories), NEW M \in InitialLists(Modules),
               NEW R \in InitialLists(Resources), NEW ids \in [DOMAIN R -> ResourceIds],
               initialize(F, M, R, ids)
        PROVE  RegistryInv'
    <2>1. /\ F \in Seq(Factories) /\ ~hasDuplicate(F)
          /\ M \in Seq(Modules) /\ ~hasDuplicate(M)
          /\ R \in Seq(Resources) /\ ~hasDuplicate(R)
          BY InitialListsDistinct
    <2>2. IdsMatch(resourceId', isResource')
          BY <1>1, <2>1, InitializeIds DEF initialize
    <2> QED BY <1>0, <1>1, <2>1, <2>2 DEF initialize, RegistryInv, ListOK, Lists
  <1>2. ASSUME NEW s \in Sets, NEW f, addSet(f, s) PROVE RegistryInv'
    <2>1. ListOK(Sets, sets', isSet') BY <1>0, <1>2, AppendListed DEF addSet
    <2> QED BY <1>0, <1>2, <2>1 DEF addSet, RegistryInv
  <1>3. ASSUME NEW s \in Sets, removeSet(s) PROVE RegistryInv'
    <2>1. ListOK(Sets, sets', isSet') BY <1>0, <1>3, RemoveListed DEF removeSet
    <2> QED BY <1>0, <1>3, <2>1 DEF removeSet, RegistryInv
  <1>4. ASSUME NEW f \in Factories, addFactory(f) PROVE RegistryInv'
    <2>1. ListOK(Factories, factories', isFactory')
          BY <1>0, <1>4, AppendListed DEF addFactory
    <2> QED BY <1>0, <1>4, <2>1 DEF addFactory, RegistryInv
  <1>5. ASSUME NEW f \in Factories, removeFactory(f) PROVE RegistryInv'
    <2>1. ListOK(Factories, factories', isFactory')
          BY <1>0, <1>5, RemoveListed DEF removeFactory
    <2> QED BY <1>0, <1>5, <2>1 DEF removeFactory, RegistryInv
  <1>6. ASSUME NEW m \in Modules, addModule(m) PROVE RegistryInv'
    <2>1. ListOK(Modules, modules', isModule') BY <1>0, <1>6, AppendListed DEF addModule
    <2> QED BY <1>0, <1>6, <2>1 DEF addModule, RegistryInv
  <1>7. ASSUME NEW m \in Modules, removeModule(m) PROVE RegistryInv'
    <2>1. ListOK(Modules, modules', isModule') BY <1>0, <1>7, RemoveListed DEF removeModule
    <2> QED BY <1>0, <1>7, <2>1 DEF removeModule, RegistryInv
  <1>8. ASSUME NEW r \in Resources, NEW id \in ResourceIds, addResource(r, id)
        PROVE  RegistryInv'
    <2>0. /\ r \notin isResource /\ resourceId[id] = NoResource
          /\ isResource' = isResource \cup {r}
          /\ resourceId' = [resourceId EXCEPT ![id] = r]
          /\ r # NoResource
          BY <1>8, ControllerAssumption DEF addResource
    <2>1. ListOK(Resources, resources', isResource')
          BY <1>0, <1>8, AppendListed DEF addResource
    <2>2. IdsMatch(resourceId', isResource')
      <3>1. /\ resourceId' \in [ResourceIds -> Resources \cup {NoResource}]
            /\ \A i \in ResourceIds : resourceId'[i] = IF i = id THEN r ELSE resourceId[i]
            BY <1>0, <2>0 DEF IdsMatch
      <3>2. \A i \in ResourceIds : resourceId[i] # r
            BY <1>0, <2>0 DEF IdsMatch
      <3>3. ASSUME NEW x \in Resources
            PROVE  x \in isResource' <=> \E i \in ResourceIds : resourceId'[i] = x
        <4>1. x \in isResource <=> \E i \in ResourceIds : resourceId[i] = x
              BY <1>0 DEF IdsMatch
        <4>2. x # NoResource BY ControllerAssumption
        <4> QED BY <2>0, <3>1, <4>1, <4>2
      <3>4. ASSUME NEW i \in ResourceIds, NEW j \in ResourceIds,
                   resourceId'[i] = resourceId'[j], i # j
            PROVE  resourceId'[i] = NoResource
        BY <1>0, <3>1, <3>2, <3>4 DEF IdsMatch
      <3> QED BY <3>1, <3>3, <3>4 DEF IdsMatch
    <2> QED BY <1>0, <1>8, <2>1, <2>2 DEF addResource, RegistryInv
  <1>9. ASSUME NEW id \in ResourceIds, removeResource(id) PROVE RegistryInv'
    <2> DEFINE r == resourceId[id]
    <2>0. /\ r # NoResource /\ isResource' = isResource \ {r}
          /\ resources' = remove(resources, r)
          /\ resourceId' = [resourceId EXCEPT ![id] = NoResource]
          BY <1>9 DEF removeResource
    <2>17. r \in Resources /\ r \in isResource BY <1>0, <2>0 DEF IdsMatch
    <2>1. ListOK(Resources, resources', isResource')
          BY <1>0, <2>0, <2>17, RemoveListed
    <2>2. IdsMatch(resourceId', isResource')
      <3>1. /\ resourceId' \in [ResourceIds -> Resources \cup {NoResource}]
            /\ \A i \in ResourceIds :
                  resourceId'[i] = IF i = id THEN NoResource ELSE resourceId[i]
            BY <1>0, <2>0 DEF IdsMatch
      <3>2. \A i \in ResourceIds : resourceId[i] = r => i = id
            BY <1>0, <2>0 DEF IdsMatch
      <3> HIDE DEF r
      <3>3. ASSUME NEW x \in Resources
            PROVE  x \in isResource' <=> \E i \in ResourceIds : resourceId'[i] = x
        <4>1. x \in isResource <=> \E i \in ResourceIds : resourceId[i] = x
              BY <1>0 DEF IdsMatch
        <4>2. x # NoResource BY ControllerAssumption
        <4>3. resourceId[id] = r BY DEF r
        <4> QED BY <2>0, <3>1, <3>2, <4>1, <4>2, <4>3
      <3>4. ASSUME NEW i \in ResourceIds, NEW j \in ResourceIds,
                   resourceId'[i] = resourceId'[j], i # j
            PROVE  resourceId'[i] = NoResource
        BY <1>0, <3>1, <3>4 DEF IdsMatch
      <3> QED BY <3>1, <3>3, <3>4 DEF IdsMatch
    <2> QED BY <1>0, <1>9, <2>1, <2>2 DEF removeResource, RegistryInv
  <1>10. ASSUME UNCHANGED <<arrays, flags, resourceId>> PROVE RegistryInv'
    BY <1>0, <1>10 DEF arrays, flags, RegistryInv
  <1> QED
    BY <1>1, <1>2, <1>3, <1>4, <1>5, <1>6, <1>7, <1>8, <1>9, <1>10
       DEF ControllerNext, create, addFee, editFee, editFeeRecipient

\* Arrays, flags and identifiers stay in step whatever is called in whatever
\* order.
THEOREM RegistryInvariant == Spec => []RegistryInv
  <1>1. Init => RegistryInv
    BY ControllerAssumption
       DEF Init, ControllerInit, RegistryInv, ListOK, Lists, IdsMatch, Entries, hasDuplicate
  <1>2. RegistryInv /\ [Next]_vars => RegistryInv'
    <2> SUFFICES ASSUME RegistryInv, [Next]_vars PROVE RegistryInv'
        OBVIOUS
    <2>1. CASE UNCHANGED controllerVars
      BY <2>1 DEF controllerVars, arrays, flags, RegistryInv
    <2> QED
      BY <2>1, ControllerStep
         DEF Next, vars, batchAddIntegration, batchEditIntegration, removeIntegration
  <1> QED BY <1>1, <1>2, PTL DEF Spec

\* What getModules, getSets, getFactories and getResources report is what
\* isModule, isSet, isFactory and isResource admit, and no identifier leads
\* to a removed resource.
THEOREM RegistryArraysMatch == Spec => []ArraysMatchFlags
  <1>1. RegistryInv => ArraysMatchFlags
        BY DEF RegistryInv, ListOK, IdsMatch, ArraysMatchFlags
  <1> QED BY <1>1, RegistryInvariant, PTL

-----------------------------------------------------------------------------

(***************************************************************************)
(* Who decides over a SetToken with an ICManager.  What is executed by the *)
(* MultiSigOperator has its quorum, for every set of owners and every      *)
(* threshold; what the ICManager changes has the consent and the notice it *)
(* takes, for every set of accounts, splits, periods and fees.             *)
(***************************************************************************)

\* The counter of one proposal is the number of owners its flags name, and
\* an executed proposal has its quorum.
ProposalCounted(r, assenting, required) ==
    /\ r.confirmed = assenting
    /\ r.numConfirmations = Cardinality(assenting)
    /\ r.executed => r.numConfirmations >= required

MultiSigInv ==
    /\ MultiSigTypeOK
    /\ ProposalCounted(rebalance, assent.rebalance, numConfirmationsRequired)
    /\ ProposalCounted(operation, assent.operation, numOperationConfirmationsRequired)

-----------------------------------------------------------------------------
\* Adding an owner who is not there yet counts one more.
LEMMA OneMore ==
    ASSUME NEW A \in SUBSET Owners, NEW o \in Owners, o \notin A
    PROVE  /\ A \cup {o} \in SUBSET Owners
           /\ Cardinality(A) \in Nat
           /\ Cardinality(A \cup {o}) = Cardinality(A) + 1
  <1>1. IsFiniteSet(A) BY MultiSigAssumption, FS_Subset
  <1> QED BY <1>1, FS_CardinalityType, FS_AddElement

\* Removing an owner who is there counts one less, and not below zero.
LEMMA OneLess ==
    ASSUME NEW A \in SUBSET Owners, NEW o \in A
    PROVE  /\ A \ {o} \in SUBSET Owners
           /\ Cardinality(A) \in Nat /\ Cardinality(A) > 0
           /\ Cardinality(A \ {o}) = Cardinality(A) - 1
  <1>1. IsFiniteSet(A) BY MultiSigAssumption, FS_Subset
  <1>2. Cardinality(A) \in Nat /\ Cardinality(A \ {o}) = Cardinality(A) - 1
        BY <1>1, FS_CardinalityType, FS_RemoveElement
  <1>3. IsFiniteSet(A \ {o}) BY <1>1, FS_Subset
  <1>4. Cardinality(A \ {o}) \in Nat BY <1>3, FS_CardinalityType
  <1> QED BY <1>2, <1>4

\* A submission starts a proposal without confirmations.
LEMMA SubmittedCounted ==
    ASSUME NEW contents, NEW r \in ProposalType(contents), NEW c \in contents,
           NEW required
    PROVE  /\ submitted(r, c) \in ProposalType(contents)
           /\ ProposalCounted(submitted(r, c), {}, required)
  BY FS_EmptySet DEF submitted, ProposalCounted, ProposalType

\* A confirmation keeps counter and flags in step.
LEMMA ConfirmedCounted ==
    ASSUME NEW contents, NEW r \in ProposalType(contents), NEW o \in Owners,
           NEW A \in SUBSET Owners, NEW required, canConfirm(r, o),
           ProposalCounted(r, A, required)
    PROVE  /\ confirmed(r, o) \in ProposalType(contents)
           /\ ProposalCounted(confirmed(r, o), A \cup {o}, required)
  <1>1. /\ o \notin A /\ r.confirmed = A
        /\ r.numConfirmations = Cardinality(A) /\ ~r.executed
        BY DEF canConfirm, ProposalCounted
  <1>2. /\ A \cup {o} \in SUBSET Owners /\ Cardinality(A) \in Nat
        /\ Cardinality(A \cup {o}) = Cardinality(A) + 1
        BY <1>1, OneMore
  <1> DEFINE s == [r EXCEPT !.numConfirmations = Cardinality(A) + 1]
             t == [s EXCEPT !.confirmed = A \cup {o}]
  <1>3. /\ s \in ProposalType(contents) /\ s.executed = r.executed
        /\ s.numConfirmations = Cardinality(A) + 1
        BY <1>1, <1>2 DEF ProposalType
  <1> HIDE DEF s
  <1>4. /\ t \in ProposalType(contents) /\ t.executed = s.executed
        /\ t.numConfirmations = s.numConfirmations
        /\ t.confirmed = A \cup {o}
        BY <1>2, <1>3 DEF ProposalType
  <1>5. confirmed(r, o) = t
        BY <1>1 DEF confirmed, s
  <1> HIDE DEF t
  <1> QED BY <1>1, <1>2, <1>3, <1>4, <1>5 DEF ProposalCounted

\* So does a revocation.
LEMMA RevokedCounted ==
    ASSUME NEW contents, NEW r \in ProposalType(contents), NEW o \in Owners,
           NEW A \in SUBSET Owners, NEW required, canRevoke(r, o),
           ProposalCounted(r, A, required)
    PROVE  /\ revoked(r, o) \in ProposalType(contents)
           /\ ProposalCounted(revoked(r, o), A \ {o}, required)
  <1>1. /\ o \in A /\ r.confirmed = A
        /\ r.numConfirmations = Cardinality(A) /\ ~r.executed
        BY DEF canRevoke, ProposalCounted
  <1>2. /\ A \ {o} \in SUBSET Owners /\ Cardinality(A) \in Nat /\ Cardinality(A) > 0
        /\ Cardinality(A \ {o}) = Cardinality(A) - 1
        BY <1>1, OneLess
  <1> DEFINE s == [r EXCEPT !.numConfirmations = Cardinality(A) - 1]
             t == [s EXCEPT !.confirmed = A \ {o}]
  <1>3. /\ s \in ProposalType(contents) /\ s.executed = r.executed
        /\ s.numConfirmations = Cardinality(A) - 1
        BY <1>1, <1>2 DEF ProposalType
  <1> HIDE DEF s
  <1>4. /\ t \in ProposalType(contents) /\ t.executed = s.executed
        /\ t.numConfirmations = s.numConfirmations
        /\ t.confirmed = A \ {o}
        BY <1>2, <1>3 DEF ProposalType
  <1>5. revoked(r, o) = t
        BY <1>1 DEF revoked, s
  <1> HIDE DEF t
  <1> QED BY <1>1, <1>2, <1>3, <1>4, <1>5 DEF ProposalCounted

\* An execution finds its quorum counted.
LEMMA ExecutedCounted ==
    ASSUME NEW contents, NEW r \in ProposalType(contents),
           NEW A \in SUBSET Owners, NEW required \in Nat, canExecute(r, required),
           ProposalCounted(r, A, required)
    PROVE  /\ [r EXCEPT !.executed = TRUE] \in ProposalType(contents)
           /\ ProposalCounted([r EXCEPT !.executed = TRUE], A, required)
  BY DEF canExecute, ProposalCounted, ProposalType

-----------------------------------------------------------------------------
\* Through every submission, confirmation, revocation and execution, the
\* counters are the numbers of owners whose last word is a confirmation and
\* executed proposals have their quorum.
THEOREM MultiSigInvariant == MultiSigSpec => []MultiSigInv
  <1>1. MultiSigInit => MultiSigInv
    BY FS_EmptySet, MultiSigAssumption
       DEF MultiSigInit, NoProposal, MultiSigInv, MultiSigTypeOK, ProposalType, ProposalCounted
  <1>2. MultiSigInv /\ [MultiSigNext]_multiSigVars => MultiSigInv'
    <2> SUFFICES ASSUME MultiSigInv, [MultiSigNext]_multiSigVars PROVE MultiSigInv'
        OBVIOUS
    <2>0. /\ rebalance \in ProposalType(Rebalances)
          /\ operation \in ProposalType(Operations)
          /\ assent.rebalance \in SUBSET Owners
          /\ assent.operation \in SUBSET Owners
          /\ assent = [rebalance |-> assent.rebalance, operation |-> assent.operation]
          /\ lastCall \in Rebalances \cup Operations \cup {Empty}
          /\ ProposalCounted(rebalance, assent.rebalance, numConfirmationsRequired)
          /\ ProposalCounted(operation, assent.operation, numOperationConfirmationsRequired)
          BY DEF MultiSigInv, MultiSigTypeOK
    <2>n. /\ numConfirmationsRequired \in Nat
          /\ numOperationConfirmationsRequired \in Nat
      <3>1. Cardinality(Owners) \in Nat BY MultiSigAssumption, FS_CardinalityType
      <3> QED BY <3>1, MultiSigAssumption
    <2>1. ASSUME NEW r \in Rebalances, priorityRebalance(r) PROVE MultiSigInv'
      BY <2>0, <2>1 DEF priorityRebalance, MultiSigInv, MultiSigTypeOK
    <2>2. ASSUME NEW r \in Rebalances, submitRebalance(r) PROVE MultiSigInv'
      <3>1. /\ rebalance' \in ProposalType(Rebalances)
            /\ ProposalCounted(rebalance', {}, numConfirmationsRequired)
        BY <2>0, <2>2, SubmittedCounted DEF submitRebalance
      <3> QED BY <2>0, <2>2, <3>1 DEF submitRebalance, MultiSigInv, MultiSigTypeOK
    <2>3. ASSUME NEW o \in Owners, confirmRebalance(o) PROVE MultiSigInv'
      <3>1. /\ rebalance' \in ProposalType(Rebalances)
            /\ ProposalCounted(rebalance', assent.rebalance \cup {o}, numConfirmationsRequired)
        BY <2>0, <2>3, ConfirmedCounted DEF confirmRebalance
      <3> QED BY <2>0, <2>3, <3>1 DEF confirmRebalance, MultiSigInv, MultiSigTypeOK
    <2>4. ASSUME NEW o \in Owners, revokeConfirmationRebalance(o) PROVE MultiSigInv'
      <3>1. /\ rebalance' \in ProposalType(Rebalances)
            /\ ProposalCounted(rebalance', assent.rebalance \ {o}, numConfirmationsRequired)
        BY <2>0, <2>4, RevokedCounted DEF revokeConfirmationRebalance
      <3> QED BY <2>0, <2>4, <3>1 DEF revokeConfirmationRebalance, MultiSigInv, MultiSigTypeOK
    <2>5. CASE executeRebalance
      <3>1. /\ rebalance' \in ProposalType(Rebalances)
            /\ ProposalCounted(rebalance', assent.rebalance, numConfirmationsRequired)
        BY <2>0, <2>n, <2>5, ExecutedCounted DEF executeRebalance
      <3>2. rebalance.content \in Rebalances \cup {Empty} BY <2>0 DEF ProposalType
      <3> QED BY <2>0, <2>5, <3>1, <3>2 DEF executeRebalance, MultiSigInv, MultiSigTypeOK
    <2>6. ASSUME NEW d \in Operations, submitOperation(d) PROVE MultiSigInv'
      <3>1. /\ operation' \in ProposalType(Operations)
            /\ ProposalCounted(operation', {}, numOperationConfirmationsRequired)
        BY <2>0, <2>6, SubmittedCounted DEF submitOperation
      <3> QED BY <2>0, <2>6, <3>1 DEF submitOperation, MultiSigInv, MultiSigTypeOK
    <2>7. ASSUME NEW o \in Owners, confirmOperation(o) PROVE MultiSigInv'
      <3>1. /\ operation' \in ProposalType(Operations)
            /\ ProposalCounted(operation', assent.operation \cup {o}, numOperationConfirmationsRequired)
        BY <2>0, <2>7, ConfirmedCounted DEF confirmOperation
      <3> QED BY <2>0, <2>7, <3>1 DEF confirmOperation, MultiSigInv, MultiSigTypeOK
    <2>8. ASSUME NEW o \in Owners, revokeConfirmationOperation(o) PROVE MultiSigInv'
      <3>1. /\ operation' \in ProposalType(Operations)
            /\ ProposalCounted(operation', assent.operation \ {o}, numOperationConfirmationsRequired)
        BY <2>0, <2>8, RevokedCounted DEF revokeConfirmationOperation
      <3> QED BY <2>0, <2>8, <3>1 DEF revokeConfirmationOperation, MultiSigInv, MultiSigTypeOK
    <2>9. CASE executeOperation
      <3>1. /\ operation' \in ProposalType(Operations)
            /\ ProposalCounted(operation', assent.operation, numOperationConfirmationsRequired)
        BY <2>0, <2>n, <2>9, ExecutedCounted DEF executeOperation
      <3>2. operation.content \in Operations \cup {Empty} BY <2>0 DEF ProposalType
      <3> QED BY <2>0, <2>9, <3>1, <3>2 DEF executeOperation, MultiSigInv, MultiSigTypeOK
    <2>10. CASE UNCHANGED multiSigVars
      BY <2>0, <2>10 DEF multiSigVars, MultiSigInv, MultiSigTypeOK
    <2> QED
      BY <2>1, <2>2, <2>3, <2>4, <2>5, <2>6, <2>7, <2>8, <2>9, <2>10 DEF MultiSigNext
  <1> QED BY <1>1, <1>2, PTL DEF MultiSigSpec

\* Every state is well typed.
THEOREM MultiSigTypeCorrect == MultiSigSpec => []MultiSigTypeOK
  BY MultiSigInvariant, PTL DEF MultiSigInv

\* Each counter is the number of owners whose last word on the current
\* submission is a confirmation.
THEOREM MultiSigCounted == MultiSigSpec => []ConfirmationsCounted
  <1>1. MultiSigInv => ConfirmationsCounted
        BY DEF MultiSigInv, ProposalCounted, ConfirmationsCounted
  <1> QED BY <1>1, MultiSigInvariant, PTL

\* What has been executed has its quorum of owners behind it.
THEOREM MultiSigQuorum == MultiSigSpec => []ExecutedByQuorum
  <1>1. MultiSigInv => ExecutedByQuorum
        BY DEF MultiSigInv, ProposalCounted, ExecutedByQuorum
  <1> QED BY <1>1, MultiSigInvariant, PTL

\* No submission is carried out twice.
THEOREM MultiSigExecutedOnce == MultiSigSpec => ExecutedOnce
  <1>1. MultiSigInv /\ [MultiSigNext]_multiSigVars =>
          [/\ ReopenedBySubmission(rebalance, rebalance')
           /\ ReopenedBySubmission(operation, operation')]_multiSigVars
    <2> SUFFICES ASSUME MultiSigInv, MultiSigNext
                 PROVE  /\ ReopenedBySubmission(rebalance, rebalance')
                        /\ ReopenedBySubmission(operation, operation')
        OBVIOUS
    <2>0. /\ rebalance \in ProposalType(Rebalances)
          /\ operation \in ProposalType(Operations)
          BY DEF MultiSigInv, MultiSigTypeOK
    <2>1. ASSUME NEW contents, NEW r \in ProposalType(contents)
          PROVE  /\ ReopenedBySubmission(r, r)
                 /\ \A c : ReopenedBySubmission(r, submitted(r, c))
                 /\ ~r.executed => \A s : ReopenedBySubmission(r, s)
      <3>1. r.next \in Nat BY <2>1 DEF ProposalType
      <3> QED BY <3>1 DEF ReopenedBySubmission, submitted
    <2>2. ReopenedBySubmission(rebalance, rebalance')
      <3>1. \/ UNCHANGED rebalance
            \/ \E c : rebalance' = submitted(rebalance, c)
            \/ ~rebalance.executed
        BY DEF MultiSigNext, priorityRebalance, submitRebalance, confirmRebalance,
               revokeConfirmationRebalance, executeRebalance, submitOperation,
               confirmOperation, revokeConfirmationOperation, executeOperation,
               canConfirm, canRevoke, canExecute
      <3> QED BY <2>0, <2>1, <3>1
    <2>3. ReopenedBySubmission(operation, operation')
      <3>1. \/ UNCHANGED operation
            \/ \E c : operation' = submitted(operation, c)
            \/ ~operation.executed
        BY DEF MultiSigNext, priorityRebalance, submitRebalance, confirmRebalance,
               revokeConfirmationRebalance, executeRebalance, submitOperation,
               confirmOperation, revokeConfirmationOperation, executeOperation,
               canConfirm, canRevoke, canExecute
      <3> QED BY <2>0, <2>1, <3>1
    <2> QED BY <2>2, <2>3
  <1> QED BY <1>1, MultiSigInvariant, PTL DEF MultiSigSpec, ExecutedOnce

-----------------------------------------------------------------------------
(***************************************************************************)
(* The ICManager.                                                          *)
(***************************************************************************)
ManagerTypes ==
    /\ operator \in Callers /\ methodologist \in Callers
    /\ mutualUpgrades \subseteq MutualCalls \X Callers
    /\ timeLockPeriod \in Nat /\ now \in Nat
    /\ timeLockedUpgrades \in [StreamingFees -> Nat]
    /\ unspent \in [MutualCalls -> [Callers -> Int]]
    /\ lastChange \in [StreamingFees -> Nat]

\* No fee was put in force in the future, and a registration that is still
\* open was made after the fee was last put in force: what makes the next
\* execution wait for a notice of its own.
NoticeOpenSinceChange ==
    \A f \in StreamingFees :
        /\ lastChange[f] <= now
        /\ timeLockedUpgrades[f] # 0 => lastChange[f] <= timeLockedUpgrades[f]

ConsentInv ==
    /\ ManagerTypes
    /\ MutualConsent
    /\ SplitNotRetroactive
    /\ NoticeOpenSinceChange

\* A call for a mutual change either registers and changes nothing else, or
\* spends the other party's registration.  Neither touches the roles or the
\* open fee registrations, and the split only changes with everything
\* distributed.
LEMMA MutualEffect ==
    ASSUME ManagerTypes, NEW a \in Callers, NEW c \in MutualCalls, mutualChange(a, c)
    PROVE  /\ register(a, c) \/ agree(a, c)
           /\ UNCHANGED <<roleVars, timeLockedUpgrades, now>>
           /\ timeLockPeriod' \in Nat
           /\ UNCHANGED operatorFeeSplit \/ undistributed' = 0
  <1> USE DEF roleVars, lockVars, setVars
  <1>r. ASSUME register(a, c)
        PROVE  /\ UNCHANGED <<roleVars, timeLockedUpgrades, now>>
               /\ timeLockPeriod' \in Nat
               /\ UNCHANGED operatorFeeSplit
    BY <1>r DEF register, ManagerTypes
  <1>0. c = [function |-> c.function, argument |-> c.argument]
    BY DEF MutualCalls, Call
  <1>1. CASE c.function = "updateFeeSplit" /\ updateFeeSplit(a, c.argument)
    BY <1>0, <1>1, <1>r DEF updateFeeSplit, accrueAndDistribute, ManagerTypes
  <1>2. CASE c.function = "setTimeLockPeriod" /\ setTimeLockPeriod(a, c.argument)
    <2>1. c.argument \in Nat
      BY <1>2, ICManagerAssumption DEF MutualCalls, Call
    <2> QED BY <1>0, <1>2, <1>r, <2>1 DEF setTimeLockPeriod
  <1>3. CASE c.function = "updateManager" /\ updateManager(a, c.argument)
    BY <1>0, <1>3, <1>r DEF updateManager, ManagerTypes
  <1>4. CASE c.function = "updateFeeRecipient" /\ updateFeeRecipient(a, c.argument)
    BY <1>0, <1>4, <1>r DEF updateFeeRecipient, ManagerTypes
  <1> QED BY <1>1, <1>2, <1>3, <1>4 DEF mutualChange

\* The calls counted keep covering the registrations: an execution spends
\* the other party's registration with a call that party made.
LEMMA MutualStep ==
    ASSUME ConsentInv, NEW a \in Callers, NEW c \in MutualCalls, Mutual(a, c)
    PROVE  ConsentInv'
  <1> DEFINE other == getNonCaller(a)
  <1>0. /\ ManagerTypes /\ MutualConsent /\ mutualChange(a, c)
        /\ unspent' = [unspent EXCEPT ![c] = Counted(a, c)]
        /\ accruedUnder' = Accrued
        /\ UNCHANGED lastChange
        BY DEF ConsentInv, Mutual
  <1>1. /\ register(a, c) \/ agree(a, c)
        /\ UNCHANGED <<operator, methodologist, timeLockedUpgrades, now>>
        /\ timeLockPeriod' \in Nat
        /\ UNCHANGED operatorFeeSplit \/ undistributed' = 0
        BY <1>0, MutualEffect DEF roleVars
  <1>2. other \in Callers BY <1>0 DEF getNonCaller, ManagerTypes
  <1>3. /\ unspent \in [MutualCalls -> [Callers -> Int]]
        /\ unspent[c] \in [Callers -> Int]
        BY <1>0 DEF ManagerTypes
  <1>4. SplitNotRetroactive'
        BY <1>0, <1>1 DEF ConsentInv, SplitNotRetroactive, Accrued
  <1>5. NoticeOpenSinceChange'
        BY <1>0, <1>1 DEF ConsentInv, NoticeOpenSinceChange
  <1>6. CASE register(a, c)
    <2>1. /\ <<c, other>> \notin mutualUpgrades
          /\ mutualUpgrades' = mutualUpgrades \cup {<<c, a>>}
          BY <1>6 DEF register
    <2>2. Counted(a, c) = [unspent[c] EXCEPT ![a] = @ + 1]
          BY <2>1 DEF Counted
    <2>3. ManagerTypes'
          BY <1>0, <1>1, <1>3, <2>1, <2>2 DEF ManagerTypes
    <2>4. MutualConsent'
      <3> SUFFICES ASSUME NEW d \in MutualCalls, NEW b \in Callers
                   PROVE  /\ unspent'[d][b] >= 0
                          /\ <<d, b>> \in mutualUpgrades' => unspent'[d][b] > 0
          BY DEF MutualConsent
      <3>1. /\ unspent[d][b] >= 0 /\ unspent[d][b] \in Int
            /\ <<d, b>> \in mutualUpgrades => unspent[d][b] > 0
            BY <1>0, <1>3 DEF MutualConsent
      <3>2. unspent'[d][b] = IF d = c /\ b = a THEN unspent[d][b] + 1 ELSE unspent[d][b]
            BY <1>0, <1>3, <2>2
      <3> QED BY <2>1, <3>1, <3>2
    <2> QED BY <1>4, <1>5, <2>3, <2>4 DEF ConsentInv
  <1>7. CASE agree(a, c)
    <2>1. /\ <<c, other>> \in mutualUpgrades
          /\ mutualUpgrades' = mutualUpgrades \ {<<c, other>>}
          BY <1>7 DEF agree
    <2>2. Counted(a, c) = [unspent[c] EXCEPT ![other] = @ - 1]
      <3>1. ASSUME NEW calls \in [Callers -> Int]
            PROVE  [[calls EXCEPT ![a] = @ + 1] EXCEPT ![a] = @ - 1] = calls
        <4> DEFINE more == [calls EXCEPT ![a] = @ + 1]
                   less == [more EXCEPT ![a] = @ - 1]
        <4>1. /\ more \in [Callers -> Int] /\ more[a] = calls[a] + 1
              /\ \A b \in Callers : b # a => more[b] = calls[b]
              OBVIOUS
        <4> HIDE DEF more
        <4>2. /\ less \in [Callers -> Int] /\ less[a] = more[a] - 1
              /\ \A b \in Callers : b # a => less[b] = more[b]
              BY <4>1
        <4> HIDE DEF less
        <4>3. calls[a] \in Int OBVIOUS
        <4>4. \A b \in Callers : less[b] = calls[b] BY <4>1, <4>2, <4>3
        <4>5. less = calls BY <4>2, <4>4
        <4> QED BY <4>5 DEF less, more
      <3> QED BY <1>2, <1>3, <2>1, <3>1 DEF Counted
    <2>3. ManagerTypes'
          BY <1>0, <1>1, <1>2, <1>3, <2>1, <2>2 DEF ManagerTypes
    <2>4. MutualConsent'
      <3> SUFFICES ASSUME NEW d \in MutualCalls, NEW b \in Callers
                   PROVE  /\ unspent'[d][b] >= 0
                          /\ <<d, b>> \in mutualUpgrades' => unspent'[d][b] > 0
          BY DEF MutualConsent
      <3>1. /\ unspent[d][b] >= 0 /\ unspent[d][b] \in Int
            /\ <<d, b>> \in mutualUpgrades => unspent[d][b] > 0
            BY <1>0, <1>3 DEF MutualConsent
      <3>2. unspent'[d][b] = IF d = c /\ b = other THEN unspent[d][b] - 1 ELSE unspent[d][b]
            BY <1>0, <1>2, <1>3, <2>2
      <3> HIDE DEF other
      <3> QED BY <2>1, <3>1, <3>2
    <2> QED BY <1>4, <1>5, <2>3, <2>4 DEF ConsentInv
  <1> QED BY <1>1, <1>6, <1>7

\* A fee that had to wait takes its registration with it.
LEMMA FeeChangeStep ==
    ASSUME ConsentInv, NEW a \in Callers, NEW f \in StreamingFees, FeeChange(a, f)
    PROVE  ConsentInv'
  <1>0. /\ ManagerTypes /\ MutualConsent /\ SplitNotRetroactive
        /\ NoticeOpenSinceChange
        BY DEF ConsentInv
  <1>1. /\ UNCHANGED <<operator, methodologist, operatorFeeSplit, mutualUpgrades,
                       timeLockPeriod, now, unspent>>
        /\ accruedUnder' = Accrued
        /\ \/ UNCHANGED <<timeLockedUpgrades, lastChange>>
           \/ /\ timeLockedUpgrades' = [timeLockedUpgrades EXCEPT ![f] = 0]
              /\ lastChange' = [lastChange EXCEPT ![f] = now]
        BY DEF FeeChange, updateStreamingFeeUnlocked, executeStreamingFee, changeFee,
               roleVars
  <1>2. ManagerTypes' BY <1>0, <1>1 DEF ManagerTypes
  <1>3. MutualConsent' BY <1>0, <1>1 DEF MutualConsent
  <1>4. SplitNotRetroactive' BY <1>0, <1>1 DEF SplitNotRetroactive, Accrued
  <1>5. NoticeOpenSinceChange'
        BY <1>0, <1>1 DEF ManagerTypes, NoticeOpenSinceChange
  <1> QED BY <1>2, <1>3, <1>4, <1>5 DEF ConsentInv

\* A registration is made now, after every change made before.
LEMMA OtherStep ==
    ASSUME ConsentInv, NEW a \in Callers, Other(a)
    PROVE  ConsentInv'
  <1>0. /\ ManagerTypes /\ MutualConsent /\ SplitNotRetroactive
        /\ NoticeOpenSinceChange
        BY DEF ConsentInv
  <1>1. /\ UNCHANGED <<operatorFeeSplit, mutualUpgrades, timeLockPeriod, now,
                       unspent, lastChange, accruedUnder>>
        /\ operator' \in Callers /\ methodologist' \in Callers
        /\ \/ UNCHANGED timeLockedUpgrades
           \/ \E f \in StreamingFees :
                timeLockedUpgrades' = [timeLockedUpgrades EXCEPT ![f] = now]
        BY <1>0 DEF Other, registerStreamingFee, removeFeeModule, updateMethodologist,
                    updateOperator, roleVars, lockVars, history, ManagerTypes
  <1>2. ManagerTypes' BY <1>0, <1>1 DEF ManagerTypes
  <1>3. MutualConsent' BY <1>0, <1>1 DEF MutualConsent
  <1>4. SplitNotRetroactive' BY <1>0, <1>1 DEF SplitNotRetroactive
  <1>5. NoticeOpenSinceChange'
        BY <1>0, <1>1 DEF ManagerTypes, NoticeOpenSinceChange
  <1> QED BY <1>2, <1>3, <1>4, <1>5 DEF ConsentInv

\* What only moves SetTokens or the SetToken's settings, the passing of time
\* included, leaves registrations and roles alone; what comes in is to be paid
\* by the present split.
LEMMA BalanceOrEnvironmentStep ==
    ASSUME ConsentInv,
           \/ \E minted \in Accruals : Accrual(minted) \/ Distribution(minted)
           \/ \E a \in Callers : Interaction(a)
           \/ \E quantity \in 1..MaxUndistributed : Transfer(quantity)
           \/ Environment
    PROVE  ConsentInv'
  <1>0. /\ ManagerTypes /\ MutualConsent /\ SplitNotRetroactive
        /\ NoticeOpenSinceChange
        BY DEF ConsentInv
  <1>1. /\ UNCHANGED <<operator, methodologist, operatorFeeSplit, mutualUpgrades,
                       timeLockPeriod, timeLockedUpgrades, unspent, lastChange>>
        /\ now' \in {now, now + 1}
        /\ accruedUnder' \in {accruedUnder, Accrued}
        BY DEF Accrual, accrueFee, Distribution, accrueFeeAndDistribute, Interaction,
               interactModule, Transfer, transferFrom, receive, Environment, tick,
               otherManager, roleVars, lockVars, history
  <1>2. ManagerTypes' BY <1>0, <1>1 DEF ManagerTypes
  <1>3. MutualConsent' BY <1>0, <1>1 DEF MutualConsent
  <1>4. SplitNotRetroactive' BY <1>0, <1>1 DEF SplitNotRetroactive, Accrued
  <1>5. NoticeOpenSinceChange'
        BY <1>0, <1>1 DEF ManagerTypes, NoticeOpenSinceChange
  <1> QED BY <1>2, <1>3, <1>4, <1>5 DEF ConsentInv

\* Consent, the split of what is undistributed and the open notices stay in
\* order through every step of the ICManager and its environment.
THEOREM ConsentInvariant == ConsentSpec => []ConsentInv
  <1>1. ConsentInit => ConsentInv
    BY ICManagerAssumption
       DEF ConsentInit, ICManagerInit, ConsentInv, ManagerTypes, MutualConsent,
           SplitNotRetroactive, NoticeOpenSinceChange
  <1>2. ConsentInv /\ [ConsentNext]_consentVars => ConsentInv'
    <2> SUFFICES ASSUME ConsentInv, [ConsentNext]_consentVars PROVE ConsentInv'
        OBVIOUS
    <2>1. CASE UNCHANGED consentVars
      BY <2>1 DEF consentVars, managerVars, roleVars, lockVars, setVars, history, ConsentInv,
         ManagerTypes, MutualConsent, SplitNotRetroactive, NoticeOpenSinceChange
    <2> QED BY <2>1, MutualStep, FeeChangeStep, OtherStep,
              BalanceOrEnvironmentStep
       DEF ConsentNext
  <1> QED BY <1>1, <1>2, PTL DEF ConsentSpec

\* "Operator and Methodologist must each call this function to execute the
\* update": every execution of a mutual change of the ICManager is covered
\* by calls its two parties made for just that change, whoever holds the
\* roles in between and whether or not they are one account.
THEOREM ManagerMutualConsent == ConsentSpec => []MutualConsent
  BY ConsentInvariant, PTL DEF ConsentInv

\* What the ICManager holds came to it under the split it will be paid by if it
\* is distributed: a split never changes while anything is left undistributed,
\* whatever the operator has transferred or lets others take in between.
THEOREM ManagerSplit == ConsentSpec => []SplitNotRetroactive
  BY ConsentInvariant, PTL DEF ConsentInv

\* A fee that had to wait waits again before it is put in force again.
THEOREM ManagerNotice == ConsentSpec => NoticeOfItsOwn
  <1>1. ConsentInv /\ [ConsentNext]_consentVars =>
          [\A f \in StreamingFees :
              lastChange'[f] # lastChange[f] /\ lastChange[f] # 0
                  => lastChange'[f] >= lastChange[f] + timeLockPeriod]_consentVars
    <2> SUFFICES ASSUME ConsentInv, ConsentNext, NEW f \in StreamingFees,
                        lastChange'[f] # lastChange[f]
                 PROVE  lastChange'[f] >= lastChange[f] + timeLockPeriod
        OBVIOUS
    <2>0. ManagerTypes /\ NoticeOpenSinceChange BY DEF ConsentInv
    <2>1. ASSUME UNCHANGED lastChange PROVE FALSE
          BY <2>1
    <2>2. PICK a \in Callers, g \in StreamingFees : FeeChange(a, g)
      BY <2>1 DEF ConsentNext, Mutual, Other, Accrual, Distribution, Interaction, Transfer,
                  Environment, history
    <2>3. executeStreamingFee(a, g) /\ lastChange' = [lastChange EXCEPT ![g] = now]
      BY <2>1, <2>2 DEF FeeChange
    <2>4. g = f /\ lastChange'[f] = now
      BY <2>0, <2>3 DEF ManagerTypes
    <2>5. timeLockedUpgrades[f] # 0 /\ now >= timeLockedUpgrades[f] + timeLockPeriod
      BY <2>3, <2>4 DEF executeStreamingFee
    <2> QED BY <2>0, <2>4, <2>5 DEF ManagerTypes, NoticeOpenSinceChange
  <1> QED BY <1>1, ConsentInvariant, PTL DEF ConsentSpec, NoticeOfItsOwn

-----------------------------------------------------------------------------
(***************************************************************************)
(* The typechain subtask: for every set of artifacts and any number of     *)
(* runs that fail, are killed or leave a torn file.                        *)
(***************************************************************************)

\* An artifact is torn, or an ABI in which only functions have a limit.
Readable(abi) == abi \in [Elements -> Int] /\ abi["event"] = NoGas

\* While limits are added, the artifacts done have that of this network; from
\* then on none is torn, and those cleaned are as they are committed.
GasInv ==
    /\ disk \in [Artifacts -> [Elements -> Int] \cup {Torn}]
    /\ \A a \in Artifacts : Readable(disk[a]) \/ disk[a] = Torn
    /\ task \in {"idle", "adding", "removing", "succeeded", "failed"}
    /\ todo \subseteq Artifacts
    /\ network \in DOMAIN Networks
    /\ task = "adding" =>
         \A a \in Artifacts \ todo :
             Readable(disk[a]) /\ disk[a]["function"] = gasLimit(network)
    /\ task = "removing" =>
         \A a \in Artifacts : /\ Readable(disk[a])
                              /\ a \notin todo => disk[a] = Committed
    /\ task = "succeeded" => \A a \in Artifacts : disk[a] = Committed

-----------------------------------------------------------------------------
\* Adding a limit to an ABI puts it on its functions and nowhere else.
LEMMA GasAdded ==
    ASSUME NEW abi, Readable(abi), NEW net \in DOMAIN Networks
    PROVE  /\ addGasToAbiMethods(net, abi) \in [Elements -> Int]
           /\ Readable(addGasToAbiMethods(net, abi))
           /\ addGasToAbiMethods(net, abi)["function"] = gasLimit(net)
  <1>1. Networks[net] \in Int /\ gasLimit(net) \in Int
    BY DEF Networks, AutoLimit, gasLimit
  <1> HIDE DEF gasLimit
  <1> QED BY <1>1 DEF Readable, addGasToAbiMethods, Elements, NoGas

\* Removing it gives back what is committed, whatever the limit was.
LEMMA GasRemoved ==
    ASSUME NEW abi, Readable(abi)
    PROVE  removeGasFromAbiMethods(abi) = Committed /\ Readable(Committed)
  BY DEF Readable, removeGasFromAbiMethods, Committed, Elements, NoGas

\* A step of the first loop.
LEMMA AddGasStep ==
    ASSUME GasInv, NEW a \in Artifacts, AddGas(a)
    PROVE  GasInv'
  <1>1. CASE disk[a] = Torn \/ Networks[network] = AutoLimit
    BY <1>1 DEF GasInv, AddGas
  <1>2. CASE ~(disk[a] = Torn \/ Networks[network] = AutoLimit)
    <2> DEFINE new == addGasToAbiMethods(network, disk[a])
    <2>1. /\ new \in [Elements -> Int] /\ Readable(new)
          /\ new["function"] = gasLimit(network)
      BY <1>2, GasAdded DEF GasInv
    <2>2. /\ disk' = [disk EXCEPT ![a] = new] /\ todo' = todo \ {a}
          /\ task = "adding" /\ task' = task /\ network' = network
      BY <1>2 DEF AddGas
    <2> HIDE DEF new
    <2> QED BY <2>1, <2>2 DEF GasInv
  <1> QED BY <1>1, <1>2

\* A step of the second loop.
LEMMA RemoveGasStep ==
    ASSUME GasInv, NEW a \in Artifacts, RemoveGas(a)
    PROVE  GasInv'
  <1> DEFINE new == removeGasFromAbiMethods(disk[a])
  <1>1. new = Committed /\ Readable(Committed)
    BY GasRemoved DEF GasInv, RemoveGas
  <1>2. /\ disk' = [disk EXCEPT ![a] = new] /\ todo' = todo \ {a}
        /\ task = "removing" /\ task' = task /\ network' = network
    BY DEF RemoveGas
  <1> HIDE DEF new
  <1> QED BY <1>1, <1>2 DEF GasInv, Readable

\* A killed run may leave a file torn, and nothing that counts on it.
LEMMA KillStep ==
    ASSUME GasInv, KillTypechain
    PROVE  GasInv'
  <1>1. disk' \in [Artifacts -> [Elements -> Int] \cup {Torn}]
    BY DEF GasInv, KillTypechain
  <1>2. \A a \in Artifacts : Readable(disk'[a]) \/ disk'[a] = Torn
    BY DEF GasInv, KillTypechain
  <1> QED BY <1>1, <1>2 DEF GasInv, KillTypechain

\* Every step of the build keeps the invariant.
LEMMA GasKept ==
    ASSUME GasInv, GasStep
    PROVE  GasInv'
  <1>1. ASSUME NEW net \in DOMAIN Networks, StartTypechain(net) PROVE GasInv'
    BY <1>1 DEF GasInv, StartTypechain
  <1>2. ASSUME NEW ok \in BOOLEAN, RunSuper(ok) PROVE GasInv'
    BY <1>2 DEF GasInv, RunSuper
  <1>3. ASSUME TypechainDone PROVE GasInv'
    BY <1>3 DEF GasInv, TypechainDone
  <1> QED BY <1>1, <1>2, <1>3, AddGasStep, RemoveGasStep, KillStep DEF GasStep

\* The invariant holds through builds and sessions of tests.
LEMMA ToolchainKeepsGas == ToolSpec => []GasInv
  <1>1. ToolInit => GasInv
    BY DEF ToolInit, GasInit, GasInv, Readable, Committed, Elements, NoGas, Networks
  <1>2. GasInv /\ [ToolNext]_toolVars => GasInv'
    <2> SUFFICES ASSUME GasInv, [ToolNext]_toolVars PROVE GasInv'
      OBVIOUS
    <2>1. CASE UNCHANGED gasVars
      BY <2>1 DEF gasVars, GasInv
    <2>2. CASE Build
      BY <2>2, GasKept DEF Build
    <2>3. CASE Test
      BY <2>3 DEF Test, GasInv, Networks
    <2> QED BY <2>1, <2>2, <2>3 DEF ToolNext, toolVars
  <1> QED BY <1>1, <1>2, PTL DEF ToolSpec

\* typechain never reads the limit of another network, and a run that succeeds
\* leaves the artifacts as they are committed, whatever earlier runs left.
THEOREM GasArtifactsRestored == ToolSpec => []ArtifactsRestored
  <1>1. GasInv => ArtifactsRestored
    BY DEF GasInv, ArtifactsRestored
  <1> QED BY <1>1, ToolchainKeepsGas, PTL

-----------------------------------------------------------------------------
(***************************************************************************)
(* The stack of snapshots of cacheBeforeEach: for every session of suites, *)
(* however deep they are nested and whichever hooks throw.                 *)
(***************************************************************************)

\* Phases in which Mocha stands in a suite.
Running == {"before", "beforeEach", "body", "afterEach", "after"}

\* The node numbers its snapshots in the order in which it takes them.
IsNode(n) ==
    /\ n = [chain |-> n.chain, snaps |-> n.snaps, nextId |-> n.nextId]
    /\ n.nextId \in Nat
    /\ \A id \in DOMAIN n.snaps : id \in Nat /\ id < n.nextId

\* The stack goes from older snapshots to newer ones, all known to the node.
IsStack(ids, n) ==
    /\ ids \in Seq(Nat)
    /\ \A i \in 1..Len(ids) : ids[i] \in DOMAIN n.snaps
    /\ \A i, j \in 1..Len(ids) : i < j => ids[i] < ids[j]

NodeOK == IsNode(node)
StackOK == IsStack(SNAPSHOTS, node)

\* Mocha stands in a suite, with hooks to run that the suites around it have.
RunOK ==
    /\ run = [phase |-> run.phase, at |-> run.at, test |-> run.test, todo |-> run.todo,
              failed |-> run.failed]
    /\ run.phase \in Running \cup {"off", "loaded", "ended"}
    /\ run.phase \in Running =>
         /\ run.at \in Suites /\ run.failed \in {0} \cup Around(run.at)
         /\ \A h \in run.todo :
              /\ h \in Hooks /\ h.suite \in Around(run.at)
              /\ run.phase \in {"before", "after"} => h.suite = run.at
              /\ run.phase = "after" => h.kind = "cache"

\* The caches that are initialized, and those whose snapshot is on the stack: of
\* the suite that Mocha leaves, only those whose after hook is still to run.
Built == {h \in Hooks : initialized[h]}
Stacked ==
    {h \in Built : /\ h.suite \in Around(run.at)
                   /\ run.phase = "after" /\ h.suite = run.at => h \in run.todo}

\* Mocha has not come to a suite yet when one of its caches is initialized only
\* if it will not come there again: behind where it stands, or in the suite left.
Behind(s) == s <= run.at \/ (run.phase = "after" /\ run.at \in Around(s))

CachesOK ==
    /\ initialized \in [Hooks -> BOOLEAN] /\ IsFiniteSet(Built)
    /\ \A h \in Built : h.kind = "cache"
    /\ run.phase = "loaded" => Built = {} /\ SNAPSHOTS = <<>>
    /\ run.phase \in Running =>
         /\ \A h \in Built : Behind(h.suite)
         /\ Len(SNAPSHOTS) = Cardinality(Stacked)

StackInv ==
    /\ NodeOK /\ StackOK /\ RunOK
    /\ run.phase = "off" \/ (forest \in Forests /\ CachesOK)

-----------------------------------------------------------------------------
\* The least number principle.
LEMMA LeastOfNat ==
    ASSUME NEW S, S \subseteq Nat, S # {}
    PROVE  \E s \in S : \A t \in S : s <= t
  <1>1. IsWellFoundedOn(OpToRel(<, Nat), Nat)
    BY NatLessThanWellFounded
  <1>2. PICK s \in S : \A t \in S : <<t, s>> \notin OpToRel(<, Nat)
    BY <1>1, WFMin
  <1>3. \A t \in S : ~(t < s)
    BY <1>2 DEF OpToRel
  <1> QED BY <1>3

\* The first suite of some is one of them.
LEMMA FirstIsIn ==
    ASSUME NEW S, S \subseteq Nat, S # {}
    PROVE  First(S) \in S
  BY LeastOfNat DEF First

\* The suites around a suite are before it, and form a path.
LEMMA AroundFacts ==
    ASSUME forest \in Forests, NEW s \in Suites
    PROVE  /\ s \in Nat \ {0} /\ Suites \subseteq Nat
           /\ s \in Around(s) /\ Around(s) \subseteq Suites
           /\ \A t \in Around(s) : t <= s /\ Around(t) \subseteq Around(s)
           /\ forest[s].parent \in Nat /\ forest[s].parent < s
           /\ forest[s].parent = 0 => Around(s) = {s}
           /\ forest[s].parent # 0 => /\ forest[s].parent \in Suites
                                      /\ Around(s) = {s} \cup Around(forest[s].parent)
           /\ \A t, u \in Suites : t \in Around(u) /\ t <= s /\ s <= u => t \in Around(s)
  <1>1. IsForest(forest) BY ForestsAssumption
  <1>2. forest \in Seq([parent : Nat, around : SUBSET Nat, hooks : Seq(HookKinds),
                       tests : Nat, subject : Kinds \cup {"System"}])
    BY <1>1 DEF IsForest
  <1>3. \A t \in DOMAIN forest :
          /\ forest[t].parent < t /\ forest[t].around \subseteq 1..t
          /\ forest[t].around = {t} \cup IF forest[t].parent = 0 THEN {}
                                         ELSE forest[forest[t].parent].around
          /\ \A u \in forest[t].around : forest[u].around \subseteq forest[t].around
    BY <1>1 DEF IsForest
  <1>4. \A t, u \in DOMAIN forest : \A r \in forest[t].around :
            r <= u /\ u <= t => r \in forest[u].around
    BY <1>1 DEF IsForest
  <1>5. Suites = 1..Len(forest) /\ Len(forest) \in Nat /\ forest[s].parent \in Nat
    <2>1. DOMAIN forest = 1..Len(forest) /\ Len(forest) \in Nat BY <1>2
    <2> DEFINE R == [parent : Nat, around : SUBSET Nat, hooks : Seq(HookKinds),
                     tests : Nat, subject : Kinds \cup {"System"}]
    <2>2. \A r \in R : r.parent \in Nat OBVIOUS
    <2>3. forest \in Seq(R) BY <1>2
    <2> HIDE DEF R
    <2>4. s \in 1..Len(forest) BY <2>1 DEF Suites
    <2>5. forest[s] \in R BY <2>3, <2>4
    <2> QED BY <2>1, <2>2, <2>5 DEF Suites
  <1> HIDE <1>1, <1>2
  <1>6. /\ forest[s].parent < s /\ Around(s) \subseteq 1..s
        /\ Around(s) = {s} \cup IF forest[s].parent = 0 THEN {} ELSE Around(forest[s].parent)
        /\ \A t \in Around(s) : Around(t) \subseteq Around(s)
    BY <1>3 DEF Around, Suites
  <1>7. \A t, u \in Suites : t \in Around(u) /\ t <= s /\ s <= u => t \in Around(s)
    BY <1>4 DEF Around, Suites
  <1> HIDE <1>3, <1>4
  <1>8. s \in Nat \ {0} /\ Suites \subseteq Nat /\ 1..s \subseteq Suites
    BY <1>5
  <1>9. \A t \in Around(s) : t <= s
    BY <1>6, <1>8
  <1>10. forest[s].parent # 0 => forest[s].parent \in Suites
    BY <1>5, <1>6
  <1> QED BY <1>5, <1>6, <1>7, <1>8, <1>9, <1>10

\* Which hooks HooksOf gives.
LEMMA HooksOfFacts ==
    ASSUME NEW S, S \subseteq Suites, NEW kinds, kinds \subseteq HookKinds
    PROVE  HooksOf(S, kinds) = {h \in Hooks : h.suite \in S /\ h.kind \in kinds}
  <1> DEFINE Registered(s) == {[suite |-> s, index |-> i, kind |-> forest[s].hooks[i]] :
                                 i \in DOMAIN forest[s].hooks}
  <1>1. \A s : \A h \in Registered(s) : h.suite = s
    OBVIOUS
  <1>2. \A T, K : HooksOf(T, K) = {h \in UNION {Registered(s) : s \in T} : h.kind \in K}
    BY DEF HooksOf, HooksIn
  <1> HIDE DEF Registered
  <1>3. \A T, K, h : h \in HooksOf(T, K) <=> h.kind \in K /\ \E s \in T : h \in Registered(s)
    BY <1>2
  <1>4. \A h : h \in Hooks <=> h.kind \in HookKinds /\ \E s \in Suites : h \in Registered(s)
    BY <1>3 DEF Hooks
  <1> QED BY <1>1, <1>3, <1>4

-----------------------------------------------------------------------------
\* The initialized caches around suite s.
BuiltIn(s) == {h \in Built : h.suite \in Around(s)}

\* Where Mocha goes is a step of the sandbox if the stack fits the place.
LEMMA Goes ==
    ASSUME StackInv, forest \in Forests, CachesOK,
           UNCHANGED <<forest, initialized>>, NodeOK', StackOK',
           NEW p \in Running, NEW s \in Suites, NEW k, NEW T, NEW f \in {0} \cup Around(s),
           run' = [phase |-> p, at |-> s, test |-> k, todo |-> T, failed |-> f],
           \A h \in T : /\ h \in Hooks /\ h.suite \in Around(s)
                        /\ p \in {"before", "after"} => h.suite = s
                        /\ p = "after" => h.kind = "cache",
           \A h \in Built : h.suite <= s \/ (p = "after" /\ s \in Around(h.suite)),
           \A h \in BuiltIn(s) : p = "after" /\ h.suite = s => h \in T,
           Len(SNAPSHOTS') = Cardinality(BuiltIn(s))
    PROVE  StackInv'
  <1>1. Suites' = Suites /\ Hooks' = Hooks /\ Built' = Built
    BY DEF Suites, Hooks, HooksOf, HooksIn, Built
  <1>2. \A t : Around(t)' = Around(t)
    BY DEF Around
  <1>4. RunOK'
    BY <1>1, <1>2 DEF RunOK
  <1>5. Stacked' = BuiltIn(s)
    BY <1>1, <1>2 DEF Stacked, BuiltIn
  <1>6. CachesOK'
    BY <1>1, <1>2, <1>5 DEF CachesOK, Behind, Running
  <1> QED BY <1>4, <1>6 DEF StackInv

\* Mocha enters a suite it has not been to.
LEMMA Enters ==
    ASSUME StackInv, forest \in Forests, CachesOK,
           UNCHANGED <<forest, initialized>>, NodeOK', StackOK',
           NEW s \in Suites, run' = Enter(s),
           \A h \in Built : h.suite <= s,
           Len(SNAPSHOTS') = Cardinality(BuiltIn(s))
    PROVE  StackInv'
  <1>1. {s} \subseteq Suites /\ s \in Around(s) BY AroundFacts
  <1>2. \A h \in HooksOf({s}, {"before"}) : h \in Hooks /\ h.suite = s
    BY <1>1, HooksOfFacts DEF HookKinds
  <1> DEFINE T == HooksOf({s}, {"before"})
  <1>3. run' = [phase |-> "before", at |-> s, test |-> 0, todo |-> T, failed |-> 0]
    BY DEF Enter
  <1> HIDE DEF T
  <1>4. \A h \in T : h \in Hooks /\ h.suite = s BY <1>2 DEF T
  <1> QED BY <1>1, <1>3, <1>4, Goes DEF Running

\* Mocha leaves a suite: the after hook of each of its caches is still to run.
LEMMA Leaves ==
    ASSUME StackInv, forest \in Forests, CachesOK,
           UNCHANGED <<forest, initialized>>, NodeOK', StackOK',
           NEW s \in Suites, NEW f \in {0} \cup Around(s), run' = Leave(s, f),
           \A h \in Built : h.suite <= s \/ s \in Around(h.suite),
           Len(SNAPSHOTS') = Cardinality(BuiltIn(s))
    PROVE  StackInv'
  <1> DEFINE T == HooksOf({s}, {"cache"})
  <1>1. {s} \subseteq Suites /\ s \in Around(s) BY AroundFacts
  <1>2. T = {h \in Hooks : h.suite \in {s} /\ h.kind \in {"cache"}}
    BY <1>1, HooksOfFacts DEF HookKinds
  <1>3. run' = [phase |-> "after", at |-> s, test |-> 0, todo |-> T, failed |-> f]
    BY DEF Leave
  <1> HIDE DEF T
  <1>4. \A h \in BuiltIn(s) : h.suite = s => h \in T
    BY <1>2 DEF BuiltIn, Built, CachesOK
  <1>5. \A h \in T : h \in Hooks /\ h.suite \in Around(s) /\ h.suite = s /\ h.kind = "cache"
    BY <1>1, <1>2
  <1> QED BY <1>3, <1>4, <1>5, Goes DEF Running

\* Before the end of a suite the whole stack is that of the suites around it.
LEMMA Inside ==
    ASSUME StackInv, forest \in Forests, CachesOK, run.phase \in Running \ {"after"}
    PROVE  /\ run.at \in Suites
           /\ \A h \in Built : h.suite \in Suites /\ h.suite <= run.at
           /\ Stacked = BuiltIn(run.at)
           /\ Len(SNAPSHOTS) = Cardinality(BuiltIn(run.at))
  <1>1. \A h \in Hooks : h.suite \in Suites
    BY HooksOfFacts DEF Hooks
  <1> QED BY <1>1 DEF StackInv, RunOK, CachesOK, Behind, Stacked, BuiltIn, Built

\* A suite that Mocha has not come to adds nothing to the stack.
LEMMA NothingBuilt ==
    ASSUME forest \in Forests, NEW s \in Suites, \A h \in Built : h.suite # s
    PROVE  /\ forest[s].parent = 0 => BuiltIn(s) = {}
           /\ forest[s].parent # 0 => BuiltIn(s) = BuiltIn(forest[s].parent)
  BY AroundFacts DEF BuiltIn

\* After a test: the next test, a suite inside, or out.
LEMMA AfterTestStep ==
    ASSUME StackInv, forest \in Forests, CachesOK, run.phase \in Running \ {"after"},
           UNCHANGED <<forest, initialized, SNAPSHOTS>>, NodeOK', StackOK',
           NEW k, NEW f \in {0} \cup Around(run.at), run' = AfterTest(run.at, k, f)
    PROVE  StackInv'
  <1> DEFINE s == run.at
  <1>1. /\ s \in Suites /\ \A h \in Built : h.suite \in Suites /\ h.suite <= s
        /\ Len(SNAPSHOTS') = Cardinality(BuiltIn(s))
    BY Inside
  <1> HIDE DEF s
  <1>2. CASE f # 0 \/ run' = Leave(s, 0)
    BY <1>1, <1>2, Leaves DEF AfterTest, s
  <1>3. CASE run' = StartTest(s, k + 1)
    <2> DEFINE T == BeforeEachHooks(s)
    <2>1. Around(s) \subseteq Suites BY <1>1, AroundFacts
    <2>2. T = {h \in Hooks : h.suite \in Around(s) /\ h.kind \in {"each", "cache", "snap"}}
      BY <2>1, HooksOfFacts DEF HookKinds, BeforeEachHooks
    <2>3. run' = [phase |-> "beforeEach", at |-> s, test |-> k + 1, todo |-> T, failed |-> 0]
      BY <1>3 DEF StartTest
    <2> HIDE DEF T
    <2> QED BY <1>1, <2>2, <2>3, Goes DEF Running
  <1>4. CASE Visited(s) # {} /\ run' = Enter(First(Visited(s)))
    <2> DEFINE t == First(Visited(s))
    <2>1. Visited(s) \subseteq Nat BY <1>1, AroundFacts DEF Visited
    <2>2. t \in Visited(s) BY <1>4, <2>1, FirstIsIn
    <2> HIDE DEF t
    <2>3. t \in Suites /\ forest[t].parent = s BY <2>2 DEF Visited
    <2>4. s # 0 /\ s < t /\ s \in Nat /\ t \in Nat /\ Suites \subseteq Nat
      BY <1>1, <2>3, AroundFacts
    <2>5. \A h \in Built : h.suite \in Nat /\ h.suite <= s BY <1>1, <2>4
    <2>6. \A h \in Built : h.suite # t /\ h.suite <= t
      <3> HIDE DEF Built
      <3> SUFFICES ASSUME NEW h \in Built PROVE h.suite # t /\ h.suite <= t OBVIOUS
      <3>1. h.suite \in Nat /\ h.suite <= s BY <2>5
      <3> HIDE <1>1, <2>5
      <3> QED BY <3>1, <2>4
    <2>7. BuiltIn(t) = BuiltIn(s)
      BY <2>3, <2>4, <2>6, NothingBuilt
    <2> QED BY <1>1, <1>4, <2>3, <2>6, <2>7, Enters DEF t
  <1> QED BY <1>2, <1>3, <1>4 DEF AfterTest, s

\* What is still on the stack when the caches of a suite are dropped.
LEMMA Outside ==
    ASSUME StackInv, forest \in Forests, CachesOK, run.phase = "after", run.todo = {}
    PROVE  /\ run.at \in Suites
           /\ \A h \in Built : /\ h.suite \in Suites
                               /\ h.suite <= run.at \/ run.at \in Around(h.suite)
           /\ forest[run.at].parent = 0 => Len(SNAPSHOTS) = 0
           /\ forest[run.at].parent # 0 =>
                Len(SNAPSHOTS) = Cardinality(BuiltIn(forest[run.at].parent))
  <1> DEFINE s == run.at
             outer == forest[s].parent
  <1>1. \A h \in Hooks : h.suite \in Suites
    BY HooksOfFacts DEF Hooks
  <1>2. /\ s \in Suites /\ Len(SNAPSHOTS) = Cardinality(Stacked)
        /\ \A h \in Built : h.suite <= s \/ s \in Around(h.suite)
    BY DEF StackInv, RunOK, CachesOK, Behind, Running
  <1>3. Stacked = {h \in Built : h.suite \in Around(s) \ {s}}
    BY DEF Stacked
  <1> HIDE DEF s
  <1>4. outer = 0 => Stacked = {}
    BY <1>2, <1>3, AroundFacts
  <1>5. outer # 0 => Stacked = BuiltIn(outer)
    <2> SUFFICES ASSUME outer # 0 PROVE Stacked = BuiltIn(outer) OBVIOUS
    <2>1. outer \in Suites /\ outer < s /\ Around(s) = {s} \cup Around(outer) /\ s \in Nat
      BY <1>2, AroundFacts
    <2>2. outer \in Nat /\ \A t \in Around(outer) : t <= outer /\ t \in Nat
      BY <2>1, AroundFacts
    <2>3. s \notin Around(outer) BY <2>1, <2>2
    <2> QED BY <1>3, <2>1, <2>3 DEF BuiltIn
  <1>6. \A h \in Built : h.suite \in Suites BY <1>1 DEF Built
  <1> QED BY <1>2, <1>4, <1>5, <1>6, FS_EmptySet DEF s

\* Mocha has not been to a suite beside the one it leaves that comes later.
LEMMA BesideIsNew ==
    ASSUME StackInv, forest \in Forests, CachesOK, run.phase = "after", run.todo = {},
           NEW t \in Suites, forest[t].parent = forest[run.at].parent, run.at < t
    PROVE  run.at \notin Around(t) /\ \A h \in Built : h.suite < t
  <1> DEFINE s == run.at
             outer == forest[s].parent
  <1>1. s \in Suites /\ \A h \in Built : h.suite \in Suites /\ (h.suite <= s \/ s \in Around(h.suite))
    BY Outside
  <1>2. s \in Nat /\ outer \in Nat /\ outer < s /\ Suites \subseteq Nat
    BY <1>1, AroundFacts
  <1>3. t \in Suites /\ forest[t].parent = outer /\ s < t OBVIOUS
  <1> HIDE DEF s, outer
  <1>4. t \in Nat /\ s \notin Around(t)
    <2>1. t \in Nat BY <1>2, <1>3
    <2>2. CASE outer = 0
      BY <1>2, <1>3, <2>1, <2>2, AroundFacts
    <2>3. CASE outer # 0
      <3>1. outer \in Suites /\ Around(t) = {t} \cup Around(outer)
        BY <1>3, <2>3, AroundFacts
      <3>2. \A u \in Around(outer) : u <= outer BY <3>1, AroundFacts
      <3> QED BY <3>1, <3>2, <1>2, <1>3, <2>1
    <2> QED BY <2>1, <2>2, <2>3
  <1>5. \A h \in Built : h.suite < t
    <2> SUFFICES ASSUME NEW h \in Built, ~(h.suite < t) PROVE FALSE OBVIOUS
    <2>1. h.suite \in Suites /\ h.suite \in Nat BY <1>1, <1>2
    <2>2. s \in Around(h.suite) /\ s <= t /\ t <= h.suite
      BY <2>1, <1>1, <1>2, <1>3, <1>4
    <2>3. \A r, u \in Suites : r \in Around(u) /\ r <= t /\ t <= u => r \in Around(t)
      BY <1>3, AroundFacts
    <2> QED BY <2>1, <2>2, <2>3, <1>1, <1>4
  <1> QED BY <1>4, <1>5 DEF s

\* After a suite: out of it, or on to the next beside it.
LEMMA AfterSuiteStep ==
    ASSUME StackInv, forest \in Forests, CachesOK, run.phase = "after", run.todo = {},
           UNCHANGED <<forest, initialized, SNAPSHOTS>>, NodeOK', StackOK',
           run' = AfterSuite(run.at, run.failed)
    PROVE  StackInv'
  <1> DEFINE s == run.at
             outer == forest[s].parent
             later == {t \in Visited(outer) : t > s}
  <1>1. /\ s \in Suites
        /\ \A h \in Built : h.suite \in Suites /\ (h.suite <= s \/ s \in Around(h.suite))
        /\ outer = 0 => Len(SNAPSHOTS') = 0
        /\ outer # 0 => Len(SNAPSHOTS') = Cardinality(BuiltIn(outer))
    BY Outside
  <1>2. run.failed \in {0} \cup Around(s)
    BY DEF StackInv, RunOK, Running
  <1>3. \/ \E f \in {0, run.failed} \ {s} : run' = Leave(outer, f) /\ (f = 0 => outer # 0)
        \/ later # {} /\ run' = Enter(First(later))
        \/ run' = Ended
    <2>1. s # 0 BY <1>1, AroundFacts
    <2> QED BY <2>1 DEF AfterSuite
  <1> HIDE DEF s
  <1>4. s \in Nat /\ outer \in Nat /\ outer < s /\ Suites \subseteq Nat
    BY <1>1, AroundFacts
  <1>5. ASSUME NEW f \in {0, run.failed} \ {s}, run' = Leave(outer, f), f = 0 => outer # 0
        PROVE  StackInv'
    <2>1. outer # 0
      BY <1>1, <1>2, <1>5, AroundFacts
    <2>2. outer \in Suites /\ Around(s) = {s} \cup Around(outer) /\ outer \in Around(outer)
      BY <1>1, <2>1, AroundFacts
    <2>3. f \in {0} \cup Around(outer)
      BY <1>2, <1>5, <2>2
    <2>4. ASSUME NEW h \in Built PROVE h.suite <= outer \/ outer \in Around(h.suite)
      <3>1. h.suite \in Suites /\ h.suite \in Nat BY <1>1, <1>4
      <3>2. CASE s \in Around(h.suite)
        BY <3>1, <3>2, <2>2, AroundFacts
      <3>3. CASE h.suite <= s /\ outer <= h.suite
        <4>1. \A t, u \in Suites : t \in Around(u) /\ t <= h.suite /\ h.suite <= u
                => t \in Around(h.suite)
          BY <3>1, AroundFacts
        <4>2. outer \in Around(s) BY <2>2
        <4> QED BY <4>1, <4>2, <3>3, <2>2, <1>1
      <3> QED BY <3>1, <3>2, <3>3, <1>1, <1>4
    <2> HIDE DEF outer
    <2> QED BY <1>1, <1>5, <2>1, <2>2, <2>3, <2>4, Leaves
  <1>6. ASSUME later # {}, run' = Enter(First(later)) PROVE StackInv'
    <2> DEFINE t == First(later)
    <2>1. later \subseteq Nat BY <1>4 DEF Visited
    <2>2. t \in later BY <1>6, <2>1, FirstIsIn
    <2>3. t \in Suites /\ forest[t].parent = outer /\ s < t BY <2>2, <1>4 DEF Visited, s
    <2> HIDE DEF t
    <2>4. t \in Nat BY <2>3, <1>4
    <2>5. \A h \in Built : h.suite < t BY <2>3, BesideIsNew DEF s
    <2>6. \A h \in Built : h.suite # t /\ h.suite <= t
      <3> SUFFICES ASSUME NEW h \in Built PROVE h.suite # t /\ h.suite <= t OBVIOUS
      <3>1. h.suite \in Suites /\ h.suite < t BY <1>1, <2>5
      <3>2. h.suite \in Nat BY <3>1, <1>4
      <3> QED BY <3>1, <3>2, <2>4
    <2>7. Len(SNAPSHOTS') = Cardinality(BuiltIn(t))
      <3>1. outer = 0 => BuiltIn(t) = {} BY <2>3, <2>6, NothingBuilt
      <3>2. outer # 0 => BuiltIn(t) = BuiltIn(outer) BY <2>3, <2>6, NothingBuilt
      <3> HIDE DEF outer
      <3> QED BY <3>1, <3>2, <1>1, FS_EmptySet
    <2> QED BY <1>6, <2>3, <2>6, <2>7, Enters DEF t
  <1>7. ASSUME run' = Ended PROVE StackInv'
    <2>1. Built' = Built /\ Hooks' = Hooks
      BY DEF Built, Hooks, HooksOf, HooksIn, Suites
    <2>2. RunOK' BY <1>7 DEF RunOK, Ended, Running
    <2>3. CachesOK' BY <1>7, <2>1 DEF CachesOK, Ended, Running
    <2> QED BY <2>2, <2>3 DEF StackInv
  <1> HIDE DEF outer, later
  <1> QED BY <1>3, <1>5, <1>6, <1>7

-----------------------------------------------------------------------------
\* What the requests to the node do to the snapshots it holds.
LEMMA NodeFacts ==
    ASSUME NEW n, IsNode(n), NEW entries, NEW id
    PROVE  /\ IsNode(EvmSend(n, entries)) /\ EvmSend(n, entries).snaps = n.snaps
           /\ EvmSend(n, entries).nextId = n.nextId
           /\ IsNode(saveSnapshotAsync(n))
           /\ DOMAIN saveSnapshotAsync(n).snaps = DOMAIN n.snaps \cup {SavedId(n)}
           /\ SavedId(n) \in Nat /\ \A i \in DOMAIN n.snaps : i < SavedId(n)
           /\ IsNode(EvmRevert(n, id)) /\ EvmRevert(n, id).nextId = n.nextId
           /\ id \in DOMAIN n.snaps =>
                DOMAIN EvmRevert(n, id).snaps = {i \in DOMAIN n.snaps : i < id}
  <1> DEFINE c == n.chain
             x == n.snaps
             k == n.nextId
  <1>0. n = [chain |-> c, snaps |-> x, nextId |-> k]
    BY DEF IsNode
  <1> HIDE DEF c, x, k
  <1>1. EvmSend(n, entries)
          = [chain |-> n.chain \o entries, snaps |-> n.snaps, nextId |-> n.nextId]
    <2>1. EvmSend(n, entries) = [n EXCEPT !.chain = n.chain \o entries] BY DEF EvmSend
    <2> QED BY <1>0, <2>1
  <1>2. saveSnapshotAsync(n)
          = [chain |-> n.chain, nextId |-> n.nextId + 1,
             snaps |-> [i \in DOMAIN n.snaps \cup {n.nextId} |->
                          IF i = n.nextId THEN n.chain ELSE n.snaps[i]]]
    <2> DEFINE kept == [i \in DOMAIN n.snaps \cup {n.nextId} |->
                          IF i = n.nextId THEN n.chain ELSE n.snaps[i]]
    <2>1. saveSnapshotAsync(n) = [n EXCEPT !.snaps = kept, !.nextId = n.nextId + 1]
      BY <1>0 DEF saveSnapshotAsync, EvmSnapshot
    <2> HIDE DEF kept
    <2>2. saveSnapshotAsync(n) = [chain |-> n.chain, nextId |-> n.nextId + 1, snaps |-> kept]
      BY <1>0, <2>1
    <2> QED BY <2>2 DEF kept
  <1>3. CASE id \in DOMAIN n.snaps
    <2>1. EvmRevert(n, id)
            = [chain |-> n.snaps[id], nextId |-> n.nextId,
               snaps |-> [i \in {j \in DOMAIN n.snaps : j < id} |-> n.snaps[i]]]
      BY <1>0, <1>3 DEF EvmRevert
    <2> QED BY <1>1, <1>2, <1>3, <2>1 DEF IsNode, SavedId
  <1>4. CASE id \notin DOMAIN n.snaps
    <2>1. EvmRevert(n, id) = n BY <1>4 DEF EvmRevert
    <2> QED BY <1>1, <1>2, <1>4, <2>1 DEF IsNode, SavedId
  <1> QED BY <1>3, <1>4

\* Pushing what the node has just saved keeps the order, and so does popping.
LEMMA StackFacts ==
    ASSUME NEW n, IsNode(n), NEW ids, IsStack(ids, n)
    PROVE  /\ IsStack(ids, saveSnapshotAsync(n))
           /\ IsStack(Append(ids, SavedId(n)), saveSnapshotAsync(n))
           /\ Len(Append(ids, SavedId(n))) = Len(ids) + 1
           /\ \A m \in Nat : m <= Len(ids) => /\ IsStack(SubSeq(ids, 1, m), n)
                                              /\ Len(SubSeq(ids, 1, m)) = m
  <1>1. /\ DOMAIN saveSnapshotAsync(n).snaps = DOMAIN n.snaps \cup {SavedId(n)}
        /\ SavedId(n) \in Nat /\ \A i \in DOMAIN n.snaps : i < SavedId(n)
    BY NodeFacts
  <1> DEFINE new == saveSnapshotAsync(n)
             last == SavedId(n)
  <1>2. IsStack(ids, new) BY <1>1 DEF IsStack
  <1> HIDE DEF new, last
  <1>3. IsStack(Append(ids, last), new) /\ Len(Append(ids, last)) = Len(ids) + 1
    <2>1. ids \in Seq(Nat) /\ Len(ids) \in Nat BY DEF IsStack
    <2>2. /\ Append(ids, last) \in Seq(Nat) /\ Len(Append(ids, last)) = Len(ids) + 1
          /\ \A i \in 1..Len(ids) : Append(ids, last)[i] = ids[i]
          /\ Append(ids, last)[Len(ids) + 1] = last
      BY <1>1, <2>1 DEF last
    <2>3. \A i \in 1..Len(ids) : ids[i] \in DOMAIN n.snaps /\ ids[i] < last
      BY <1>1 DEF IsStack, last
    <2>4. \A i \in 1..(Len(ids) + 1) : i \in 1..Len(ids) \/ i = Len(ids) + 1
      BY <2>1
    <2>5. \A i, j \in 1..(Len(ids) + 1) : i < j => i \in 1..Len(ids)
      BY <2>1
    <2> QED BY <1>1, <2>1, <2>2, <2>3, <2>4, <2>5 DEF IsStack, new, last
  <1>4. ASSUME NEW m \in Nat, m <= Len(ids)
        PROVE  IsStack(SubSeq(ids, 1, m), n) /\ Len(SubSeq(ids, 1, m)) = m
    <2>1. ids \in Seq(Nat) /\ Len(ids) \in Nat BY DEF IsStack
    <2>2. /\ SubSeq(ids, 1, m) \in Seq(Nat) /\ Len(SubSeq(ids, 1, m)) = m
          /\ \A i \in 1..m : SubSeq(ids, 1, m)[i] = ids[i] /\ i \in 1..Len(ids)
      BY <1>4, <2>1
    <2> QED BY <2>2 DEF IsStack
  <1> QED BY <1>2, <1>3, <1>4 DEF new, last

-----------------------------------------------------------------------------
\* A process starts with an empty stack and nothing initialized.
LEMMA Starts ==
    ASSUME NodeOK, UNCHANGED node, NEW f \in Forests, StartSession(f),
           run' = [Ended EXCEPT !.phase = "loaded"]
    PROVE  StackInv'
  <1>1. forest' = f /\ SNAPSHOTS' = <<>> /\ initialized' = [hook \in Hooks' |-> FALSE]
    BY DEF StartSession
  <1>2. Built' = {} BY <1>1 DEF Built
  <1>3. StackOK' BY <1>1 DEF StackOK, IsStack
  <1>4. RunOK' /\ run'.phase = "loaded" BY DEF RunOK, Ended, Running
  <1>5. CachesOK' BY <1>1, <1>2, <1>4, FS_EmptySet DEF CachesOK, Running
  <1> QED BY <1>1, <1>3, <1>4, <1>5 DEF StackInv, NodeOK

\* A transaction leaves the snapshots alone.
LEMMA Sends ==
    ASSUME NodeOK, StackOK, NEW entries, node' = EvmSend(node, entries), UNCHANGED SNAPSHOTS
    PROVE  NodeOK' /\ StackOK'
  BY NodeFacts DEF NodeOK, StackOK, IsStack

\* A hook that pushes and pops nothing, or as much as it pops, is done.
LEMMA HookStays ==
    ASSUME StackInv, forest \in Forests, CachesOK, run.phase \in Running \ {"after"},
           NEW hook, HookDone(hook), UNCHANGED <<forest, initialized>>, NodeOK', StackOK',
           Len(SNAPSHOTS') = Len(SNAPSHOTS)
    PROVE  StackInv'
  <1> DEFINE s == run.at
             T == run.todo \ {hook}
             f == run.failed
             k == run.test
             p == run.phase
  <1>1. /\ run = [phase |-> p, at |-> s, test |-> k, todo |-> run.todo, failed |-> f]
        /\ s \in Suites /\ f \in {0} \cup Around(s)
        /\ \A h \in run.todo : /\ h \in Hooks /\ h.suite \in Around(s)
                               /\ p \in {"before", "after"} => h.suite = s
    BY DEF StackInv, RunOK
  <1>2. /\ \A h \in Built : h.suite <= s
        /\ Len(SNAPSHOTS') = Cardinality(BuiltIn(s))
    BY Inside
  <1> HIDE DEF s, f, k, p
  <1>3. run' = [phase |-> p, at |-> s, test |-> k, todo |-> T, failed |-> f]
    <2>1. run' = [run EXCEPT !.todo = T] BY DEF HookDone
    <2> HIDE DEF T
    <2> QED BY <1>1, <2>1
  <1>4. p \in Running /\ p # "after" BY DEF p
  <1>5. \A h \in T : /\ h \in Hooks /\ h.suite \in Around(s)
                     /\ p \in {"before", "after"} => h.suite = s
                     /\ p = "after" => h.kind = "cache"
    BY <1>1, <1>4
  <1>6. /\ \A h \in Built : h.suite <= s \/ (p = "after" /\ s \in Around(h.suite))
        /\ \A h \in BuiltIn(s) : p = "after" /\ h.suite = s => h \in T
    BY <1>2, <1>4
  <1> HIDE DEF T
  <1>7. s \in Suites /\ f \in {0} \cup Around(s) BY <1>1
  <1>8. Len(SNAPSHOTS') = Cardinality(BuiltIn(s)) BY <1>2
  <1> HIDE <1>1, <1>2
  <1> QED BY <1>3, <1>4, <1>5, <1>6, <1>7, <1>8, Goes

\* Mocha turns to the afterEach hooks, of all suites around the test or of those
\* around the suite whose hook threw.
LEMMA TestEnded ==
    ASSUME StackInv, forest \in Forests, CachesOK, run.phase \in Running \ {"after"},
           NEW k, NEW f \in {0} \cup Around(run.at), run' = EndTest(run.at, k, f),
           UNCHANGED <<forest, initialized, SNAPSHOTS>>, NodeOK', StackOK'
    PROVE  StackInv'
  <1> DEFINE s == run.at
             T == AfterEachHooks(IF f = 0 THEN s ELSE f)
  <1>1. /\ s \in Suites /\ \A h \in Built : h.suite <= s
        /\ Len(SNAPSHOTS') = Cardinality(BuiltIn(s))
    BY Inside
  <1>2. run' = [phase |-> "afterEach", at |-> s, test |-> k, todo |-> T, failed |-> f]
    BY DEF EndTest
  <1> HIDE DEF s
  <1>3. PICK t \in Around(s) : T = HooksOf(Around(t), {"snap"})
    BY <1>1, AroundFacts DEF AfterEachHooks, s
  <1>4. Around(s) \subseteq Suites /\ Around(t) \subseteq Around(s)
    BY <1>1, <1>3, AroundFacts
  <1> HIDE DEF T
  <1>5. \A h \in T : h \in Hooks /\ h.suite \in Around(s)
    BY <1>3, <1>4, HooksOfFacts DEF HookKinds
  <1>6. f \in {0} \cup Around(s) BY DEF s
  <1> QED BY <1>1, <1>2, <1>5, <1>6, Goes DEF Running

\* A hook that threw has pushed nothing.
LEMMA HookThrowsStep ==
    ASSUME StackInv, forest \in Forests, CachesOK, NEW hook \in NextHooks, HookThrows(hook)
    PROVE  StackInv'
  <1>1. /\ run.phase \in {"before", "beforeEach"} /\ HookFailed(hook)
        /\ \E entries : node' = EvmSend(node, entries)
        /\ UNCHANGED <<forest, initialized, SNAPSHOTS>>
    BY DEF HookThrows, Deploying
  <1>2. NodeOK' /\ StackOK' BY <1>1, Sends DEF StackInv
  <1>3. /\ run.phase \in Running \ {"after"} /\ hook.suite \in Around(run.at)
        /\ run.phase = "before" => hook.suite = run.at
    BY <1>1 DEF NextHooks, StackInv, RunOK, Running
  <1>4. CASE run.phase = "before"
    <2>1. run' = Leave(run.at, run.at) BY <1>1, <1>3, <1>4 DEF HookFailed
    <2> QED BY <1>1, <1>2, <1>3, <1>4, <2>1, Inside, Leaves
  <1>5. CASE run.phase # "before"
    BY <1>1, <1>2, <1>3, <1>5, TestEnded DEF HookFailed
  <1> QED BY <1>4, <1>5

\* A hook is what its suite registered at its place.
LEMMA HookRegistered ==
    ASSUME NEW h \in Hooks
    PROVE  /\ h.suite \in Suites /\ h.index \in DOMAIN forest[h.suite].hooks
           /\ forest[h.suite].hooks[h.index] = h.kind
  BY DEF Hooks, HooksOf, HooksIn

\* No place is inside of both sandboxes.
LEMMA OneKind ==
    ASSUME forest \in Forests, NEW s \in Suites, NEW h \in Hooks, NEW g \in Hooks,
           h.suite \in Around(s), g.suite \in Around(s), h.kind = "cache", g.kind = "snap"
    PROVE  FALSE
  <1> DEFINE a == h.suite
             b == g.suite
  <1>1. OneSandboxPerFile(forest) BY ForestsAssumption
  <1>2. Around(a) \cap Around(b) = {}
    BY <1>1, HookRegistered DEF OneSandboxPerFile, Around, Suites
  <1> HIDE DEF a, b
  <1>3. /\ a \in Suites /\ b \in Suites /\ a <= s /\ b <= s /\ Suites \subseteq Nat
        /\ a \in Around(s) /\ b \in Around(s)
    BY AroundFacts DEF a, b
  <1>4. a \in Around(a) /\ b \in Around(b) BY <1>3, AroundFacts
  <1>5. CASE a <= b
    <2>1. a \in Around(b) BY <1>3, <1>5, AroundFacts
    <2> QED BY <2>1, <1>2, <1>4
  <1>6. CASE b <= a
    <2>1. b \in Around(a) BY <1>3, <1>6, AroundFacts
    <2> QED BY <2>1, <1>2, <1>4
  <1> QED BY <1>3, <1>5, <1>6

\* Where addSnapshotBeforeRestoreAfterEach is used the stack is empty.
LEMMA NoCacheAround ==
    ASSUME StackInv, forest \in Forests, CachesOK, run.phase \in Running \ {"after"},
           NEW hook \in run.todo, hook.kind = "snap"
    PROVE  Len(SNAPSHOTS) = 0
  <1>1. /\ run.at \in Suites /\ hook \in Hooks /\ hook.suite \in Around(run.at)
        /\ Len(SNAPSHOTS) = Cardinality(BuiltIn(run.at))
    BY Inside DEF StackInv, RunOK
  <1>2. BuiltIn(run.at) = {}
    BY <1>1, OneKind DEF BuiltIn, Built, CachesOK
  <1> QED BY <1>1, <1>2, FS_EmptySet

-----------------------------------------------------------------------------
\* The initializer has come to its end: its snapshot is pushed.
LEMMA CacheInitializeStep ==
    ASSUME StackInv, forest \in Forests, CachesOK, NEW hook \in NextHooks,
           CacheInitialize(hook)
    PROVE  StackInv'
  <1>1. PICK entries : LET n1 == EvmSend(node, entries) IN
          /\ SNAPSHOTS' = Append(SNAPSHOTS, SavedId(n1)) /\ node' = saveSnapshotAsync(n1)
    BY DEF CacheInitialize
  <1>2. /\ hook.kind = "cache" /\ ~initialized[hook] /\ UNCHANGED forest
        /\ initialized' = [initialized EXCEPT ![hook] = TRUE]
        /\ run.phase \in Running \ {"after"} /\ run' = [run EXCEPT !.todo = @ \ {hook}]
    BY DEF CacheInitialize, Deploying, HookDone, Running
  <1>3. /\ hook \in run.todo /\ hook \in Hooks /\ hook.suite \in Around(run.at)
        /\ RunOK /\ run.at \in Suites
    BY <1>2 DEF NextHooks, StackInv, RunOK
  <1> DEFINE n1 == EvmSend(node, entries)
  <1>4. /\ IsNode(n1) /\ IsStack(SNAPSHOTS, n1)
    BY NodeFacts DEF StackInv, NodeOK, StackOK, IsStack
  <1> HIDE DEF n1
  <1>5. /\ NodeOK' /\ StackOK' /\ Len(SNAPSHOTS') = Len(SNAPSHOTS) + 1
    BY <1>1, <1>4, NodeFacts, StackFacts DEF NodeOK, StackOK, n1
  <1>6. Hooks' = Hooks /\ Suites' = Suites /\ \A t : Around(t)' = Around(t)
    BY <1>2 DEF Hooks, HooksOf, HooksIn, Suites, Around
  <1>7. Built' = Built \cup {hook} /\ hook \notin Built
    BY <1>2, <1>3, <1>6 DEF Built, CachesOK
  <1>8. /\ run'.phase = run.phase /\ run'.at = run.at /\ run'.todo = run.todo \ {hook}
        /\ run'.failed = run.failed
        /\ run' = [phase |-> run'.phase, at |-> run'.at, test |-> run'.test,
                   todo |-> run'.todo, failed |-> run'.failed]
    <2> DEFINE T == run.todo \ {hook}
    <2>1. run' = [run EXCEPT !.todo = T] BY <1>2
    <2> HIDE DEF T
    <2>2. run' = [phase |-> run.phase, at |-> run.at, test |-> run.test, todo |-> T,
                  failed |-> run.failed]
      BY <1>3, <2>1 DEF RunOK
    <2> QED BY <2>2 DEF T
  <1>9. RunOK'
    BY <1>2, <1>3, <1>6, <1>8 DEF RunOK
  <1>10. Stacked' = Stacked \cup {hook} /\ hook \notin Stacked
    BY <1>2, <1>3, <1>6, <1>7, <1>8 DEF Stacked
  <1>11. IsFiniteSet(Built') /\ Len(SNAPSHOTS') = Cardinality(Stacked')
    <2>1. IsFiniteSet(Built) /\ IsFiniteSet(Stacked)
      BY FS_Subset DEF CachesOK, Stacked
    <2>2. Len(SNAPSHOTS) = Cardinality(Stacked)
      BY <1>2 DEF CachesOK
    <2> QED BY <1>5, <1>7, <1>10, <2>1, <2>2, FS_AddElement
  <1>12. CachesOK'
    <2>1. initialized' \in [Hooks' -> BOOLEAN]
      BY <1>2, <1>6 DEF CachesOK
    <2>2. \A h \in Built' : h.kind = "cache"
      BY <1>2, <1>7 DEF CachesOK
    <2>3. \A h \in Built' : h.suite <= run'.at
      BY <1>2, <1>3, <1>7, <1>8, Inside, AroundFacts
    <2> QED BY <1>2, <1>8, <1>11, <2>1, <2>2, <2>3 DEF CachesOK, Behind, Running
  <1> QED BY <1>2, <1>5, <1>9, <1>12 DEF StackInv

\* The snapshot on top is restored and another takes its place.
LEMMA CacheRestoreStep ==
    ASSUME StackInv, forest \in Forests, CachesOK, NEW hook \in NextHooks,
           CacheRestore(hook)
    PROVE  StackInv'
  <1>1. /\ run.phase \in Running \ {"after"} /\ initialized[hook] /\ HookDone(hook)
        /\ UNCHANGED <<forest, initialized>>
        /\ node' = saveSnapshotAsync(EvmRevert(node, TopId))
        /\ SNAPSHOTS' = Append(Popped, SavedId(EvmRevert(node, TopId)))
    BY DEF CacheRestore, revertByIdAsync, Running
  <1>2. hook \in Hooks /\ hook.suite \in Around(run.at)
    BY <1>1 DEF NextHooks, StackInv, RunOK
  <1>3. /\ hook \in Stacked /\ IsFiniteSet(Stacked)
        /\ Len(SNAPSHOTS) = Cardinality(Stacked)
    BY <1>1, <1>2, FS_Subset DEF Stacked, Built, CachesOK
  <1> DEFINE m == Len(SNAPSHOTS) - 1
             n1 == EvmRevert(node, TopId)
  <1>4. IsStack(SNAPSHOTS, node) /\ IsNode(node) /\ SNAPSHOTS \in Seq(Nat)
    BY DEF StackInv, StackOK, NodeOK, IsStack
  <1>5. Len(SNAPSHOTS) \in Nat /\ Len(SNAPSHOTS) # 0
    BY <1>3, <1>4, FS_EmptySet
  <1>6. /\ m \in Nat /\ Len(SNAPSHOTS) = m + 1 /\ SNAPSHOTS # <<>>
        /\ TopId = SNAPSHOTS[m + 1] /\ Popped = SubSeq(SNAPSHOTS, 1, m)
    BY <1>4, <1>5 DEF TopId, Popped
  <1> HIDE DEF m
  <1>7. /\ IsStack(Popped, node) /\ Len(Popped) = m
        /\ \A i \in 1..m : Popped[i] = SNAPSHOTS[i]
    BY <1>4, <1>6, StackFacts
  <1>8. TopId \in DOMAIN node.snaps /\ \A i \in 1..m : Popped[i] < TopId
    BY <1>4, <1>6, <1>7 DEF IsStack
  <1>9. IsNode(n1) /\ DOMAIN n1.snaps = {i \in DOMAIN node.snaps : i < TopId}
    BY <1>4, <1>8, NodeFacts
  <1>10. IsStack(Popped, n1)
    BY <1>7, <1>8, <1>9 DEF IsStack
  <1> HIDE DEF n1
  <1>11. NodeOK' /\ StackOK' /\ Len(SNAPSHOTS') = Len(SNAPSHOTS)
    <2>1. node' = saveSnapshotAsync(n1) /\ SNAPSHOTS' = Append(Popped, SavedId(n1))
      BY <1>1 DEF n1
    <2>2. NodeOK' BY <1>9, <2>1, NodeFacts DEF NodeOK
    <2>3. StackOK' BY <1>9, <1>10, <2>1, StackFacts DEF StackOK
    <2>4. Len(SNAPSHOTS') = m + 1 BY <1>7, <1>9, <1>10, <2>1, StackFacts
    <2> QED BY <2>2, <2>3, <2>4, <1>6
  <1> QED BY <1>1, <1>11, HookStays

\* The after hook of a cache pops what its beforeEach hook pushed.
LEMMA CacheAfterStep ==
    ASSUME StackInv, forest \in Forests, CachesOK, NEW hook \in NextHooks,
           CacheAfter(hook)
    PROVE  StackInv'
  <1>1. /\ run.phase = "after" /\ run' = [run EXCEPT !.todo = @ \ {hook}]
        /\ SNAPSHOTS' = IF initialized[hook] THEN Popped ELSE SNAPSHOTS
        /\ UNCHANGED <<forest, node, initialized>>
    BY DEF CacheAfter, HookDone
  <1>2. /\ hook \in run.todo /\ hook \in Hooks /\ hook.suite = run.at
        /\ RunOK /\ run.at \in Suites /\ hook.suite \in Around(run.at)
    BY <1>1 DEF NextHooks, StackInv, RunOK, Running
  <1>3. Hooks' = Hooks /\ Suites' = Suites /\ Built' = Built /\ \A t : Around(t)' = Around(t)
    BY <1>1 DEF Hooks, HooksOf, HooksIn, Suites, Around, Built
  <1>4. /\ run'.phase = run.phase /\ run'.at = run.at /\ run'.todo = run.todo \ {hook}
        /\ run'.failed = run.failed
        /\ run' = [phase |-> run'.phase, at |-> run'.at, test |-> run'.test,
                   todo |-> run'.todo, failed |-> run'.failed]
    <2> DEFINE T == run.todo \ {hook}
    <2>1. run' = [run EXCEPT !.todo = T] BY <1>1
    <2> HIDE DEF T
    <2>2. run' = [phase |-> run.phase, at |-> run.at, test |-> run.test, todo |-> T,
                  failed |-> run.failed]
      BY <1>2, <2>1 DEF RunOK
    <2> QED BY <2>2 DEF T
  <1>5. RunOK'
    BY <1>1, <1>2, <1>3, <1>4 DEF RunOK
  <1>6. Stacked' = Stacked \ {hook}
    BY <1>1, <1>2, <1>3, <1>4 DEF Stacked
  <1>7. /\ IsFiniteSet(Stacked) /\ Len(SNAPSHOTS) = Cardinality(Stacked)
        /\ IsStack(SNAPSHOTS, node) /\ NodeOK /\ Len(SNAPSHOTS) \in Nat
    BY <1>1, FS_Subset DEF StackInv, CachesOK, Stacked, StackOK, Running, IsStack
  <1>8. CASE initialized[hook]
    <2>1. hook \in Stacked BY <1>2, <1>8 DEF Stacked, Built
    <2>2. Len(SNAPSHOTS) # 0 BY <1>7, <2>1, FS_EmptySet
    <2> DEFINE m == Len(SNAPSHOTS) - 1
    <2>3. SNAPSHOTS' = SubSeq(SNAPSHOTS, 1, m) /\ m \in Nat /\ m <= Len(SNAPSHOTS)
      BY <1>1, <1>7, <1>8, <2>2 DEF Popped, IsStack
    <2>4. IsStack(SNAPSHOTS', node) /\ Len(SNAPSHOTS') = m
      <3> HIDE DEF m
      <3> QED BY <1>7, <2>3, StackFacts DEF NodeOK
    <2>5. Len(SNAPSHOTS') = Cardinality(Stacked')
      BY <1>6, <1>7, <2>1, <2>4, FS_RemoveElement
    <2>6. CachesOK'
      BY <1>1, <1>3, <1>4, <2>5 DEF CachesOK, Behind, Running
    <2> QED BY <1>1, <1>5, <1>7, <2>4, <2>6 DEF StackInv, NodeOK, StackOK
  <1>9. CASE ~initialized[hook]
    <2>1. hook \notin Stacked /\ UNCHANGED SNAPSHOTS
      BY <1>1, <1>9 DEF Stacked, Built
    <2>2. Len(SNAPSHOTS') = Cardinality(Stacked')
      BY <1>6, <1>7, <2>1, FS_RemoveElement
    <2>3. CachesOK'
      BY <1>1, <1>3, <1>4, <2>2 DEF CachesOK, Behind, Running
    <2> QED BY <1>1, <1>5, <1>7, <2>1, <2>3 DEF StackInv, NodeOK, StackOK
  <1> QED BY <1>8, <1>9

\* The hooks of addSnapshotBeforeRestoreAfterEach run on an empty stack.
LEMMA SnapStep ==
    ASSUME StackInv, forest \in Forests, CachesOK, NEW hook \in NextHooks,
           SnapSave(hook) \/ SnapRestore(hook)
    PROVE  StackInv'
  <1>1. /\ run.phase \in Running \ {"after"} /\ HookDone(hook) /\ hook.kind = "snap"
        /\ UNCHANGED <<forest, initialized, SNAPSHOTS>>
        /\ \E id : node' \in {saveSnapshotAsync(node), EvmRevert(node, id)}
    BY DEF SnapSave, SnapRestore, revertAsync, Running
  <1>2. Len(SNAPSHOTS) = 0 /\ SNAPSHOTS \in Seq(Nat)
    BY <1>1, NoCacheAround DEF NextHooks, StackInv, StackOK, IsStack
  <1>3. NodeOK'
    BY <1>1, NodeFacts DEF StackInv, NodeOK
  <1>4. StackOK'
    BY <1>1, <1>2 DEF StackOK, IsStack
  <1> QED BY <1>1, <1>3, <1>4, HookStays

\* A before or beforeEach hook of a spec.
LEMMA PlainHookStep ==
    ASSUME StackInv, forest \in Forests, CachesOK, NEW hook \in NextHooks, PlainHook(hook)
    PROVE  StackInv'
  <1>1. /\ run.phase \in Running \ {"after"} /\ HookDone(hook)
        /\ \E entries : node' = EvmSend(node, entries)
        /\ UNCHANGED <<forest, initialized, SNAPSHOTS>>
    BY DEF PlainHook, Deploying, Running
  <1>2. NodeOK' /\ StackOK' BY <1>1, Sends DEF StackInv
  <1> QED BY <1>1, <1>2, HookStays

-----------------------------------------------------------------------------
\* Every step of a session keeps the invariant.
LEMMA SessionStepKeeps ==
    ASSUME StackInv, run.phase # "off", SessionStep
    PROVE  StackInv'
  <1>1. forest \in Forests /\ CachesOK /\ NodeOK /\ StackOK /\ RunOK
    BY DEF StackInv
  <1>2. CASE Load
    <2>1. /\ run.phase = "loaded" /\ UNCHANGED <<forest, node, SNAPSHOTS, initialized>>
          /\ run' = IF Visited(0) = {} THEN Ended ELSE Enter(First(Visited(0)))
      BY <1>2 DEF Load
    <2>2. NodeOK' /\ StackOK' BY <1>1, <2>1 DEF NodeOK, StackOK
    <2>3. Built = {} /\ SNAPSHOTS = <<>> BY <1>1, <2>1 DEF CachesOK
    <2>4. CASE Visited(0) = {}
      <3>1. Built' = Built /\ Hooks' = Hooks
        BY <2>1 DEF Built, Hooks, HooksOf, HooksIn, Suites
      <3>2. run' = Ended BY <2>1, <2>4
      <3>3. RunOK' BY <3>2 DEF RunOK, Ended, Running
      <3>4. CachesOK' BY <1>1, <2>1, <3>1, <3>2 DEF CachesOK, Ended, Running
      <3> QED BY <1>1, <2>1, <2>2, <3>3, <3>4 DEF StackInv
    <2>5. CASE Visited(0) # {}
      <3> DEFINE t == First(Visited(0))
      <3>1. Suites \subseteq Nat
        BY <1>1, AroundFacts
      <3>2. t \in Visited(0) BY <3>1, <2>5, FirstIsIn DEF Visited
      <3> HIDE DEF t
      <3>3. t \in Suites BY <3>2 DEF Visited
      <3>4. Len(SNAPSHOTS') = Cardinality(BuiltIn(t))
        BY <2>1, <2>3, FS_EmptySet DEF BuiltIn
      <3>5. run' = Enter(t) BY <2>1, <2>5 DEF t
      <3> QED BY <1>1, <2>1, <2>2, <2>3, <3>3, <3>4, <3>5, Enters
    <2> QED BY <2>4, <2>5
  <1>3. CASE Advance
    <2>1. /\ run.phase \in {"before", "beforeEach", "afterEach", "after"} /\ run.todo = {}
          /\ UNCHANGED <<forest, node, SNAPSHOTS, initialized>>
          /\ run.phase = "before" => run' = AfterTest(run.at, 0, 0)
          /\ run.phase = "beforeEach" => run' = [run EXCEPT !.phase = "body"]
          /\ run.phase = "afterEach" => run' = AfterTest(run.at, run.test, run.failed)
          /\ run.phase = "after" => run' = AfterSuite(run.at, run.failed)
      BY <1>3 DEF Advance
    <2>2. NodeOK' /\ StackOK' BY <1>1, <2>1 DEF NodeOK, StackOK
    <2>3. CASE run.phase = "before"
      BY <1>1, <2>1, <2>2, <2>3, AfterTestStep DEF Running
    <2>4. CASE run.phase = "afterEach"
      <3>1. run.failed \in {0} \cup Around(run.at) BY <1>1, <2>4 DEF RunOK, Running
      <3> QED BY <1>1, <2>1, <2>2, <2>4, <3>1, AfterTestStep DEF Running
    <2>5. CASE run.phase = "after"
      BY <1>1, <2>1, <2>2, <2>5, AfterSuiteStep
    <2>6. CASE run.phase = "beforeEach"
      <3> DEFINE s == run.at
                 f == run.failed
                 k == run.test
      <3>1. /\ s \in Suites /\ f \in {0} \cup Around(s)
            /\ run = [phase |-> run.phase, at |-> s, test |-> k, todo |-> {}, failed |-> f]
        BY <1>1, <2>1, <2>6 DEF RunOK, Running
      <3>2. (\A h \in Built : h.suite <= s) /\ Len(SNAPSHOTS') = Cardinality(BuiltIn(s))
        BY <1>1, <2>1, <2>6, Inside DEF Running
      <3> HIDE DEF s, f, k
      <3>3. run' = [phase |-> "body", at |-> s, test |-> k, todo |-> {}, failed |-> f]
        BY <2>1, <2>6, <3>1
      <3> QED BY <1>1, <2>1, <2>2, <3>1, <3>2, <3>3, Goes DEF Running
    <2> QED BY <2>1, <2>3, <2>4, <2>5, <2>6
  <1>4. CASE Hook
    BY <1>1, <1>4, PlainHookStep, CacheInitializeStep, CacheRestoreStep, CacheAfterStep,
       SnapStep DEF Hook
  <1>5. CASE \E hook \in NextHooks : HookThrows(hook)
    BY <1>1, <1>5, HookThrowsStep
  <1>6. CASE RunTest
    <2>1. /\ run.phase \in Running \ {"after"} /\ run' = EndTest(run.at, run.test, 0)
          /\ \E entries : node' = EvmSend(node, entries)
          /\ UNCHANGED <<forest, initialized, SNAPSHOTS>>
      BY <1>6 DEF RunTest, Running
    <2>2. NodeOK' /\ StackOK' BY <1>1, <2>1, Sends
    <2> QED BY <1>1, <2>1, <2>2, TestEnded
  <1>7. CASE Kill
    BY <1>1, <1>7, Starts DEF Kill
  <1> QED BY <1>2, <1>3, <1>4, <1>5, <1>6, <1>7 DEF SessionStep

\* Typechain touches no session, and a session keeps the stack.
LEMMA ToolchainKeepsStack == ToolSpec => []StackInv
  <1>1. ToolInit => StackInv
    <2> SUFFICES ASSUME ToolInit PROVE StackInv OBVIOUS
    <2>1. node = [chain |-> <<>>, snaps |-> <<>>, nextId |-> 1] /\ SNAPSHOTS = <<>>
      BY DEF ToolInit, NewNode
    <2>2. NodeOK /\ StackOK BY <2>1 DEF NodeOK, StackOK, IsNode, IsStack
    <2>3. RunOK /\ run.phase = "off" BY DEF ToolInit, Ended, RunOK, Running
    <2> QED BY <2>2, <2>3 DEF StackInv
  <1>2. StackInv /\ [ToolNext]_toolVars => StackInv'
    <2> SUFFICES ASSUME StackInv, [ToolNext]_toolVars PROVE StackInv' OBVIOUS
    <2>1. CASE UNCHANGED sessionVars
      BY <2>1, SMTT(40)
         DEF sessionVars, StackInv, NodeOK, StackOK, RunOK, CachesOK, Built, Stacked, Behind,
             Hooks, HooksOf, HooksIn, Suites, Around
    <2>2. CASE Test
      BY <2>2, Starts DEF Test, StackInv
    <2>3. CASE SessionStep /\ run.phase # "off"
      BY <2>3, SessionStepKeeps
    <2>4. SessionStep => run.phase # "off"
      BY DEF SessionStep, Load, Advance, Hook, PlainHook, CacheInitialize, CacheRestore,
             CacheAfter, SnapSave, SnapRestore, HookThrows, Deploying, RunTest, Kill
    <2> QED BY <2>1, <2>2, <2>3, <2>4 DEF ToolNext, Build, toolVars
  <1> QED BY <1>1, <1>2, PTL DEF ToolSpec

\* cacheBeforeEach keeps one snapshot on the stack for each initialized cache
\* around the place Mocha is at, all of them known to the node: for suites nested
\* and following each other in any way, initializers that throw and processes that
\* are killed.
THEOREM SandboxStackMatchesSuites == ToolSpec => []StackMatchesSuites
  <1>1. StackInv => StackMatchesSuites
    <2> SUFFICES ASSUME StackInv, run.phase \in {"before", "beforeEach", "body", "afterEach"}
                 PROVE  /\ Len(SNAPSHOTS) = Cardinality(
                             {h \in HooksOf(Around(run.at), {"cache"}) : initialized[h]})
                        /\ \A i \in DOMAIN SNAPSHOTS : SNAPSHOTS[i] \in DOMAIN node.snaps
      BY DEF StackMatchesSuites
    <2>1. /\ forest \in Forests /\ CachesOK /\ StackOK
          /\ run.phase \in Running \ {"after"}
      BY DEF StackInv, Running
    <2>2. run.at \in Suites /\ Len(SNAPSHOTS) = Cardinality(BuiltIn(run.at))
      BY <2>1, Inside
    <2>3. Around(run.at) \subseteq Suites BY <2>1, <2>2, AroundFacts
    <2>4. HooksOf(Around(run.at), {"cache"})
            = {h \in Hooks : h.suite \in Around(run.at) /\ h.kind \in {"cache"}}
      BY <2>3, HooksOfFacts DEF HookKinds
    <2>5. BuiltIn(run.at) = {h \in HooksOf(Around(run.at), {"cache"}) : initialized[h]}
      BY <2>1, <2>4 DEF BuiltIn, Built, CachesOK
    <2> QED BY <2>1, <2>2, <2>5 DEF StackOK, IsStack
  <1> QED BY <1>1, ToolchainKeepsStack, PTL
-----------------------------------------------------------------------------
(***************************************************************************)
(* The handles of the specs: the chain goes back to snapshots and addresses*)
(* are given again, yet what a test holds when it starts are the contracts  *)
(* it means.                                                               *)
(***************************************************************************)

\* A handle points at a contract of its kind, which points at contracts of the
\* kinds that its recipe asks for.
LiveIn(h, c) ==
    /\ h.addr \in DOMAIN c /\ c[h.addr].kind = h.kind
    /\ \A j \in Recipes[h.kind] :
         LET ref == c[h.addr].refs[j]
         IN  ref \in DOMAIN c /\ ref < h.addr /\ c[ref].kind = j

IsChain(c) == \E S : c \in Seq(S)

\* What is sent to a chain leaves its contracts where they are.
LEMMA ChainGrows ==
    ASSUME NEW c, IsChain(c), NEW e, IsChain(e)
    PROVE  /\ IsChain(c \o e) /\ DOMAIN c = 1..Len(c) /\ Len(c) \in Nat /\ Len(e) \in Nat
           /\ Len(c \o e) = Len(c) + Len(e)
           /\ \A i \in 1..Len(c) : (c \o e)[i] = c[i]
           /\ \A h : LiveIn(h, c) => LiveIn(h, c \o e)
  <1>1. PICK S : c \in Seq(S) BY DEF IsChain
  <1>2. PICK T : e \in Seq(T) BY DEF IsChain
  <1>3. c \in Seq(S \cup T) /\ e \in Seq(S \cup T)
    BY <1>1, <1>2
  <1>4. /\ c \o e \in Seq(S \cup T) /\ Len(c \o e) = Len(c) + Len(e)
        /\ Len(c) \in Nat /\ Len(e) \in Nat
        /\ DOMAIN c = 1..Len(c) /\ DOMAIN (c \o e) = 1..(Len(c) + Len(e))
        /\ \A i \in 1..Len(c) : (c \o e)[i] = c[i]
    BY <1>3
  <1> DEFINE ce == c \o e
  <1>5. \A i \in DOMAIN c : i \in DOMAIN ce /\ ce[i] = c[i]
    BY <1>4
  <1> HIDE DEF ce
  <1>6. ASSUME NEW h, LiveIn(h, c) PROVE LiveIn(h, ce)
    BY <1>5, <1>6 DEF LiveIn
  <1> QED BY <1>4, <1>6 DEF IsChain, ce

\* A contract is sent to the end of a chain.
LEMMA ChainAppends ==
    ASSUME NEW c, IsChain(c), NEW x
    PROVE  /\ IsChain(Append(c, x)) /\ Len(Append(c, x)) = Len(c) + 1
           /\ DOMAIN c = 1..Len(c) /\ Len(c) \in Nat
           /\ DOMAIN Append(c, x) = 1..(Len(c) + 1)
           /\ \A i \in 1..Len(c) : Append(c, x)[i] = c[i]
           /\ Append(c, x)[Len(c) + 1] = x
           /\ \A e : IsChain(e) => e \o Append(c, x) = Append(e \o c, x)
  <1>1. PICK S : c \in Seq(S) BY DEF IsChain
  <1> DEFINE T == S \cup {x}
  <1>2. c \in Seq(T) /\ x \in T BY <1>1
  <1>3. /\ Append(c, x) \in Seq(T) /\ Len(Append(c, x)) = Len(c) + 1 /\ Len(c) \in Nat
        /\ DOMAIN c = 1..Len(c) /\ DOMAIN Append(c, x) = 1..(Len(c) + 1)
        /\ \A i \in 1..Len(c) : Append(c, x)[i] = c[i]
        /\ Append(c, x)[Len(c) + 1] = x
    <2> HIDE DEF T
    <2> QED BY <1>2
  <1>4. ASSUME NEW e, IsChain(e) PROVE e \o Append(c, x) = Append(e \o c, x)
    <2>1. PICK U : e \in Seq(U) BY <1>4 DEF IsChain
    <2> DEFINE V == U \cup T
    <2>2. e \in Seq(V) /\ c \in Seq(V) /\ x \in V BY <1>2, <2>1
    <2> HIDE DEF V, T
    <2> QED BY <2>2
  <1> QED BY <1>3, <1>4 DEF IsChain

-----------------------------------------------------------------------------
\* The recursion of Deployments.
DeployUpTo(f, hook, n) ==
    IF n = 0 THEN [sent |-> <<>>, hs |-> Found(hook), own |-> {}]
    ELSE CHOOSE st \in {DeployNext(before, hook) : before \in {f[n - 1]}} : TRUE

\* The equation that Deployments chooses a function by has a solution.
LEMMA DeployingDefined ==
    ASSUME NEW hook, NEW n \in Nat
    PROVE  \E f : f = [i \in 0..n |-> DeployUpTo(f, hook, i)]
  <1> DEFINE Deployed(f, m) == [i \in 0..m |-> DeployUpTo(f, hook, i)]
             Undefined == {m \in Nat : \A f : f # Deployed(f, m)}
  <1>1. ASSUME NEW f, NEW g, NEW i \in Nat, i # 0 => g[i - 1] = f[i - 1]
        PROVE  DeployUpTo(g, hook, i) = DeployUpTo(f, hook, i)
    BY <1>1 DEF DeployUpTo
  <1>2. Undefined = {}
    <2> SUFFICES ASSUME Undefined # {} PROVE FALSE
      OBVIOUS
    <2>1. PICK m \in Undefined : \A k \in Undefined : m <= k
      BY LeastOfNat
    <2>2. m \in Nat /\ \A f : f # Deployed(f, m)
      BY <2>1
    <2>3. CASE m = 0
      <3> DEFINE g == [i \in 0..m |-> DeployUpTo(<<>>, hook, 0)]
      <3>1. g = Deployed(g, m)
        BY <2>3 DEF DeployUpTo
      <3> QED BY <2>2, <3>1
    <2>4. CASE m # 0
      <3>1. m - 1 \in Nat /\ ~(m <= m - 1)
        BY <2>2, <2>4
      <3>2. PICK f : f = Deployed(f, m - 1)
        <4> HIDE DEF Deployed
        <4> QED BY <2>1, <3>1
      <3> DEFINE g == [i \in 0..m |-> IF i = m THEN DeployUpTo(f, hook, m) ELSE f[i]]
      <3>3. ASSUME NEW i \in 0..m
            PROVE  g[i] = DeployUpTo(g, hook, i)
        <4>1. i \in Nat /\ i # 0 => g[i - 1] = f[i - 1]
          BY <2>2
        <4>2. DeployUpTo(g, hook, i) = DeployUpTo(f, hook, i)
          <5> HIDE DEF g
          <5> QED BY <1>1, <4>1
        <4>3. CASE i = m
          BY <4>2, <4>3
        <4>4. CASE i # m
          <5>1. i \in 0..(m - 1) /\ g[i] = f[i]
            BY <2>2, <4>4
          <5>2. f[i] = DeployUpTo(f, hook, i)
            BY <3>2, <5>1
          <5> QED BY <4>2, <5>1, <5>2
        <4> QED BY <4>3, <4>4
      <3>4. g = Deployed(g, m)
        BY <3>3
      <3> QED BY <2>2, <3>4
    <2> QED BY <2>3, <2>4
  <1>3. PICK f : f = Deployed(f, n)
    BY <1>2
  <1> QED BY <1>3

\* A hook wants finitely many contracts.
LEMMA MissingFinite ==
    ASSUME forest \in Forests, NEW hook \in Hooks
    PROVE  IsFiniteSet(Missing(hook)) /\ Cardinality(Missing(hook)) \in Nat
  <1> DEFINE subject == forest[hook.suite].subject
  <1>1. hook.suite \in Suites BY HooksOfFacts DEF Hooks
  <1>2. subject \in Kinds \cup {"System"}
    <2> DEFINE R == [parent : Nat, around : SUBSET Nat, hooks : Seq(HookKinds),
                     tests : Nat, subject : Kinds \cup {"System"}]
    <2>1. \A r \in R : r.subject \in Kinds \cup {"System"} OBVIOUS
    <2>2. forest \in Seq(R) BY ForestsAssumption DEF IsForest
    <2> HIDE DEF R
    <2>3. forest[hook.suite] \in R BY <2>2, <1>1 DEF Suites
    <2> QED BY <2>1, <2>3
  <1>3. IsFiniteSet(Wanted(subject))
    BY <1>2, NeedsAssumption DEF Wanted
  <1>4. Missing(hook) \subseteq Wanted(subject)
    BY DEF Missing
  <1> HIDE DEF subject
  <1> QED BY <1>3, <1>4, FS_Subset, FS_CardinalityType

\* The deployments of a hook, one by one.
LEMMA DeploymentSteps ==
    ASSUME forest \in Forests, NEW hook \in Hooks
    PROVE  \E n \in Nat :
             /\ DOMAIN Deployments(hook) = 0..n /\ Cardinality(0..n) - 1 = n
             /\ Deployments(hook)[0] = [sent |-> <<>>, hs |-> Found(hook), own |-> {}]
             /\ \A i \in 1..n : Deployments(hook)[i] = DeployNext(Deployments(hook)[i - 1], hook)
  <1> DEFINE n == Cardinality(Missing(hook))
             D == Deployments(hook)
  <1>1. n \in Nat BY MissingFinite
  <1>2. D = CHOOSE f : f = [i \in 0..n |-> DeployUpTo(f, hook, i)]
    BY DEF Deployments, DeployUpTo
  <1> HIDE DEF n, D
  <1>3. D = [i \in 0..n |-> DeployUpTo(D, hook, i)]
    BY <1>1, <1>2, DeployingDefined
  <1>4. ASSUME NEW i \in 0..n PROVE D[i] = DeployUpTo(D, hook, i)
    BY <1>3
  <1>5. D[0] = [sent |-> <<>>, hs |-> Found(hook), own |-> {}]
    BY <1>1, <1>4, SMTT(40) DEF DeployUpTo
  <1>6. ASSUME NEW i \in 1..n PROVE D[i] = DeployNext(D[i - 1], hook)
    <2>1. i \in 0..n /\ i # 0 BY <1>1
    <2> DEFINE next == DeployNext(D[i - 1], hook)
    <2>2. D[i] = CHOOSE st \in {DeployNext(before, hook) : before \in {D[i - 1]}} : TRUE
      BY <1>4, <2>1 DEF DeployUpTo
    <2>3. {DeployNext(before, hook) : before \in {D[i - 1]}} = {next}
      OBVIOUS
    <2> HIDE DEF next
    <2> QED BY <2>2, <2>3 DEF next
  <1>7. DOMAIN D = 0..n BY <1>3
  <1>8. Cardinality(0..n) - 1 = n BY <1>1, FS_Interval
  <1> QED BY <1>1, <1>5, <1>6, <1>7, <1>8 DEF D

\* What a hook has deployed so far is live, with what it may need of the rest, and
\* the hook has a handle to all it sent.
DeployedOK(st, hook) ==
    /\ st = [sent |-> st.sent, hs |-> st.hs, own |-> st.own]
    /\ IsChain(st.sent)
    /\ \A h \in st.own : LiveIn(h, node.chain \o st.sent)
    /\ \A h \in st.hs : \A k \in Missing(hook) :
         h.kind \in Recipes[k] => LiveIn(h, node.chain \o st.sent)
    /\ \A i \in 1..Len(st.sent) : \E h \in st.own : h.addr = Len(node.chain) + i

\* One more deployment leaves all live.
LEMMA DeployNextKeeps ==
    ASSUME IsChain(node.chain), NEW hook, NEW st, DeployedOK(st, hook)
    PROVE  DeployedOK(DeployNext(st, hook), hook)
  <1> DEFINE ready == {k \in Missing(hook) \ KindsOf(st.own) : Recipes[k] \subseteq KindsOf(st.hs)}
  <1>1. CASE ready = {}
    BY <1>1 DEF DeployNext
  <1>2. CASE ready # {}
    <2>1. PICK k \in ready : DeployNext(st, hook) = DeployOne(st, k, hook)
      BY <1>2 DEF DeployNext
    <2>2. k \in Missing(hook) /\ Recipes[k] \subseteq KindsOf(st.hs)
      BY <2>1
    <2> HIDE DEF ready
    <2> DEFINE refs == [j \in Recipes[k] |-> (CHOOSE h \in st.hs : h.kind = j).addr]
               c == node.chain \o st.sent
               addr == Len(node.chain) + Len(st.sent) + 1
               new == [kind |-> k, addr |-> addr]
               entry == Entry(k, refs, "hook", hook.suite)
    <2>3. DeployNext(st, hook) = [sent |-> Append(st.sent, entry),
                                  hs |-> {h \in st.hs : h.kind # k} \cup {new},
                                  own |-> st.own \cup {new}]
      BY <2>1 DEF DeployOne
    <2>4. entry.kind = k /\ entry.refs = refs
      BY DEF Entry
    <2>5. new.kind = k /\ new.addr = addr OBVIOUS
    <2>17. addr = Len(node.chain) + Len(st.sent) + 1 OBVIOUS
    <2>6. /\ IsChain(c) /\ addr = Len(c) + 1 /\ IsChain(st.sent)
          /\ IsChain(Append(st.sent, entry))
          /\ node.chain \o Append(st.sent, entry) = Append(c, entry)
      <3> HIDE DEF entry
      <3>1. IsChain(st.sent) BY DEF DeployedOK
      <3>2. IsChain(c) /\ Len(c) = Len(node.chain) + Len(st.sent)
        BY <3>1, ChainGrows
      <3>3. /\ IsChain(Append(st.sent, entry))
            /\ node.chain \o Append(st.sent, entry) = Append(c, entry)
        BY <3>1, ChainAppends, ZenonT(60)
      <3> QED BY <3>1, <3>2, <3>3
    <2>7. ASSUME NEW j \in Recipes[k]
          PROVE  refs[j] \in DOMAIN c /\ c[refs[j]].kind = j
      <3>1. \E h \in st.hs : h.kind = j BY <2>2 DEF KindsOf
      <3>2. PICK h \in st.hs : h.kind = j /\ refs[j] = h.addr BY <3>1
      <3>3. LiveIn(h, c) BY <2>2, <3>2 DEF DeployedOK
      <3> HIDE DEF refs, c
      <3> QED BY <3>2, <3>3 DEF LiveIn
    <2>8. /\ \A h \in st.own : LiveIn(h, c)
          /\ \A h \in st.hs : \A m \in Missing(hook) : h.kind \in Recipes[m] => LiveIn(h, c)
      BY DEF DeployedOK
    <2> HIDE DEF refs, c, new, entry, addr
    <2> DEFINE d == Append(c, entry)
    <2>9. /\ DOMAIN c = 1..Len(c) /\ Len(c) \in Nat /\ DOMAIN d = 1..(Len(c) + 1)
          /\ \A i \in 1..Len(c) : d[i] = c[i]
          /\ d[Len(c) + 1] = entry
      BY <2>6, ChainAppends
    <2> HIDE DEF d
    <2>10. \A i \in DOMAIN c : i \in DOMAIN d /\ i < addr /\ d[i] = c[i]
      BY <2>6, <2>9
    <2>11. \A h : LiveIn(h, c) => LiveIn(h, d)
      BY <2>10 DEF LiveIn
    <2>12. addr \in DOMAIN d /\ d[addr] = entry
      BY <2>6, <2>9
    <2>13. LiveIn(new, d)
      BY <2>4, <2>5, <2>7, <2>10, <2>12 DEF LiveIn
    <2>14. /\ \A h \in st.own \cup {new} : LiveIn(h, d)
           /\ \A h \in {g \in st.hs : g.kind # k} \cup {new} : \A m \in Missing(hook) :
                h.kind \in Recipes[m] => LiveIn(h, d)
      BY <2>8, <2>11, <2>13
    <2>15. /\ DeployNext(st, hook).sent = Append(st.sent, entry)
           /\ DeployNext(st, hook).hs = {h \in st.hs : h.kind # k} \cup {new}
           /\ DeployNext(st, hook).own = st.own \cup {new}
           /\ DeployNext(st, hook) = [sent |-> DeployNext(st, hook).sent,
                                      hs |-> DeployNext(st, hook).hs,
                                      own |-> DeployNext(st, hook).own]
      BY <2>3
    <2>16. ASSUME NEW i \in 1..Len(Append(st.sent, entry))
           PROVE  \E h \in st.own \cup {new} : h.addr = Len(node.chain) + i
      <3>1. Len(Append(st.sent, entry)) = Len(st.sent) + 1 /\ Len(st.sent) \in Nat
        BY <2>6, ChainAppends
      <3>2. CASE i = Len(st.sent) + 1
        <4>1. Len(node.chain) \in Nat BY <2>6, ChainGrows
        <4> DEFINE l == Len(node.chain)
                   m == Len(st.sent)
        <4>2. l \in Nat /\ m \in Nat /\ addr = l + m + 1 /\ i = m + 1
          BY <2>17, <3>1, <3>2, <4>1
        <4> HIDE DEF l, m
        <4>3. addr = l + i BY <4>2
        <4> QED BY <2>5, <4>3 DEF l
      <3>3. CASE i # Len(st.sent) + 1
        <4>1. i \in 1..Len(st.sent) BY <3>1, <3>3
        <4> QED BY <4>1 DEF DeployedOK
      <3> QED BY <3>2, <3>3
    <2> HIDE <2>3
    <2> QED BY <2>6, <2>14, <2>15, <2>16 DEF DeployedOK, d
  <1> QED BY <1>1, <1>2

\* Whenever a hook stops, what it deployed is live if what it found and needs is.
LEMMA DeploymentsLive ==
    ASSUME forest \in Forests, IsChain(node.chain), NEW hook \in Hooks,
           \A h \in Found(hook) : \A k \in Missing(hook) :
             h.kind \in Recipes[k] => LiveIn(h, node.chain)
    PROVE  /\ \A n \in DOMAIN Deployments(hook) : DeployedOK(Deployments(hook)[n], hook)
           /\ DeployedOK(AllDeployed(hook), hook)
  <1> DEFINE D == Deployments(hook)
  <1>1. PICK n \in Nat : /\ DOMAIN D = 0..n /\ Cardinality(0..n) - 1 = n
                         /\ D[0] = [sent |-> <<>>, hs |-> Found(hook), own |-> {}]
                         /\ \A i \in 1..n : D[i] = DeployNext(D[i - 1], hook)
    BY DeploymentSteps
  <1>2. AllDeployed(hook) = D[n] BY <1>1 DEF AllDeployed
  <1> HIDE DEF D
  <1>3. DeployedOK(D[0], hook)
    <2>1. PICK S : node.chain \in Seq(S) BY DEF IsChain
    <2>2. IsChain(<<>>)
      <3>1. <<>> \in Seq(S) OBVIOUS
      <3> QED BY <3>1 DEF IsChain
    <2>3. node.chain \o <<>> = node.chain BY <2>1
    <2>4. /\ D[0].sent = <<>> /\ D[0].hs = Found(hook) /\ D[0].own = {}
          /\ 1..Len(<<>>) = {}
          /\ D[0] = [sent |-> D[0].sent, hs |-> D[0].hs, own |-> D[0].own]
      BY <1>1
    <2> HIDE <1>1
    <2> QED BY <2>2, <2>3, <2>4 DEF DeployedOK
  <1> DEFINE Bad == {i \in 0..n : ~DeployedOK(D[i], hook)}
  <1>4. Bad = {}
    <2> SUFFICES ASSUME Bad # {} PROVE FALSE OBVIOUS
    <2>1. PICK m \in Bad : \A i \in Bad : m <= i
      <3>1. Bad \subseteq Nat BY <1>1
      <3> HIDE DEF Bad
      <3> QED BY <3>1, LeastOfNat
    <2>2. m \in 1..n /\ m - 1 \in 0..n /\ ~(m <= m - 1) BY <2>1, <1>3
    <2>3. DeployedOK(D[m - 1], hook) BY <2>1, <2>2
    <2>4. D[m] = DeployNext(D[m - 1], hook) BY <1>1, <2>2
    <2> QED BY <2>1, <2>3, <2>4, DeployNextKeeps
  <1>5. n \in 0..n BY <1>1
  <1> QED BY <1>1, <1>2, <1>4, <1>5 DEF D
-----------------------------------------------------------------------------
AllLive(hook, c) == \A h \in handles[hook] : LiveIn(h, c)

Saved(id) == node.snaps[id]

\* The hooks whose handles are live, from when they have run until Mocha leaves
\* their suite, those that deploy before each test until that test is over.
InTest == run.phase \in {"beforeEach", "body"}
RanBy(h, phase) == h.suite \in Around(run.at) /\ (run.phase = phase => h \notin run.todo)
Held ==
    {h \in Hooks :
       \/ /\ h.kind = "before" \/ h \in Built
          /\ RanBy(h, "before")
          /\ run.phase = "after" => h.suite # run.at
       \/ h.kind = "each" /\ InTest /\ RanBy(h, "beforeEach")}

\* How many caches have been initialized when the handles of a hook are on chain.
Rank(h) == Cardinality({g \in Built : g.suite \in Around(h.suite) /\ ~Precedes(h, g)})

\* They are live now, and in all snapshots on the stack that are not older.
HeldLive ==
    \A h \in Held :
      /\ AllLive(h, node.chain)
      /\ h.kind # "each" => \A i \in 1..Len(SNAPSHOTS) :
                              Rank(h) <= i => AllLive(h, Saved(SNAPSHOTS[i]))

ChainsOK ==
    /\ node.nextId # 0 /\ 0 \notin DOMAIN node.snaps
    /\ IsChain(node.chain) /\ \A id \in DOMAIN node.snaps : IsChain(node.snaps[id])

HookStateOK ==
    /\ handles = [h \in Hooks |-> handles[h]] /\ snapshotId \in [Hooks -> Nat]
    /\ \A h \in Hooks : /\ snapshotId[h] < node.nextId
                        /\ h.kind = "snap" => handles[h] = {}

\* Caches are initialized from the file down.
BuiltInOrder ==
    \A h \in Built : \A g \in Hooks :
      g.kind = "cache" /\ g.suite \in Around(h.suite) /\ Precedes(g, h) => g \in Built

\* What Mocha has run of the hooks of a suite and of a test.
DoneOK ==
    /\ run.phase = "before" => /\ \A h \in Built : h.suite # run.at
                               /\ \A h \in run.todo : h.kind = "before"
    /\ InTest =>
         /\ run.todo \subseteq BeforeEachHooks(run.at)
         /\ \A h \in BeforeEachHooks(run.at) \ run.todo :
              /\ h.kind = "cache" => h \in Built
              /\ \A g \in run.todo : Precedes(h, g)
    /\ run.phase = "body" => run.todo = {}

\* The snapshots of the other sandbox last for a test.
Snapped == {h \in Hooks : h.kind = "snap" /\ snapshotId[h] \in DOMAIN node.snaps}
SnapsPlaced ==
    \A h \in Snapped :
      /\ run.phase \in {"beforeEach", "body", "afterEach"} /\ RanBy(h, "beforeEach")
      /\ run.phase = "afterEach" => h \in run.todo
SnapsLive ==
    \A h \in Snapped : \A b \in Held : b.kind = "before" => AllLive(b, Saved(snapshotId[h]))

HandlesInv ==
    /\ ChainsOK
    /\ run.phase = "loaded" => HookStateOK /\ \A h \in Hooks : snapshotId[h] = 0
    /\ run.phase \in Running => /\ HookStateOK /\ BuiltInOrder /\ DoneOK
                                /\ HeldLive /\ SnapsPlaced /\ SnapsLive

-----------------------------------------------------------------------------
\* The order of the hooks.
LEMMA HookOrder ==
    ASSUME forest \in Forests, NEW h \in Hooks, NEW g \in Hooks
    PROVE  /\ h.suite \in Suites /\ g.suite \in Suites
           /\ ~(Precedes(h, g) /\ Precedes(g, h)) /\ ~Precedes(h, h)
           /\ h # g => Precedes(h, g) \/ Precedes(g, h)
           /\ Precedes(h, g) => h.suite <= g.suite
  <1> DEFINE Registered(s) == {[suite |-> s, index |-> i, kind |-> forest[s].hooks[i]] :
                                 i \in DOMAIN forest[s].hooks}
  <1>1. \A x \in Hooks : \E s \in Suites : x \in Registered(s)
    BY DEF Hooks, HooksOf, HooksIn
  <1>2. ASSUME NEW s \in Suites PROVE DOMAIN forest[s].hooks \subseteq Nat
    <2> DEFINE R == [parent : Nat, around : SUBSET Nat, hooks : Seq(HookKinds),
                     tests : Nat, subject : Kinds \cup {"System"}]
    <2>1. \A r \in R : r.hooks \in Seq(HookKinds) OBVIOUS
    <2>2. forest \in Seq(R) BY ForestsAssumption DEF IsForest
    <2> HIDE DEF R
    <2>3. forest[s] \in R BY <2>2 DEF Suites
    <2>4. forest[s].hooks \in Seq(HookKinds) BY <2>1, <2>3
    <2> QED BY <2>4
  <1>3. ASSUME NEW x \in Hooks
        PROVE  /\ x.suite \in Suites /\ x.index \in Nat
               /\ x = [suite |-> x.suite, index |-> x.index,
                       kind |-> forest[x.suite].hooks[x.index]]
    BY <1>1, <1>2
  <1> HIDE DEF Registered
  <1>4. Suites \subseteq Nat BY <1>3, AroundFacts
  <1>5. /\ h.suite \in Suites /\ h.suite \in Nat /\ h.index \in Nat
        /\ g.suite \in Suites /\ g.suite \in Nat /\ g.index \in Nat
    BY <1>3, <1>4
  <1>6. h.suite = g.suite /\ h.index = g.index => h = g
    BY <1>3
  <1> QED BY <1>5, <1>6 DEF Precedes

\* The order in which specs deploy.
LEMMA SpecOrder ==
    ASSUME forest \in Forests, NEW s \in Suites, NEW h \in Hooks, NEW g \in Hooks,
           h.suite \in Around(s), g.suite \in Around(s)
    PROVE  /\ h.kind = "before" /\ g.kind = "cache" => Precedes(h, g)
           /\ h.kind = "cache" /\ g.kind = "each" => Precedes(h, g)
           /\ h.kind = "each" /\ g.kind = "before" /\ Precedes(h, g)
                => \A k \in Missing(g) : Recipes[k] = {}
  <1>1. DeployedInOrder(forest) BY ForestsAssumption
  <1>2. Around(s) \subseteq Suites BY AroundFacts
  <1>3. h \in HooksOf(Around(s), HookKinds) /\ g \in HooksOf(Around(s), HookKinds)
    <2>1. HooksOf(Around(s), HookKinds)
            = {x \in Hooks : x.suite \in Around(s) /\ x.kind \in HookKinds}
      BY <1>2, HooksOfFacts
    <2>2. \A x \in Hooks : x.kind \in HookKinds
      BY HooksOfFacts DEF Hooks
    <2> QED BY <2>1, <2>2
  <1>4. h \in HooksIn(forest, forest[s].around, HookKinds)
        /\ g \in HooksIn(forest, forest[s].around, HookKinds)
    BY <1>3 DEF HooksOf, Around
  <1>5. Missing(g) \subseteq Wanted(forest[g.suite].subject)
    BY DEF Missing
  <1>6. s \in DOMAIN forest BY DEF Suites
  <1> HIDE <1>3
  <1> QED BY <1>1, <1>4, <1>5, <1>6 DEF DeployedInOrder

\* What a hook that deploys finds and needs is live.
LEMMA FoundLive ==
    ASSUME StackInv, HandlesInv, forest \in Forests, CachesOK, NEW hook \in NextHooks,
           Deploying(hook)
    PROVE  \A x \in Found(hook) : \A k \in Missing(hook) :
             x.kind \in Recipes[k] => LiveIn(x, node.chain)
  <1> SUFFICES ASSUME NEW x \in Found(hook), NEW k \in Missing(hook), x.kind \in Recipes[k]
               PROVE  LiveIn(x, node.chain)
    OBVIOUS
  <1>1. /\ run.phase \in {"before", "beforeEach"} /\ run.phase \in Running /\ hook \in run.todo
        /\ \A g \in run.todo \ {hook} : Precedes(hook, g)
    BY DEF Deploying, NextHooks, Running
  <1>2. /\ run.at \in Suites /\ hook \in Hooks /\ hook.suite \in Around(run.at)
    BY <1>1 DEF StackInv, RunOK
  <1>3. HookStateOK /\ DoneOK /\ HeldLive BY <1>1 DEF HandlesInv
  <1>4. Around(run.at) \subseteq Suites /\ Around(hook.suite) \subseteq Around(run.at)
    BY <1>2, AroundFacts
  <1>5. PICK g \in Hooks : /\ x \in handles[g] /\ g.suite \in Around(run.at)
                           /\ Precedes(g, hook) /\ g.kind \in HookKinds
    <2>1. HooksOf(Around(hook.suite), HookKinds)
            = {h \in Hooks : h.suite \in Around(hook.suite) /\ h.kind \in HookKinds}
      BY <1>4, HooksOfFacts
    <2> QED BY <2>1, <1>4 DEF Found
  <1>6. g \notin run.todo /\ ~Precedes(hook, g)
    BY <1>1, <1>2, <1>5, HookOrder
  <1>7. g \in Held => LiveIn(x, node.chain)
    BY <1>3, <1>5 DEF HeldLive, AllLive
  <1>8. CASE g.kind = "snap" BY <1>3, <1>5, <1>8 DEF HookStateOK
  <1>9. CASE g.kind = "before"
    BY <1>1, <1>5, <1>6, <1>7, <1>9 DEF Held, RanBy
  <1>10. CASE g.kind = "cache"
    <2>1. CASE run.phase = "before"
      <3>1. hook.kind = "before" BY <1>1, <1>3, <2>1 DEF DoneOK
      <3> QED BY <3>1, <1>2, <1>5, <1>6, <1>10, SpecOrder
    <2>2. CASE run.phase = "beforeEach"
      <3>1. g \in BeforeEachHooks(run.at)
        BY <1>4, <1>5, <1>10, HooksOfFacts DEF BeforeEachHooks, HookKinds
      <3>2. g \in Built BY <3>1, <1>3, <1>6, <1>10, <2>2 DEF DoneOK, InTest
      <3> QED BY <3>2, <1>5, <1>6, <1>7, <2>2 DEF Held, RanBy
    <2> QED BY <1>1, <2>1, <2>2
  <1>11. CASE g.kind = "each"
    <2>1. CASE run.phase = "before"
      <3>1. hook.kind = "before" BY <1>1, <1>3, <2>1 DEF DoneOK
      <3> QED BY <3>1, <1>2, <1>5, <1>11, SpecOrder
    <2>2. CASE run.phase = "beforeEach"
      BY <1>5, <1>6, <1>7, <1>11, <2>2 DEF Held, RanBy, InTest
    <2> QED BY <1>1, <2>1, <2>2
  <1> QED BY <1>5, <1>8, <1>9, <1>10, <1>11 DEF HookKinds
-----------------------------------------------------------------------------
\* A session keeps its suites and hooks.
LEMMA SameHooks ==
    ASSUME UNCHANGED forest
    PROVE  /\ Suites' = Suites /\ Hooks' = Hooks
           /\ \A s : Around(s)' = Around(s) /\ BeforeEachHooks(s)' = BeforeEachHooks(s)
  BY DEF Suites, Hooks, HooksOf, HooksIn, Around, BeforeEachHooks

\* What the requests to the node do to its chain and to what it has saved.
LEMMA NodeChains ==
    ASSUME NEW n, IsNode(n), NEW entries, NEW id
    PROVE  /\ EvmSend(n, entries).chain = n.chain \o entries
           /\ saveSnapshotAsync(n).chain = n.chain
           /\ saveSnapshotAsync(n).nextId = n.nextId + 1
           /\ saveSnapshotAsync(n).snaps[n.nextId] = n.chain
           /\ \A i \in DOMAIN n.snaps : saveSnapshotAsync(n).snaps[i] = n.snaps[i]
           /\ id \in DOMAIN n.snaps =>
                /\ EvmRevert(n, id).chain = n.snaps[id]
                /\ \A i \in DOMAIN n.snaps : i < id => EvmRevert(n, id).snaps[i] = n.snaps[i]
           /\ id \notin DOMAIN n.snaps => EvmRevert(n, id) = n
  <1> DEFINE c == n.chain
             x == n.snaps
             k == n.nextId
  <1>0. n = [chain |-> c, snaps |-> x, nextId |-> k] /\ \A i \in DOMAIN x : i < k
    BY DEF IsNode
  <1>1. k \in Nat /\ \A i \in DOMAIN x : i \in Nat BY DEF IsNode
  <1> HIDE DEF c, x, k
  <1>2. EvmSend(n, entries).chain = c \o entries
    <2>1. EvmSend(n, entries) = [n EXCEPT !.chain = c \o entries] BY DEF EvmSend, c
    <2> QED BY <1>0, <2>1
  <1>3. /\ saveSnapshotAsync(n).chain = c /\ saveSnapshotAsync(n).nextId = k + 1
        /\ saveSnapshotAsync(n).snaps[k] = c
        /\ \A i \in DOMAIN x : saveSnapshotAsync(n).snaps[i] = x[i]
    <2> DEFINE kept == [i \in DOMAIN x \cup {k} |-> IF i = k THEN c ELSE x[i]]
    <2>1. saveSnapshotAsync(n) = [n EXCEPT !.snaps = kept, !.nextId = k + 1]
      BY DEF saveSnapshotAsync, EvmSnapshot, c, x, k
    <2>2. kept[k] = c /\ \A i \in DOMAIN x : kept[i] = x[i]
      BY <1>0, <1>1
    <2> HIDE DEF kept
    <2>3. saveSnapshotAsync(n) = [chain |-> c, nextId |-> k + 1, snaps |-> kept]
      BY <1>0, <2>1
    <2> QED BY <2>2, <2>3
  <1>4. ASSUME id \in DOMAIN x
        PROVE  /\ EvmRevert(n, id).chain = x[id]
               /\ \A i \in DOMAIN x : i < id => EvmRevert(n, id).snaps[i] = x[i]
    <2> DEFINE kept == [i \in {j \in DOMAIN x : j < id} |-> x[i]]
    <2>1. EvmRevert(n, id) = [n EXCEPT !.chain = x[id], !.snaps = kept]
      BY <1>4 DEF EvmRevert, x
    <2>2. \A i \in DOMAIN x : i < id => kept[i] = x[i] OBVIOUS
    <2> HIDE DEF kept
    <2>3. EvmRevert(n, id) = [chain |-> x[id], snaps |-> kept, nextId |-> k]
      BY <1>0, <2>1
    <2> QED BY <2>2, <2>3
  <1>5. id \notin DOMAIN x => EvmRevert(n, id) = n BY DEF EvmRevert, x
  <1> QED BY <1>2, <1>3, <1>4, <1>5 DEF c, x, k

\* What is sent is saved: the initializer of a cache.
LEMMA SendAndSave ==
    ASSUME IsNode(node), NEW entries, node' = saveSnapshotAsync(EvmSend(node, entries))
    PROVE  /\ node'.chain = node.chain \o entries /\ node'.nextId = node.nextId + 1
           /\ DOMAIN node'.snaps = DOMAIN node.snaps \cup {node.nextId}
           /\ node'.snaps[node.nextId] = node'.chain
           /\ \A i \in DOMAIN node.snaps : node'.snaps[i] = node.snaps[i]
           /\ EvmSend(node, entries).nextId = node.nextId
           /\ EvmSend(node, entries).chain = node'.chain
  <1> DEFINE x == EvmSend(node, entries)
  <1>1. IsNode(x) /\ x.snaps = node.snaps /\ x.nextId = node.nextId BY NodeFacts
  <1>2. x.chain = node.chain \o entries BY NodeChains
  <1>3. node' = saveSnapshotAsync(x) OBVIOUS
  <1> HIDE DEF x
  <1>4. /\ node'.chain = x.chain /\ node'.nextId = x.nextId + 1
        /\ node'.snaps[x.nextId] = x.chain
        /\ \A i \in DOMAIN x.snaps : node'.snaps[i] = x.snaps[i]
    BY <1>1, <1>3, NodeChains
  <1>5. DOMAIN node'.snaps = DOMAIN x.snaps \cup {x.nextId}
    BY <1>1, <1>3, NodeFacts DEF SavedId
  <1> QED BY <1>1, <1>2, <1>4, <1>5 DEF x

\* A snapshot is restored and saved anew: a cache before a later test.
LEMMA RevertAndSave ==
    ASSUME NEW n, IsNode(n), NEW id \in DOMAIN n.snaps,
           NEW saved, saved = saveSnapshotAsync(EvmRevert(n, id))
    PROVE  /\ saved.chain = n.snaps[id] /\ saved.nextId = n.nextId + 1
           /\ DOMAIN saved.snaps = {i \in DOMAIN n.snaps : i < id} \cup {n.nextId}
           /\ saved.snaps[n.nextId] = saved.chain
           /\ \A i \in DOMAIN n.snaps : i < id => saved.snaps[i] = n.snaps[i]
           /\ EvmRevert(n, id).nextId = n.nextId
  <1> DEFINE x == EvmRevert(n, id)
  <1>1. /\ IsNode(x) /\ x.nextId = n.nextId /\ x.chain = n.snaps[id]
        /\ DOMAIN x.snaps = {i \in DOMAIN n.snaps : i < id}
        /\ \A i \in DOMAIN n.snaps : i < id => x.snaps[i] = n.snaps[i]
    BY NodeFacts, NodeChains
  <1>2. saved = saveSnapshotAsync(x) OBVIOUS
  <1> HIDE DEF x
  <1>3. /\ saved.chain = x.chain /\ saved.nextId = x.nextId + 1
        /\ saved.snaps[x.nextId] = x.chain
        /\ \A i \in DOMAIN x.snaps : saved.snaps[i] = x.snaps[i]
    BY <1>1, <1>2, NodeChains
  <1>4. DOMAIN saved.snaps = DOMAIN x.snaps \cup {x.nextId}
    BY <1>1, <1>2, NodeFacts DEF SavedId
  <1> QED BY <1>1, <1>3, <1>4 DEF x

\* Popping the stack leaves the rest in place ...
LEMMA PoppedIsPrefix ==
    ASSUME SNAPSHOTS \in Seq(Nat), NEW ids, ids \in {Popped, SNAPSHOTS}
    PROVE  \A i \in 1..Len(ids) : i \in 1..Len(SNAPSHOTS) /\ ids[i] = SNAPSHOTS[i]
  <1>1. CASE ids = SNAPSHOTS BY <1>1
  <1>2. CASE ids = Popped /\ SNAPSHOTS = <<>> BY <1>2 DEF Popped
  <1>3. CASE ids = Popped /\ SNAPSHOTS # <<>>
    <2> DEFINE m == Len(SNAPSHOTS) - 1
    <2>1. m \in Nat /\ m <= Len(SNAPSHOTS) /\ ids = SubSeq(SNAPSHOTS, 1, m)
      BY <1>3 DEF Popped
    <2> HIDE DEF m
    <2> QED BY <2>1
  <1> QED BY <1>1, <1>2, <1>3

\* ... and pushing another identifier replaces the top.
LEMMA TopReplaced ==
    ASSUME IsNode(node), IsStack(SNAPSHOTS, node), Len(SNAPSHOTS) # 0, NEW id \in Nat,
           SNAPSHOTS' = Append(Popped, id)
    PROVE  \E m \in Nat :
             /\ Len(SNAPSHOTS) = m + 1 /\ Len(SNAPSHOTS') = m + 1 /\ SNAPSHOTS'[m + 1] = id
             /\ TopId = SNAPSHOTS[m + 1] /\ TopId \in DOMAIN node.snaps
             /\ \A i \in 1..m : /\ SNAPSHOTS'[i] = SNAPSHOTS[i] /\ SNAPSHOTS[i] < TopId
                                /\ SNAPSHOTS[i] \in DOMAIN node.snaps
  <1> DEFINE m == Len(SNAPSHOTS) - 1
  <1>1. /\ SNAPSHOTS \in Seq(Nat) /\ m \in Nat /\ Len(SNAPSHOTS) = m + 1
        /\ m <= Len(SNAPSHOTS)
        /\ TopId = SNAPSHOTS[m + 1] /\ Popped = SubSeq(SNAPSHOTS, 1, m)
    BY DEF TopId, Popped, IsStack
  <1> HIDE DEF m
  <1>2. Popped \in Seq(Nat) /\ Len(Popped) = m /\ \A i \in 1..m : Popped[i] = SNAPSHOTS[i]
    <2> HIDE DEF Popped
    <2> QED BY <1>1
  <1>3. Len(SNAPSHOTS') = m + 1 /\ SNAPSHOTS'[m + 1] = id /\ \A i \in 1..m : SNAPSHOTS'[i] = Popped[i]
    BY <1>1, <1>2
  <1>4. /\ TopId \in DOMAIN node.snaps
        /\ \A i \in 1..m : SNAPSHOTS[i] \in DOMAIN node.snaps /\ SNAPSHOTS[i] < TopId
    BY <1>1 DEF IsStack
  <1> QED BY <1>1, <1>2, <1>3, <1>4

\* When Mocha moves, what a hook holds was held before.
LEMMA HeldMoves ==
    ASSUME StackInv, forest \in Forests, CachesOK, run.phase \in Running,
           UNCHANGED <<forest, initialized>>,
           NEW p \in {"before", "beforeEach", "afterEach", "after"}, NEW s \in Suites,
           NEW T, run'.phase = p, run'.at = s, run'.todo = T,
           run.todo = {} \/ run.phase # "before" \/ (p = "after" /\ s = run.at),
           \A u \in Around(s) : \/ u = s /\ p \in {"before", "after"}
                                \/ u \in Around(run.at) /\ (run.phase = "after" => u # run.at),
           p = "before" => T = HooksOf({s}, {"before"}) /\ \A h \in Built : h.suite # s,
           p = "beforeEach" => T = BeforeEachHooks(s)
    PROVE  Held' \subseteq Held
  <1> SUFFICES ASSUME NEW h \in Held' PROVE h \in Held OBVIOUS
  <1>1. Hooks' = Hooks /\ Built' = Built /\ \A u : Around(u)' = Around(u)
    BY SameHooks DEF Built
  <1>2. \/ /\ h \in Hooks /\ h.suite \in Around(s) /\ (h.kind = "before" \/ h \in Built)
           /\ p = "before" => h \notin T
           /\ p = "after" => h.suite # s
        \/ /\ h \in Hooks /\ h.suite \in Around(s) /\ h.kind = "each"
           /\ p = "beforeEach" /\ h \notin T
    BY <1>1 DEF Held, RanBy, InTest
  <1>3. Around(s) \subseteq Suites /\ {s} \subseteq Suites BY AroundFacts
  <1>4. p = "beforeEach" /\ h.kind = "each" => h \in T
    BY <1>2, <1>3, HooksOfFacts DEF BeforeEachHooks, HookKinds
  <1>5. p = "before" /\ h.kind = "before" /\ h.suite = s => h \in T
    BY <1>2, <1>3, HooksOfFacts DEF HookKinds
  <1>6. h \in Hooks /\ (h.kind = "before" \/ h \in Built) /\ h.suite \in Around(s) /\
        (p \in {"before", "after"} => h.suite # s)
    BY <1>2, <1>4, <1>5 DEF Built
  <1>7. h.suite \in Around(run.at) /\ (run.phase = "after" => h.suite # run.at)
    BY <1>6
  <1>8. run.phase = "before" => h \notin run.todo
    <2>1. run.phase = "before" => \A g \in run.todo : g.suite = run.at
      BY DEF StackInv, RunOK, Running
    <2> QED BY <2>1, <1>6
  <1> QED BY <1>6, <1>7, <1>8 DEF Held, RanBy

\* A move keeps the invariant if nothing is held anew: hooks and tests may have
\* sent transactions, and handles that are not held may change.
LEMMA MoveKeeps ==
    ASSUME StackInv, HandlesInv, forest \in Forests, CachesOK, run.phase \in Running,
           UNCHANGED <<forest, initialized, SNAPSHOTS, snapshotId>>,
           \E e : IsChain(e) /\ node' = EvmSend(node, e),
           handles' = [h \in Hooks |-> handles'[h]],
           \A h \in Hooks : h.kind = "snap" => handles'[h] = {},
           \A h \in Held' : handles'[h] = handles[h],
           Held' \subseteq Held, DoneOK', SnapsPlaced', run'.phase \in Running
    PROVE  HandlesInv'
  <1>1. /\ ChainsOK /\ HookStateOK /\ BuiltInOrder /\ HeldLive /\ SnapsLive
        /\ IsNode(node) /\ IsStack(SNAPSHOTS, node)
    BY DEF HandlesInv, StackInv, NodeOK, StackOK
  <1>2. PICK e : IsChain(e) /\ node' = EvmSend(node, e) OBVIOUS
  <1>3. /\ node'.chain = node.chain \o e /\ node'.snaps = node.snaps
        /\ node'.nextId = node.nextId
    <2>1. node'.snaps = node.snaps /\ node'.nextId = node.nextId
      BY <1>1, <1>2, NodeFacts
    <2>2. EvmSend(node, e).chain = node.chain \o e
      BY <1>1, NodeChains, ZenonT(60)
    <2> QED BY <1>2, <2>1, <2>2
  <1>4. /\ Hooks' = Hooks /\ Built' = Built /\ \A u : Around(u)' = Around(u)
    BY SameHooks DEF Built
  <1>5. IsChain(node'.chain) /\ \A h : LiveIn(h, node.chain) => LiveIn(h, node'.chain)
    BY <1>1, <1>2, <1>3, ChainGrows DEF ChainsOK
  <1>6. ChainsOK' BY <1>1, <1>3, <1>5 DEF ChainsOK
  <1>7. HookStateOK' BY <1>1, <1>3, <1>4 DEF HookStateOK
  <1>8. BuiltInOrder' BY <1>1, <1>4 DEF BuiltInOrder
  <1>9. \A h : Rank(h)' = Rank(h) BY <1>4 DEF Rank
  <1>10. HeldLive'
    BY <1>1, <1>3, <1>5, <1>9 DEF HeldLive, AllLive, Saved
  <1>11. SnapsLive'
    BY <1>1, <1>3, <1>4 DEF SnapsLive, AllLive, Saved, Snapped
  <1> QED BY <1>6, <1>7, <1>8, <1>10, <1>11 DEF HandlesInv, Running
-----------------------------------------------------------------------------
\* A move of Mocha alone: nothing is held anew, and no hook of a test has run.
Settles ==
    run'.phase \in Running =>
      /\ Held' \subseteq Held
      /\ InTest' => run'.todo = BeforeEachHooks(run.at)'

\* Mocha moves on while no snapshot of the other sandbox is left.
LEMMA MovesOn ==
    ASSUME StackInv, HandlesInv, forest \in Forests, CachesOK, run.phase \in Running,
           UNCHANGED <<forest, initialized, SNAPSHOTS, snapshotId>>, Snapped = {},
           \E e : IsChain(e) /\ node' = EvmSend(node, e),
           handles' = [h \in Hooks |-> handles'[h]],
           \A h \in Hooks : h.kind = "snap" => handles'[h] = {},
           NEW p \in {"before", "beforeEach", "after"}, NEW s \in Suites,
           NEW T, run'.phase = p, run'.at = s, run'.todo = T,
           run.todo = {} \/ run.phase # "before" \/ (p = "after" /\ s = run.at),
           \A u \in Around(s) : \/ u = s /\ p \in {"before", "after"}
                                \/ u \in Around(run.at) /\ (run.phase = "after" => u # run.at),
           p = "before" => T = HooksOf({s}, {"before"}) /\ \A h \in Built : h.suite # s,
           p = "beforeEach" => T = BeforeEachHooks(s),
           \A h \in Held : handles'[h] = handles[h]
    PROVE  HandlesInv' /\ Settles
  <1>1. Held' \subseteq Held BY HeldMoves
  <1>2. /\ Hooks' = Hooks /\ Built' = Built
        /\ \A u : Around(u)' = Around(u) /\ BeforeEachHooks(u)' = BeforeEachHooks(u)
    BY SameHooks DEF Built
  <1>3. {s} \subseteq Suites OBVIOUS
  <1>4. p = "before" => \A h \in T : h.kind = "before"
    BY <1>3, HooksOfFacts DEF HookKinds
  <1>5. DoneOK'
    <2>1. p = "before" => (\A h \in Built' : h.suite # s) /\ \A h \in T : h.kind = "before"
      BY <1>2, <1>4
    <2>2. p = "beforeEach" => T \subseteq BeforeEachHooks(s) /\ BeforeEachHooks(s) \ T = {}
      OBVIOUS
    <2>3. BeforeEachHooks(run.at)' = BeforeEachHooks(s) BY <1>2
    <2> QED BY <2>1, <2>2, <2>3 DEF DoneOK, InTest
  <1>6. SnapsPlaced'
    <2>1. node'.snaps = node.snaps
      BY NodeFacts DEF StackInv, NodeOK
    <2>2. Snapped' = {} BY <1>2, <2>1 DEF Snapped
    <2> QED BY <2>2 DEF SnapsPlaced
  <1>7. HandlesInv' BY <1>1, <1>5, <1>6, MoveKeeps DEF Running
  <1>8. Settles BY <1>1, <1>2 DEF Settles, InTest
  <1> QED BY <1>7, <1>8

\* A move that is not a step of the node.
LEMMA NothingSent ==
    ASSUME StackInv, HandlesInv, UNCHANGED <<node, handles>>, run.phase \in Running
    PROVE  /\ \E e : IsChain(e) /\ node' = EvmSend(node, e)
           /\ handles' = [h \in Hooks |-> handles'[h]]
           /\ \A h \in Hooks : h.kind = "snap" => handles'[h] = {}
  <1>1. PICK S : node.chain \in Seq(S) BY DEF HandlesInv, ChainsOK, IsChain
  <1>2. IsChain(<<>>) /\ node.chain \o <<>> = node.chain
    <2>1. <<>> \in Seq(S) OBVIOUS
    <2> QED BY <1>1, <2>1 DEF IsChain
  <1>3. EvmSend(node, <<>>) = node
    <2> DEFINE c == node.chain
               x == node.snaps
               k == node.nextId
    <2>1. node = [chain |-> c, snaps |-> x, nextId |-> k] BY DEF StackInv, NodeOK, IsNode
    <2>2. EvmSend(node, <<>>) = [node EXCEPT !.chain = c] BY <1>2 DEF EvmSend
    <2> HIDE DEF c, x, k
    <2> QED BY <2>1, <2>2
  <1> QED BY <1>2, <1>3 DEF HandlesInv, HookStateOK

\* After a test, or the before hooks of a suite.
LEMMA AfterTestMoves ==
    ASSUME StackInv, HandlesInv, forest \in Forests, CachesOK,
           run.phase \in {"before", "afterEach"}, run.todo = {},
           UNCHANGED <<forest, initialized, SNAPSHOTS, snapshotId, node, handles>>,
           NEW k, NEW f, run' = AfterTest(run.at, k, f)
    PROVE  HandlesInv' /\ Settles
  <1> DEFINE s == run.at
  <1>1. run.phase \in Running /\ run.phase # "after" BY DEF Running
  <1>2. Snapped = {} BY <1>1 DEF HandlesInv, SnapsPlaced
  <1>3. /\ \E e : IsChain(e) /\ node' = EvmSend(node, e)
        /\ handles' = [h \in Hooks |-> handles'[h]]
        /\ \A h \in Hooks : h.kind = "snap" => handles'[h] = {}
    BY <1>1, NothingSent
  <1>4. s \in Suites /\ \A h \in Built : h.suite \in Suites /\ h.suite <= s
    BY <1>1, Inside
  <1> HIDE DEF s
  <1>5. \/ run' = Leave(s, f) \/ run' = Leave(s, 0) \/ run' = StartTest(s, k + 1)
        \/ Visited(s) # {} /\ run' = Enter(First(Visited(s)))
    BY DEF AfterTest, s
  <1>6. CASE run' = Leave(s, f) \/ run' = Leave(s, 0)
    <2> DEFINE T == HooksOf({s}, {"cache"})
    <2>1. run'.phase = "after" /\ run'.at = s /\ run'.todo = T
      BY <1>6 DEF Leave
    <2> HIDE DEF T
    <2> QED BY <1>1, <1>2, <1>3, <1>4, <2>1, MovesOn DEF s
  <1>7. CASE run' = StartTest(s, k + 1)
    <2> DEFINE T == BeforeEachHooks(s)
    <2>1. run'.phase = "beforeEach" /\ run'.at = s /\ run'.todo = T
      BY <1>7 DEF StartTest
    <2>2. T = BeforeEachHooks(s) OBVIOUS
    <2> HIDE DEF T
    <2> QED BY <1>1, <1>2, <1>3, <1>4, <2>1, <2>2, MovesOn DEF s
  <1>8. CASE Visited(s) # {} /\ run' = Enter(First(Visited(s)))
    <2> DEFINE t == First(Visited(s))
               T == HooksOf({t}, {"before"})
    <2>1. Visited(s) \subseteq Nat BY <1>4, AroundFacts DEF Visited
    <2>2. t \in Visited(s) BY <1>8, <2>1, FirstIsIn
    <2>3. run'.phase = "before" /\ run'.at = t /\ run'.todo = T
      BY <1>8 DEF Enter
    <2>4. T = HooksOf({t}, {"before"}) OBVIOUS
    <2> HIDE DEF t, T
    <2>5. t \in Suites /\ forest[t].parent = s BY <2>2 DEF Visited
    <2>6. s # 0 /\ s < t /\ s \in Nat /\ t \in Nat /\ Suites \subseteq Nat
          /\ Around(t) = {t} \cup Around(s)
      BY <1>4, <2>5, AroundFacts
    <2>7. ASSUME NEW h \in Built PROVE h.suite # t
      <3>1. h.suite \in Nat /\ h.suite <= s BY <1>4, <2>6
      <3> QED BY <3>1, <2>6
    <2> QED BY <1>1, <1>2, <1>3, <2>3, <2>4, <2>5, <2>6, <2>7, MovesOn DEF s
  <1> QED BY <1>5, <1>6, <1>7, <1>8

\* After a suite.
LEMMA AfterSuiteMoves ==
    ASSUME StackInv, HandlesInv, forest \in Forests, CachesOK,
           run.phase = "after", run.todo = {},
           UNCHANGED <<forest, initialized, SNAPSHOTS, snapshotId, node, handles>>,
           run' = AfterSuite(run.at, run.failed)
    PROVE  HandlesInv' /\ Settles
  <1> DEFINE s == run.at
             outer == forest[s].parent
             later == {t \in Visited(outer) : t > s}
  <1>1. run.phase \in Running BY DEF Running
  <1>2. Snapped = {} BY <1>1 DEF HandlesInv, SnapsPlaced
  <1>3. /\ \E e : IsChain(e) /\ node' = EvmSend(node, e)
        /\ handles' = [h \in Hooks |-> handles'[h]]
        /\ \A h \in Hooks : h.kind = "snap" => handles'[h] = {}
    BY <1>1, NothingSent
  <1>4. s \in Suites BY Outside
  <1>5. /\ s \in Nat /\ outer \in Nat /\ outer < s /\ Suites \subseteq Nat
        /\ outer = 0 => Around(s) = {s}
        /\ outer # 0 => outer \in Suites /\ Around(s) = {s} \cup Around(outer)
    BY <1>4, AroundFacts
  <1>6. run.failed \in {0} \cup Around(s) BY <1>1 DEF StackInv, RunOK
  <1>7. \/ outer # 0 /\ \E f : run' = Leave(outer, f)
        \/ later # {} /\ run' = Enter(First(later))
        \/ run' = Ended
    BY <1>5, <1>6 DEF AfterSuite
  <1>8. CASE outer # 0 /\ \E f : run' = Leave(outer, f)
    <2> DEFINE T == HooksOf({outer}, {"cache"})
    <2>1. run'.phase = "after" /\ run'.at = outer /\ run'.todo = T
      BY <1>8 DEF Leave
    <2> HIDE DEF T
    <2>2. outer \in Suites /\ Around(s) = {s} \cup Around(outer) BY <1>5, <1>8
    <2>3. \A u \in Around(outer) : u <= outer /\ u \in Around(s) BY <2>2, AroundFacts
    <2>4. \A u \in Around(outer) : u # s BY <2>3, <1>5
    <2> HIDE DEF outer
    <2> QED BY <1>1, <1>2, <1>3, <2>1, <2>2, <2>3, <2>4, MovesOn, ZenonT(60)
  <1>9. CASE later # {} /\ run' = Enter(First(later))
    <2> DEFINE t == First(later)
               T == HooksOf({t}, {"before"})
    <2>1. later \subseteq Nat BY <1>5 DEF Visited
    <2>2. t \in later BY <1>9, <2>1, FirstIsIn
    <2>3. t \in Suites /\ forest[t].parent = outer /\ s < t BY <2>2, <1>5 DEF Visited
    <2>4. run'.phase = "before" /\ run'.at = t /\ run'.todo = T
      BY <1>9 DEF Enter
    <2>5. T = HooksOf({t}, {"before"}) OBVIOUS
    <2> HIDE DEF t, T
    <2>6. s \notin Around(t) /\ \A h \in Built : h.suite < t
      BY <2>3, BesideIsNew
    <2>7. t \in Nat /\ (t # 0) BY <2>3, AroundFacts
    <2>8. \A u \in Around(t) : u = t \/ (u \in Around(s) /\ u # s)
      <3>1. outer = 0 => Around(t) = {t} BY <2>3, AroundFacts
      <3>2. outer # 0 => Around(t) = {t} \cup Around(outer) BY <2>3, AroundFacts
      <3> HIDE DEF outer
      <3> QED BY <3>1, <3>2, <2>6, <1>5
    <2>9. ASSUME NEW h \in Built PROVE h.suite # t
      <3>1. h.suite \in Suites BY HookOrder DEF Built
      <3>2. h.suite \in Nat /\ h.suite < t BY <3>1, <2>6, <1>5
      <3> QED BY <3>2, <2>7
    <2> HIDE DEF outer
    <2> QED BY <1>1, <1>2, <1>3, <2>3, <2>4, <2>5, <2>8, <2>9, MovesOn, ZenonT(60)
  <1>10. CASE run' = Ended
    BY <1>10 DEF HandlesInv, ChainsOK, Ended, Running, Settles
  <1> HIDE DEF outer, later
  <1> QED BY <1>7, <1>8, <1>9, <1>10

\* A test is over, or is not run.
LEMMA TestOver ==
    ASSUME StackInv, HandlesInv, forest \in Forests, CachesOK,
           run.phase \in {"beforeEach", "body"},
           UNCHANGED <<forest, initialized, SNAPSHOTS, snapshotId>>,
           \E e : IsChain(e) /\ node' = EvmSend(node, e),
           handles' = [h \in Hooks |-> handles'[h]],
           \A h \in Hooks : h.kind = "snap" => handles'[h] = {},
           \A h \in Held' : handles'[h] = handles[h],
           NEW k, NEW f \in {0} \cup Around(run.at), run' = EndTest(run.at, k, f),
           f # 0 => \A h \in Snapped : h.suite <= f
    PROVE  HandlesInv' /\ Settles
  <1> DEFINE s == run.at
             T == AfterEachHooks(IF f = 0 THEN s ELSE f)
  <1>1. run.phase \in Running /\ run.phase # "after" /\ run.phase # "before" BY DEF Running
  <1>2. s \in Suites BY <1>1, Inside
  <1>3. /\ run'.phase = "afterEach" /\ run'.at = s /\ run'.todo = T
        /\ run'.phase \in Running
    BY DEF EndTest, Running
  <1>4. /\ Hooks' = Hooks /\ Built' = Built /\ \A u : Around(u)' = Around(u)
    BY SameHooks DEF Built
  <1>5. Snapped' = Snapped
    <2>1. node'.snaps = node.snaps BY NodeFacts DEF StackInv, NodeOK
    <2> QED BY <1>4, <2>1 DEF Snapped
  <1>6. ASSUME NEW h \in Snapped PROVE h.suite \in Around(s) /\ h \in T
    <2>1. /\ h \in Hooks /\ h.kind = "snap" /\ h.suite \in Around(s) /\ h.suite \in Suites
      BY <1>1, HookOrder DEF HandlesInv, SnapsPlaced, Snapped, RanBy
    <2>2. CASE f = 0
      <3>1. Around(s) \subseteq Suites BY <1>2, AroundFacts
      <3> QED BY <2>1, <2>2, <3>1, HooksOfFacts DEF AfterEachHooks, HookKinds
    <2>3. CASE f # 0
      <3>1. f \in Around(s) /\ f \in Suites /\ f <= s BY <1>2, <2>3, AroundFacts
      <3>2. h.suite \in Around(f) /\ Around(f) \subseteq Suites
        BY <1>2, <2>1, <2>3, <3>1, AroundFacts
      <3> QED BY <2>1, <2>3, <3>2, HooksOfFacts DEF AfterEachHooks, HookKinds
    <2> QED BY <2>1, <2>2, <2>3
  <1> HIDE DEF T
  <1>7. SnapsPlaced' BY <1>3, <1>4, <1>5, <1>6 DEF SnapsPlaced, RanBy
  <1>8. DoneOK' BY <1>3 DEF DoneOK, InTest
  <1>9. Held' \subseteq Held
    BY <1>1, <1>2, <1>3, HeldMoves
  <1>10. HandlesInv' BY <1>1, <1>3, <1>7, <1>8, <1>9, MoveKeeps
  <1>11. Settles BY <1>3, <1>9 DEF Settles, InTest
  <1> QED BY <1>10, <1>11

-----------------------------------------------------------------------------
\* A hook that deploys holds nothing yet, and hooks run one after the other.
LEMMA AtWork ==
    ASSUME StackInv, HandlesInv, forest \in Forests, CachesOK, NEW hook \in NextHooks,
           Deploying(hook)
    PROVE  /\ run.phase \in {"before", "beforeEach"} /\ run.phase \in Running \ {"after"}
           /\ hook \in Hooks /\ hook \in run.todo /\ hook.suite \in Around(run.at)
           /\ run.at \in Suites /\ \A g \in run.todo \ {hook} : Precedes(hook, g)
           /\ run.phase = "before" => hook.kind = "before" /\ hook.suite = run.at
           /\ run.phase = "beforeEach" => hook.kind \in {"each", "cache"}
           /\ hook \notin Held /\ hook \notin Built /\ hook.kind # "snap"
  <1>1. /\ run.phase \in {"before", "beforeEach"} /\ run.phase \in Running \ {"after"}
        /\ hook \in run.todo /\ \A g \in run.todo \ {hook} : Precedes(hook, g)
        /\ hook.kind \in {"before", "each", "cache"} /\ (hook.kind = "cache" => hook \notin Built)
    BY DEF Deploying, NextHooks, Running, Built
  <1>2. hook \in Hooks /\ hook.suite \in Around(run.at) /\ run.at \in Suites
    BY <1>1 DEF StackInv, RunOK
  <1>3. run.phase = "before" => hook.kind = "before" /\ hook.suite = run.at
    BY <1>1 DEF HandlesInv, DoneOK, StackInv, RunOK
  <1>4. run.phase = "beforeEach" => hook.kind \in {"each", "cache"}
    <2> SUFFICES ASSUME run.phase = "beforeEach" PROVE hook.kind \in {"each", "cache"}
      OBVIOUS
    <2>1. hook \in BeforeEachHooks(run.at) BY <1>1 DEF HandlesInv, DoneOK, InTest
    <2>2. Around(run.at) \subseteq Suites BY <1>2, AroundFacts
    <2> QED BY <1>1, <2>1, <2>2, HooksOfFacts DEF BeforeEachHooks, HookKinds
  <1>5. hook \notin Built BY <1>1 DEF CachesOK
  <1>6. hook \notin Held
    BY <1>1, <1>3, <1>4, <1>5 DEF Held, RanBy, InTest
  <1> QED BY <1>1, <1>2, <1>3, <1>4, <1>5, <1>6

\* A hook throws: what it has deployed so far stays, and what is held is as it was.
LEMMA HookThrowsMoves ==
    ASSUME StackInv, HandlesInv, forest \in Forests, CachesOK, NEW hook \in NextHooks,
           HookThrows(hook)
    PROVE  HandlesInv' /\ Settles
  <1>1. Deploying(hook) /\ HookFailed(hook)
        /\ UNCHANGED <<forest, initialized, SNAPSHOTS, snapshotId>>
    BY DEF HookThrows
  <1>2. /\ run.phase \in {"before", "beforeEach"} /\ run.phase \in Running
        /\ hook \in Hooks /\ hook \in run.todo /\ hook.suite \in Around(run.at)
        /\ run.at \in Suites /\ \A g \in run.todo \ {hook} : Precedes(hook, g)
        /\ run.phase = "before" => hook.kind = "before" /\ hook.suite = run.at
        /\ run.phase = "beforeEach" => hook.kind \in {"each", "cache"}
        /\ hook \notin Held /\ hook \notin Built /\ hook.kind # "snap"
    BY <1>1, AtWork
  <1>3. PICK n \in DOMAIN Deployments(hook) :
          /\ node' = EvmSend(node, Deployments(hook)[n].sent)
          /\ handles' = [handles EXCEPT ![hook] = Deployments(hook)[n].own]
    BY DEF HookThrows
  <1>4. IsChain(Deployments(hook)[n].sent)
    BY <1>1, <1>2, FoundLive, DeploymentsLive DEF HandlesInv, ChainsOK, DeployedOK
  <1>5. /\ handles' = [h \in Hooks |-> handles'[h]]
        /\ \A h \in Hooks : h # hook => handles'[h] = handles[h]
        /\ \A h \in Hooks : h.kind = "snap" => handles'[h] = {}
    <2>1. handles = [h \in Hooks |-> handles[h]] /\ \A h \in Hooks : h.kind = "snap" => handles[h] = {}
      BY <1>2 DEF HandlesInv, HookStateOK
    <2> QED BY <1>2, <1>3, <2>1
  <1>6. CASE run.phase = "before"
    <2> DEFINE s == run.at
               T == HooksOf({s}, {"cache"})
    <2>1. run' = Leave(s, s) BY <1>1, <1>2, <1>6 DEF HookFailed
    <2>2. run'.phase = "after" /\ run'.at = s /\ run'.todo = T BY <2>1 DEF Leave
    <2>3. Snapped = {} BY <1>2, <1>6 DEF HandlesInv, SnapsPlaced
    <2>4. \A h \in Held : handles'[h] = handles[h] BY <1>2, <1>5 DEF Held
    <2>5. \E e : IsChain(e) /\ node' = EvmSend(node, e) BY <1>3, <1>4
    <2> HIDE DEF T
    <2> QED BY <1>1, <1>2, <1>5, <2>2, <2>3, <2>4, <2>5, MovesOn
  <1>7. CASE run.phase = "beforeEach"
    <2>1. run' = EndTest(run.at, run.test, hook.suite) BY <1>1, <1>7 DEF HookFailed
    <2>2. Hooks' = Hooks /\ Built' = Built BY <1>1, SameHooks DEF Built
    <2>3. hook \notin Held'
      BY <1>2, <1>7, <2>1, <2>2 DEF Held, InTest, EndTest
    <2>4. \A h \in Held' : handles'[h] = handles[h]
      BY <1>5, <2>2, <2>3 DEF Held
    <2>5. \A h \in Snapped : h.suite <= hook.suite
      <3> SUFFICES ASSUME NEW h \in Snapped PROVE h.suite <= hook.suite OBVIOUS
      <3>1. h \in Hooks /\ h.kind = "snap" /\ h.suite \in Around(run.at) /\ h \notin run.todo
        BY <1>2, <1>7 DEF HandlesInv, SnapsPlaced, Snapped, RanBy
      <3>2. h \in BeforeEachHooks(run.at)
        BY <1>2, <3>1, AroundFacts, HooksOfFacts DEF BeforeEachHooks, HookKinds
      <3>3. Precedes(h, hook)
        BY <1>2, <1>7, <3>1, <3>2 DEF HandlesInv, DoneOK, InTest
      <3> QED BY <1>2, <3>1, <3>3, HookOrder
    <2>6. \E e : IsChain(e) /\ node' = EvmSend(node, e) BY <1>3, <1>4
    <2> QED BY <1>1, <1>2, <1>5, <1>7, <2>1, <2>4, <2>5, <2>6, TestOver
  <1> QED BY <1>2, <1>6, <1>7

\* A test runs to its end.
LEMMA RunTestMoves ==
    ASSUME StackInv, HandlesInv, forest \in Forests, CachesOK, RunTest
    PROVE  HandlesInv' /\ Settles
  <1>1. /\ run.phase = "body" /\ run.phase \in Running
        /\ UNCHANGED <<forest, initialized, SNAPSHOTS, snapshotId, handles>>
        /\ run' = EndTest(run.at, run.test, 0)
    BY DEF RunTest, Running
  <1>2. \E e : IsChain(e) /\ node' = EvmSend(node, e)
    <2> DEFINE x == Entry("Effect", <<>>, "test", run.at)
    <2>1. PICK e \in {<<>>, <<x>>} : node' = EvmSend(node, e) BY DEF RunTest
    <2> HIDE DEF x
    <2>2. <<>> \in Seq({x}) /\ <<x>> \in Seq({x}) OBVIOUS
    <2> QED BY <2>1, <2>2 DEF IsChain
  <1>3. handles = [h \in Hooks |-> handles[h]] /\ \A h \in Hooks : h.kind = "snap" => handles[h] = {}
    BY <1>1 DEF HandlesInv, HookStateOK
  <1>4. /\ handles' = [h \in Hooks |-> handles'[h]]
        /\ \A h \in Hooks : h.kind = "snap" => handles'[h] = {}
        /\ \A h \in Held' : handles'[h] = handles[h]
    BY <1>1, <1>3
  <1> QED BY <1>1, <1>2, <1>4, TestOver

\* The hooks before a test are done: the test starts.
LEMMA TestStarts ==
    ASSUME StackInv, HandlesInv, forest \in Forests, CachesOK,
           run.phase = "beforeEach", run.todo = {}, run' = [run EXCEPT !.phase = "body"],
           UNCHANGED <<forest, initialized, SNAPSHOTS, snapshotId, node, handles>>
    PROVE  HandlesInv'
  <1>1. /\ run.phase \in Running /\ run'.phase = "body" /\ run'.at = run.at /\ run'.todo = {}
        /\ run'.phase \in Running
    BY DEF StackInv, RunOK, Running
  <1>2. /\ Hooks' = Hooks /\ Built' = Built
        /\ \A u : Around(u)' = Around(u) /\ BeforeEachHooks(u)' = BeforeEachHooks(u)
    BY SameHooks DEF Built
  <1>3. /\ \E e : IsChain(e) /\ node' = EvmSend(node, e)
        /\ handles' = [h \in Hooks |-> handles'[h]]
        /\ \A h \in Hooks : h.kind = "snap" => handles'[h] = {}
    BY <1>1, NothingSent
  <1>4. Held' = Held BY <1>1, <1>2 DEF Held, RanBy, InTest
  <1>5. DoneOK'
    <2>1. \A h \in BeforeEachHooks(run.at) : h.kind = "cache" => h \in Built
      BY DEF HandlesInv, DoneOK, InTest, Running
    <2>2. BeforeEachHooks(run.at)' = BeforeEachHooks(run.at) BY <1>1, <1>2
    <2> QED BY <1>1, <1>2, <2>1, <2>2 DEF DoneOK, InTest
  <1>6. SnapsPlaced'
    <2>1. Snapped' = Snapped BY <1>2 DEF Snapped
    <2>2. \A h \in Snapped : h.suite \in Around(run.at)
      BY <1>1 DEF HandlesInv, SnapsPlaced, RanBy
    <2> QED BY <1>1, <1>2, <2>1, <2>2 DEF SnapsPlaced, RanBy
  <1>7. \A h \in Held' : handles'[h] = handles[h] OBVIOUS
  <1>8. Held' \subseteq Held BY <1>4
  <1>9. UNCHANGED <<forest, initialized, SNAPSHOTS, snapshotId>> OBVIOUS
  <1> QED BY <1>1, <1>3, <1>5, <1>6, <1>7, <1>8, <1>9, MoveKeeps, Zenon

-----------------------------------------------------------------------------
\* A hook has run: only its own handles may be held anew.
LEMMA HookOver ==
    ASSUME StackInv, HandlesInv, forest \in Forests, run.phase \in Running, UNCHANGED forest,
           NEW hook \in NextHooks, HookDone(hook),
           Built \subseteq Built', Built' \subseteq Built \cup {hook},
           run.phase = "before" => Built' = Built,
           run.phase = "beforeEach" /\ hook.kind = "cache" => hook \in Built'
    PROVE  /\ run'.phase = run.phase /\ run'.at = run.at /\ run'.todo = run.todo \ {hook}
           /\ Hooks' = Hooks /\ \A u : Around(u)' = Around(u)
           /\ DoneOK' /\ Held' \subseteq Held \cup {hook}
           /\ run.phase # "afterEach" /\ Snapped' \subseteq Snapped => SnapsPlaced'
           /\ run.phase = "beforeEach" /\ Snapped' \subseteq Snapped \cup {hook} => SnapsPlaced'
           /\ Snapped' \subseteq Snapped \ {hook} => SnapsPlaced'
  <1>1. /\ Hooks' = Hooks
        /\ \A u : Around(u)' = Around(u) /\ BeforeEachHooks(u)' = BeforeEachHooks(u)
    BY SameHooks
  <1>2. run'.phase = run.phase /\ run'.at = run.at /\ run'.todo = run.todo \ {hook}
    <2> DEFINE T == run.todo \ {hook}
               p == run.phase
               s == run.at
    <2>1. run' = [run EXCEPT !.todo = T] BY DEF HookDone
    <2>2. run = [phase |-> p, at |-> s, test |-> run.test, todo |-> run.todo,
                 failed |-> run.failed]
      BY DEF StackInv, RunOK
    <2> HIDE DEF T, p, s
    <2>3. run'.phase = p /\ run'.at = s /\ run'.todo = T BY <2>1, <2>2
    <2> QED BY <2>3 DEF T, p, s
  <1>3. /\ hook \in run.todo /\ hook \in Hooks /\ hook.suite \in Around(run.at)
        /\ run.phase # "afterEach" => \A g \in run.todo \ {hook} : Precedes(hook, g)
    BY DEF NextHooks, StackInv, RunOK
  <1>4. DoneOK /\ SnapsPlaced BY DEF HandlesInv
  <1>5. BeforeEachHooks(run.at)' = BeforeEachHooks(run.at) BY <1>1, <1>2
  <1>6. DoneOK'
    <2>1. CASE run.phase = "before"
      BY <1>2, <1>4, <2>1 DEF DoneOK, InTest
    <2>2. CASE run.phase = "beforeEach"
      BY <1>2, <1>3, <1>4, <1>5, <2>2 DEF DoneOK, InTest
    <2>3. CASE run.phase = "body"
      BY <1>3, <1>4, <2>3 DEF DoneOK
    <2>4. CASE run.phase \notin {"before", "beforeEach", "body"}
      BY <1>2, <2>4 DEF DoneOK, InTest
    <2> QED BY <2>1, <2>2, <2>3, <2>4
  <1>7. Held' \subseteq Held \cup {hook}
    BY <1>1, <1>2 DEF Held, RanBy, InTest
  <1>8. ASSUME run.phase # "afterEach", Snapped' \subseteq Snapped PROVE SnapsPlaced'
    BY <1>1, <1>2, <1>4, <1>8 DEF SnapsPlaced, RanBy
  <1>9. ASSUME run.phase = "beforeEach", Snapped' \subseteq Snapped \cup {hook}
        PROVE SnapsPlaced'
    BY <1>1, <1>2, <1>3, <1>4, <1>9 DEF SnapsPlaced, RanBy
  <1>10. ASSUME Snapped' \subseteq Snapped \ {hook} PROVE SnapsPlaced'
    BY <1>1, <1>2, <1>4, <1>10 DEF SnapsPlaced, RanBy
  <1> QED BY <1>1, <1>2, <1>6, <1>7, <1>8, <1>9, <1>10

\* A before hook runs where nothing is cached yet.
LEMMA BeforeIsFirst ==
    ASSUME StackInv, HandlesInv, forest \in Forests, CachesOK, run.phase = "before",
           NEW hook \in Hooks, hook.kind = "before", hook.suite = run.at
    PROVE  Len(SNAPSHOTS) = 0 /\ Snapped = {}
  <1>1. /\ run.at \in Suites /\ Len(SNAPSHOTS) = Cardinality(BuiltIn(run.at))
        /\ run.phase \in Running
    BY Inside DEF Running
  <1>2. ASSUME NEW h \in BuiltIn(run.at) PROVE FALSE
    <2>1. h \in Hooks /\ h.kind = "cache" /\ h.suite \in Around(run.at) /\ h.suite # run.at
      BY <1>1, <1>2 DEF BuiltIn, Built, CachesOK, HandlesInv, DoneOK
    <2>2. run.at \in Around(run.at) /\ h.suite <= run.at
      BY <1>1, <2>1, AroundFacts
    <2>3. Precedes(hook, h) BY <1>1, <2>1, <2>2, SpecOrder
    <2>4. run.at <= h.suite BY <2>1, <2>3, HookOrder
    <2>5. run.at \in Nat /\ h.suite \in Nat
      BY <1>1, <2>1, HookOrder, AroundFacts
    <2> QED BY <2>1, <2>2, <2>4, <2>5
  <1>3. Len(SNAPSHOTS) = 0 BY <1>1, <1>2, FS_EmptySet
  <1> QED BY <1>1, <1>3 DEF HandlesInv, SnapsPlaced

\* A before or beforeEach hook of a spec.
LEMMA PlainHookKeeps ==
    ASSUME StackInv, HandlesInv, forest \in Forests, CachesOK, NEW hook \in NextHooks,
           PlainHook(hook)
    PROVE  HandlesInv'
  <1>1. Deploying(hook) /\ HookDone(hook) /\ hook.kind # "cache"
        /\ UNCHANGED <<forest, initialized, SNAPSHOTS, snapshotId>>
    BY DEF PlainHook
  <1>2. /\ run.phase \in {"before", "beforeEach"} /\ run.phase \in Running
        /\ hook \in Hooks
        /\ run.phase = "before" => hook.kind = "before" /\ hook.suite = run.at
        /\ run.phase = "beforeEach" => hook.kind \in {"each", "cache"}
        /\ hook \notin Held /\ hook.kind # "snap"
    BY <1>1, AtWork
  <1> DEFINE end == AllDeployed(hook)
  <1>3. node' = EvmSend(node, end.sent) /\ handles' = [handles EXCEPT ![hook] = end.own]
    BY DEF PlainHook
  <1>4. DeployedOK(end, hook)
    BY <1>1, <1>2, FoundLive, DeploymentsLive DEF HandlesInv, ChainsOK
  <1> HIDE DEF end
  <1>5. IsChain(end.sent) /\ \A x \in end.own : LiveIn(x, node.chain \o end.sent)
    BY <1>4 DEF DeployedOK
  <1>6. /\ ChainsOK /\ HookStateOK /\ BuiltInOrder /\ HeldLive /\ SnapsLive
        /\ IsNode(node) /\ IsStack(SNAPSHOTS, node)
    BY <1>2 DEF HandlesInv, StackInv, NodeOK, StackOK
  <1>7. /\ node'.chain = node.chain \o end.sent /\ node'.snaps = node.snaps
        /\ node'.nextId = node.nextId
    <2>1. node'.snaps = node.snaps /\ node'.nextId = node.nextId
      BY <1>3, <1>6, NodeFacts
    <2>2. \A e : EvmSend(node, e).chain = node.chain \o e
      BY <1>6, NodeChains
    <2> QED BY <1>3, <2>1, <2>2
  <1>8. /\ Hooks' = Hooks /\ Built' = Built /\ \A u : Around(u)' = Around(u)
        /\ Snapped' = Snapped
    BY <1>1, <1>7, SameHooks DEF Built, Snapped
  <1>9. /\ run'.phase = run.phase /\ DoneOK' /\ SnapsPlaced' /\ Held' \subseteq Held \cup {hook}
    <2>1. run.phase = "beforeEach" /\ hook.kind = "cache" => hook \in Built' BY <1>1
    <2> QED BY <1>1, <1>2, <1>8, <2>1, HookOver
  <1>10. /\ handles' = [h \in Hooks |-> handles'[h]] /\ handles'[hook] = end.own
         /\ \A h \in Hooks : h # hook => handles'[h] = handles[h]
    <2>1. handles = [h \in Hooks |-> handles[h]] BY <1>6 DEF HookStateOK
    <2> QED BY <1>2, <1>3, <2>1
  <1>11. IsChain(node'.chain) /\ \A h : LiveIn(h, node.chain) => LiveIn(h, node'.chain)
    BY <1>5, <1>6, <1>7, ChainGrows DEF ChainsOK
  <1>12. ChainsOK' BY <1>6, <1>7, <1>11 DEF ChainsOK
  <1>13. HookStateOK' BY <1>1, <1>2, <1>6, <1>7, <1>8, <1>10 DEF HookStateOK
  <1>14. BuiltInOrder' BY <1>6, <1>8 DEF BuiltInOrder
  <1>15. \A h : Rank(h)' = Rank(h) BY <1>8 DEF Rank
  <1>16. AllLive(hook, node.chain)'
    BY <1>5, <1>7, <1>10 DEF AllLive
  <1>17. hook.kind = "before" => Len(SNAPSHOTS) = 0 /\ Snapped = {}
    BY <1>2, BeforeIsFirst
  <1>18. ASSUME NEW h \in Held', h # hook
         PROVE h \in Held /\ h \in Hooks /\ handles'[h] = handles[h]
    BY <1>9, <1>10, <1>18 DEF Held
  <1>19. HeldLive'
    <2> SUFFICES ASSUME NEW h \in Held'
                 PROVE  /\ AllLive(h, node.chain)'
                        /\ h.kind # "each" => \A i \in 1..Len(SNAPSHOTS') :
                             Rank(h)' <= i => AllLive(h, Saved(SNAPSHOTS[i]))'
      BY DEF HeldLive
    <2>1. CASE h = hook
      BY <1>1, <1>2, <1>16, <1>17, <2>1
    <2>2. CASE h # hook
      BY <1>1, <1>6, <1>7, <1>11, <1>15, <1>18, <2>2 DEF HeldLive, AllLive, Saved
    <2> QED BY <2>1, <2>2
  <1>20. SnapsLive'
    <2> SUFFICES ASSUME NEW h \in Snapped', NEW b \in Held', b.kind = "before"
                 PROVE  AllLive(b, Saved(snapshotId[h]))'
      BY DEF SnapsLive
    <2>1. b # hook BY <1>8, <1>17
    <2> QED BY <1>1, <1>6, <1>7, <1>8, <1>18, <2>1 DEF SnapsLive, AllLive, Saved
  <1> QED BY <1>2, <1>9, <1>12, <1>13, <1>14, <1>19, <1>20 DEF HandlesInv, Running

-----------------------------------------------------------------------------
\* The after hook of a cache drops a snapshot from the top.
LEMMA CacheAfterKeeps ==
    ASSUME StackInv, HandlesInv, forest \in Forests, CachesOK, NEW hook \in NextHooks,
           CacheAfter(hook)
    PROVE  HandlesInv'
  <1>1. /\ run.phase = "after" /\ run.phase \in Running /\ HookDone(hook)
        /\ SNAPSHOTS' \in {Popped, SNAPSHOTS}
        /\ UNCHANGED <<forest, node, initialized, snapshotId, handles>>
    BY DEF CacheAfter, Running
  <1>2. /\ ChainsOK /\ HookStateOK /\ BuiltInOrder /\ HeldLive /\ SnapsLive
        /\ IsStack(SNAPSHOTS, node) /\ IsNode(node)
    BY <1>1 DEF HandlesInv, StackInv, NodeOK, StackOK
  <1>3. /\ Hooks' = Hooks /\ Built' = Built /\ \A u : Around(u)' = Around(u)
        /\ Snapped' = Snapped
    BY <1>1, SameHooks DEF Built, Snapped
  <1>4. run'.phase = run.phase /\ run'.at = run.at /\ DoneOK' /\ SnapsPlaced'
    <2>1. run.phase # "beforeEach" /\ run.phase # "afterEach" BY <1>1
    <2> QED BY <1>1, <1>3, <2>1, HookOver
  <1>5. Held' = Held BY <1>1, <1>3, <1>4 DEF Held, RanBy, InTest
  <1>6. \A i \in 1..Len(SNAPSHOTS') : i \in 1..Len(SNAPSHOTS) /\ SNAPSHOTS'[i] = SNAPSHOTS[i]
    BY <1>1, <1>2, PoppedIsPrefix DEF IsStack
  <1>7. \A h : Rank(h)' = Rank(h) BY <1>3 DEF Rank
  <1>8. ChainsOK' /\ HookStateOK' /\ BuiltInOrder'
    BY <1>1, <1>2, <1>3 DEF ChainsOK, HookStateOK, BuiltInOrder
  <1>9. HeldLive'
    BY <1>1, <1>2, <1>5, <1>6, <1>7 DEF HeldLive, AllLive, Saved
  <1>10. SnapsLive'
    BY <1>1, <1>2, <1>3, <1>5 DEF SnapsLive, AllLive, Saved
  <1> QED BY <1>1, <1>4, <1>8, <1>9, <1>10 DEF HandlesInv, Running

\* The first suite of a session, or none.
LEMMA LoadKeeps ==
    ASSUME StackInv, HandlesInv, forest \in Forests, CachesOK, Load
    PROVE  HandlesInv'
  <1>1. /\ run.phase = "loaded"
        /\ UNCHANGED <<forest, node, SNAPSHOTS, initialized, snapshotId, handles>>
        /\ run' = IF Visited(0) = {} THEN Ended ELSE Enter(First(Visited(0)))
    BY DEF Load
  <1>2. ChainsOK' BY <1>1 DEF HandlesInv, ChainsOK
  <1>3. CASE Visited(0) = {}
    BY <1>1, <1>2, <1>3 DEF HandlesInv, Ended, Running
  <1>4. CASE Visited(0) # {}
    <2> DEFINE t == First(Visited(0))
               T == HooksOf({t}, {"before"})
    <2>1. \A s \in Suites : s \in Nat BY AroundFacts
    <2>2. t \in Visited(0) BY <1>4, <2>1, FirstIsIn DEF Visited
    <2>3. run'.phase = "before" /\ run'.at = t /\ run'.todo = T
      BY <1>1, <1>4 DEF Enter
    <2> HIDE DEF t, T
    <2>4. t \in Suites /\ Around(t) = {t} BY <2>2, AroundFacts DEF Visited
    <2>5. T = {h \in Hooks : h.suite = t /\ h.kind = "before"}
      BY <2>4, HooksOfFacts DEF T, HookKinds
    <2>6. /\ Hooks' = Hooks /\ Built' = {} /\ Snapped' = {}
          /\ \A u : Around(u)' = Around(u)
      BY <1>1, SameHooks DEF CachesOK, Built, Snapped, HandlesInv, ChainsOK
    <2>7. Held' = {}
      BY <2>3, <2>4, <2>5, <2>6 DEF Held, RanBy, InTest
    <2>8. HookStateOK' BY <1>1, <2>6 DEF HandlesInv, HookStateOK
    <2>9. DoneOK' BY <2>3, <2>5, <2>6 DEF DoneOK, InTest
    <2>10. /\ BuiltInOrder' /\ HeldLive' /\ SnapsPlaced' /\ SnapsLive'
      BY <2>6, <2>7 DEF BuiltInOrder, HeldLive, SnapsPlaced, SnapsLive
    <2> QED BY <1>2, <2>3, <2>8, <2>9, <2>10 DEF HandlesInv
  <1> QED BY <1>3, <1>4

\* A process knows no handle when it starts, whatever the node holds.
LEMMA StartsKnowing ==
    ASSUME StackInv, HandlesInv, UNCHANGED node, NEW f \in Forests, StartSession(f),
           run' = [Ended EXCEPT !.phase = "loaded"]
    PROVE  HandlesInv'
  <1>1. /\ snapshotId' = [hook \in Hooks' |-> 0] /\ handles' = [hook \in Hooks' |-> {}]
        /\ run'.phase = "loaded"
    BY DEF StartSession, NoSnapshot, Ended
  <1>2. ChainsOK' BY DEF HandlesInv, ChainsOK
  <1>3. node.nextId \in Nat /\ node.nextId # 0
    BY DEF StackInv, NodeOK, IsNode, HandlesInv, ChainsOK
  <1>4. HookStateOK' /\ \A h \in Hooks' : snapshotId'[h] = 0
    BY <1>1, <1>3 DEF HookStateOK
  <1> QED BY <1>1, <1>2, <1>4 DEF HandlesInv, Running

-----------------------------------------------------------------------------
\* The other sandbox saves what is held before a test ...
LEMMA SnapSaveKeeps ==
    ASSUME StackInv, HandlesInv, forest \in Forests, CachesOK, NEW hook \in NextHooks,
           SnapSave(hook)
    PROVE  HandlesInv'
  <1>1. /\ run.phase = "beforeEach" /\ run.phase \in Running /\ HookDone(hook)
        /\ hook.kind = "snap" /\ node' = saveSnapshotAsync(node)
        /\ snapshotId' = [snapshotId EXCEPT ![hook] = node.nextId]
        /\ UNCHANGED <<forest, SNAPSHOTS, initialized, handles>>
    BY DEF SnapSave, Running, SavedId
  <1>2. /\ ChainsOK /\ HookStateOK /\ BuiltInOrder /\ HeldLive /\ SnapsLive
        /\ IsNode(node) /\ IsStack(SNAPSHOTS, node)
    BY <1>1 DEF HandlesInv, StackInv, NodeOK, StackOK
  <1>3. hook \in Hooks BY <1>1 DEF NextHooks, StackInv, RunOK
  <1>4. /\ node'.chain = node.chain /\ node'.nextId = node.nextId + 1
        /\ DOMAIN node'.snaps = DOMAIN node.snaps \cup {node.nextId}
        /\ node'.snaps[node.nextId] = node.chain
        /\ \A i \in DOMAIN node.snaps : node'.snaps[i] = node.snaps[i]
        /\ node.nextId \in Nat
    BY <1>1, <1>2, NodeFacts, NodeChains DEF SavedId
  <1>5. Built' = Built BY <1>1, SameHooks DEF Built
  <1>6. /\ snapshotId'[hook] = node.nextId /\ snapshotId' \in [Hooks -> Nat]
        /\ \A h \in Hooks : h # hook => /\ snapshotId'[h] = snapshotId[h]
                                        /\ snapshotId[h] \in Nat
                                        /\ snapshotId[h] < node.nextId
    BY <1>1, <1>2, <1>3, <1>4 DEF HookStateOK
  <1>7. Snapped' \subseteq Snapped \cup {hook}
    BY <1>1, <1>4, <1>6, SameHooks DEF Snapped
  <1>8. /\ run'.phase = run.phase /\ Hooks' = Hooks /\ \A u : Around(u)' = Around(u)
        /\ DoneOK' /\ SnapsPlaced' /\ Held' \subseteq Held \cup {hook}
    BY <1>1, <1>5, <1>7, HookOver
  <1>9. Held' \subseteq Held
    BY <1>1, <1>5, <1>8 DEF Held, CachesOK
  <1>10. \A h : Rank(h)' = Rank(h) BY <1>5, <1>8 DEF Rank
  <1>11. ChainsOK'
    BY <1>2, <1>4 DEF ChainsOK
  <1>12. HookStateOK' /\ BuiltInOrder'
    BY <1>1, <1>2, <1>4, <1>5, <1>6, <1>8 DEF HookStateOK, BuiltInOrder
  <1>13. HeldLive'
    <2>1. \A i \in 1..Len(SNAPSHOTS) : node'.snaps[SNAPSHOTS[i]] = node.snaps[SNAPSHOTS[i]]
      BY <1>2, <1>4 DEF IsStack
    <2> QED BY <1>1, <1>2, <1>4, <1>9, <1>10, <2>1 DEF HeldLive, AllLive, Saved
  <1>14. SnapsLive'
    <2> SUFFICES ASSUME NEW h \in Snapped', NEW b \in Held', b.kind = "before"
                 PROVE  AllLive(b, Saved(snapshotId[h]))'
      BY DEF SnapsLive
    <2>1. AllLive(b, node.chain) BY <1>2, <1>9 DEF HeldLive
    <2>2. CASE h = hook BY <1>1, <1>4, <1>6, <2>1, <2>2 DEF AllLive, Saved
    <2>3. CASE h # hook
      <3>1. h \in Snapped /\ snapshotId'[h] = snapshotId[h] BY <1>6, <1>7, <2>3 DEF Snapped
      <3>2. snapshotId[h] \in DOMAIN node.snaps BY <3>1 DEF Snapped
      <3> QED BY <1>1, <1>2, <1>4, <1>9, <3>1, <3>2 DEF SnapsLive, AllLive, Saved
    <2> QED BY <2>2, <2>3
  <1> QED BY <1>1, <1>8, <1>11, <1>12, <1>13, <1>14 DEF HandlesInv, Running

\* ... and goes back to it when the test is over, where nothing is cached.
LEMMA SnapRestoreKeeps ==
    ASSUME StackInv, HandlesInv, forest \in Forests, CachesOK, NEW hook \in NextHooks,
           SnapRestore(hook)
    PROVE  HandlesInv'
  <1> DEFINE id == snapshotId[hook]
  <1>1. /\ run.phase = "afterEach" /\ run.phase \in Running /\ HookDone(hook)
        /\ hook.kind = "snap" /\ node' = EvmRevert(node, id)
        /\ UNCHANGED <<forest, SNAPSHOTS, initialized, snapshotId, handles>>
    BY DEF SnapRestore, Running, revertAsync
  <1>2. /\ ChainsOK /\ HookStateOK /\ BuiltInOrder /\ HeldLive /\ SnapsLive
        /\ IsNode(node) /\ IsStack(SNAPSHOTS, node)
    BY <1>1 DEF HandlesInv, StackInv, NodeOK, StackOK
  <1>3. hook \in Hooks /\ hook \in run.todo
    BY <1>1 DEF NextHooks, StackInv, RunOK
  <1> HIDE DEF id
  <1>4. /\ IsChain(node'.chain) /\ node'.nextId = node.nextId
        /\ \A i \in DOMAIN node'.snaps : i \in DOMAIN node.snaps /\ i # id
                                         /\ node'.snaps[i] = node.snaps[i]
    <2>1. CASE id \in DOMAIN node.snaps
      <3>1. /\ node'.chain = node.snaps[id] /\ node'.nextId = node.nextId
            /\ DOMAIN node'.snaps = {i \in DOMAIN node.snaps : i < id}
            /\ \A i \in DOMAIN node.snaps : i < id => node'.snaps[i] = node.snaps[i]
        BY <1>1, <1>2, <2>1, NodeFacts, NodeChains
      <3>2. \A i \in DOMAIN node.snaps : i \in Nat BY <1>2 DEF IsNode
      <3> QED BY <1>2, <2>1, <3>1, <3>2 DEF ChainsOK
    <2>2. CASE id \notin DOMAIN node.snaps
      BY <1>1, <1>2, <2>2, NodeChains DEF ChainsOK
    <2> QED BY <2>1, <2>2
  <1>5. Built' = Built BY <1>1, SameHooks DEF Built
  <1>6. Snapped' \subseteq Snapped \ {hook}
    BY <1>1, <1>4, SameHooks DEF Snapped, id
  <1>7. /\ run'.phase = run.phase /\ Hooks' = Hooks /\ \A u : Around(u)' = Around(u)
        /\ DoneOK' /\ SnapsPlaced' /\ Held' \subseteq Held \cup {hook}
    BY <1>1, <1>5, <1>6, HookOver
  <1>8. Held' \subseteq Held
    BY <1>1, <1>5, <1>7 DEF Held, CachesOK
  <1>9. Len(SNAPSHOTS) = 0 BY <1>1, <1>3, NoCacheAround
  <1>10. ASSUME NEW h \in Held PROVE h.kind = "before"
    <2>1. Len(SNAPSHOTS) = Cardinality(BuiltIn(run.at)) BY <1>1, Inside
    <2>2. IsFiniteSet(BuiltIn(run.at)) BY FS_Subset DEF BuiltIn, CachesOK
    <2>3. BuiltIn(run.at) = {} BY <1>9, <2>1, <2>2, FS_EmptySet
    <2> QED BY <1>1, <2>3 DEF Held, BuiltIn, RanBy, InTest
  <1>11. ASSUME NEW h \in Held' PROVE AllLive(h, node.chain)'
    <2>1. h \in Held /\ h.kind = "before" BY <1>8, <1>10
    <2>2. CASE id \in DOMAIN node.snaps
      <3>1. hook \in Snapped BY <1>1, <1>3, <2>2 DEF Snapped, id
      <3>2. AllLive(h, node.snaps[id]) BY <1>2, <2>1, <3>1 DEF SnapsLive, Saved, id
      <3>3. node'.chain = node.snaps[id] BY <1>1, <1>2, <2>2, NodeChains
      <3> QED BY <1>1, <3>2, <3>3 DEF AllLive
    <2>3. CASE id \notin DOMAIN node.snaps
      <3>1. node' = node BY <1>1, <1>2, <2>3, NodeChains
      <3> QED BY <1>1, <1>2, <2>1, <3>1 DEF HeldLive, AllLive
    <2> QED BY <2>2, <2>3
  <1>12. HeldLive' BY <1>1, <1>9, <1>11 DEF HeldLive
  <1>13. ChainsOK' BY <1>2, <1>4 DEF ChainsOK
  <1>14. HookStateOK' /\ BuiltInOrder'
    BY <1>1, <1>2, <1>4, <1>5, <1>7 DEF HookStateOK, BuiltInOrder
  <1>15. SnapsLive'
    <2>1. \A h \in Snapped' : h \in Snapped /\ node'.snaps[snapshotId[h]] = node.snaps[snapshotId[h]]
      BY <1>1, <1>4, <1>6 DEF Snapped
    <2> QED BY <1>1, <1>2, <1>8, <2>1 DEF SnapsLive, AllLive, Saved
  <1> QED BY <1>1, <1>7, <1>12, <1>13, <1>14, <1>15 DEF HandlesInv, Running

-----------------------------------------------------------------------------
\* A cache that is to be initialized comes after all that are initialized around
\* the place Mocha is at.
LEMMA LastCache ==
    ASSUME StackInv, HandlesInv, forest \in Forests, CachesOK, NEW hook \in NextHooks,
           run.phase = "beforeEach", hook.kind = "cache", hook \notin Built
    PROVE  /\ \A g \in Hooks : g.kind = "cache" /\ g.suite \in Around(hook.suite)
                               /\ Precedes(g, hook) => g \in Built
           /\ \A g \in BuiltIn(run.at) : g.suite \in Around(hook.suite) /\ ~Precedes(hook, g)
  <1>1. /\ run.phase \in Running /\ run.phase # "after" /\ hook \in run.todo
        /\ \A g \in run.todo \ {hook} : Precedes(hook, g)
    BY DEF NextHooks, Running
  <1>2. /\ hook \in Hooks /\ hook.suite \in Around(run.at) /\ run.at \in Suites
        /\ DoneOK /\ BuiltInOrder
    BY <1>1 DEF StackInv, RunOK, HandlesInv
  <1>3. Around(run.at) \subseteq Suites /\ Around(hook.suite) \subseteq Around(run.at)
    BY <1>2, AroundFacts
  <1>4. ASSUME NEW g \in Hooks, g.kind = "cache", g.suite \in Around(hook.suite),
               Precedes(g, hook)
        PROVE  g \in Built
    <2>1. g \in BeforeEachHooks(run.at)
      BY <1>3, <1>4, HooksOfFacts DEF BeforeEachHooks, HookKinds
    <2>2. g \notin run.todo BY <1>1, <1>2, <1>4, HookOrder
    <2> QED BY <1>2, <1>4, <2>1, <2>2 DEF DoneOK, InTest
  <1>5. ASSUME NEW g \in BuiltIn(run.at)
        PROVE  g.suite \in Around(hook.suite) /\ ~Precedes(hook, g)
    <2>1. /\ g \in Hooks /\ g \in Built /\ g.suite \in Around(run.at)
          /\ g.suite \in Suites /\ hook.suite \in Suites /\ g # hook
      BY <1>2, <1>3 DEF BuiltIn, Built
    <2>2. /\ g.suite \in Nat /\ hook.suite \in Nat /\ run.at \in Nat
          /\ g.suite <= run.at /\ hook.suite <= run.at
      BY <1>2, <2>1, AroundFacts
    <2>3. ~Precedes(hook, g)
      <3> SUFFICES ASSUME Precedes(hook, g) PROVE FALSE OBVIOUS
      <3>1. hook.suite <= g.suite BY <1>2, <2>1, HookOrder
      <3>2. hook.suite \in Around(g.suite)
        BY <1>2, <2>1, <2>2, <3>1, AroundFacts
      <3> QED BY <1>2, <2>1, <3>2 DEF BuiltInOrder
    <2>4. g.suite <= hook.suite BY <1>2, <2>1, <2>3, HookOrder
    <2>5. g.suite \in Around(hook.suite)
      BY <1>2, <2>1, <2>2, <2>4, AroundFacts
    <2> QED BY <2>3, <2>5
  <1> QED BY <1>4, <1>5

\* Initializing a cache takes no rank away, and its own is that of the new top.
LEMMA Ranks ==
    ASSUME StackInv, HandlesInv, forest \in Forests, CachesOK, NEW hook \in NextHooks,
           run.phase = "beforeEach", hook.kind = "cache", hook \notin Built,
           UNCHANGED forest, Built' = Built \cup {hook}
    PROVE  /\ \A h : Rank(h) \in Nat /\ Rank(h)' \in Nat /\ Rank(h) <= Rank(h)'
           /\ Len(SNAPSHOTS) + 1 <= Rank(hook)'
  <1>1. IsFiniteSet(Built) /\ IsFiniteSet(Built')
    BY FS_AddElement DEF CachesOK
  <1>2. \A u : Around(u)' = Around(u) BY SameHooks
  <1>3. ASSUME NEW h PROVE Rank(h) \in Nat /\ Rank(h)' \in Nat /\ Rank(h) <= Rank(h)'
    <2> DEFINE A == {g \in Built : g.suite \in Around(h.suite) /\ ~Precedes(h, g)}
               B == {g \in Built' : g.suite \in Around(h.suite) /\ ~Precedes(h, g)}
    <2>1. A \subseteq B /\ A \subseteq Built /\ B \subseteq Built' OBVIOUS
    <2>2. Rank(h) = Cardinality(A) /\ Rank(h)' = Cardinality(B)
      BY <1>2 DEF Rank, Precedes
    <2> HIDE DEF A, B
    <2>3. IsFiniteSet(A) /\ IsFiniteSet(B) BY <1>1, <2>1, FS_Subset
    <2> QED BY <2>1, <2>2, <2>3, FS_Subset, FS_CardinalityType
  <1>4. Len(SNAPSHOTS) + 1 <= Rank(hook)'
    <2> DEFINE A == BuiltIn(run.at) \cup {hook}
               B == {g \in Built' : g.suite \in Around(hook.suite) /\ ~Precedes(hook, g)}
    <2>1. /\ Len(SNAPSHOTS) = Cardinality(BuiltIn(run.at)) /\ run.at \in Suites
          /\ hook \in Hooks /\ hook.suite \in Around(run.at)
      BY Inside DEF Running, NextHooks, StackInv, RunOK
    <2>2. /\ hook.suite \in Suites /\ hook.suite \in Around(hook.suite)
          /\ ~Precedes(hook, hook)
      BY <2>1, HookOrder, AroundFacts
    <2>3. A \subseteq B BY <2>2, LastCache DEF BuiltIn
    <2>4. Rank(hook)' = Cardinality(B) BY <1>2 DEF Rank, Precedes
    <2>5. /\ IsFiniteSet(BuiltIn(run.at)) /\ hook \notin BuiltIn(run.at)
          /\ IsFiniteSet(B)
      BY <1>1, FS_Subset DEF BuiltIn
    <2>6. IsFiniteSet(A) /\ Cardinality(A) = Cardinality(BuiltIn(run.at)) + 1
      BY <2>5, FS_AddElement
    <2> HIDE DEF A, B
    <2> QED BY <2>1, <2>3, <2>4, <2>5, <2>6, FS_Subset
  <1> QED BY <1>3, <1>4

\* What hooks around the place Mocha is at deployed is in the snapshot on top, and
\* that is the snapshot of the last cache.
LEMMA RankOnStack ==
    ASSUME StackInv, forest \in Forests, CachesOK, run.phase \in Running \ {"after"},
           NEW h \in Hooks, h.suite \in Around(run.at)
    PROVE  /\ Rank(h) \in Nat /\ Rank(h) <= Len(SNAPSHOTS)
           /\ h \in Built /\ (\A g \in BuiltIn(run.at) : ~Precedes(h, g))
                => Rank(h) = Len(SNAPSHOTS)
  <1> DEFINE A == {g \in Built : g.suite \in Around(h.suite) /\ ~Precedes(h, g)}
             B == BuiltIn(run.at)
  <1>1. /\ run.at \in Suites /\ Len(SNAPSHOTS) = Cardinality(B) /\ IsFiniteSet(B)
    BY Inside, FS_Subset DEF BuiltIn, CachesOK
  <1>2. A \subseteq B BY <1>1, AroundFacts DEF BuiltIn
  <1>3. Rank(h) = Cardinality(A) BY DEF Rank
  <1>4. h \in Built /\ (\A g \in B : ~Precedes(h, g)) => A = B
    <2> SUFFICES ASSUME h \in Built, NEW g \in B, ~Precedes(h, g)
                 PROVE  g.suite \in Around(h.suite)
      BY <1>2 DEF BuiltIn
    <2>1. /\ g \in Hooks /\ g.suite \in Around(run.at) /\ g.suite \in Suites
          /\ h.suite \in Suites /\ h.suite \in Nat /\ g.suite \in Nat
          /\ h.suite <= run.at
      BY <1>1, AroundFacts, HookOrder DEF BuiltIn, Built
    <2>2. g.suite <= h.suite BY <2>1, HookOrder
    <2> QED BY <1>1, <2>1, <2>2, AroundFacts
  <1> HIDE DEF A
  <1>5. Cardinality(A) \in Nat /\ Cardinality(A) <= Cardinality(B)
    BY <1>1, <1>2, FS_Subset, FS_CardinalityType
  <1> QED BY <1>1, <1>3, <1>4, <1>5

\* What an initializer deployed is live, and saved on top of the stack with all
\* that is held.
LEMMA CacheInitializeKeeps ==
    ASSUME StackInv, HandlesInv, forest \in Forests, CachesOK, NEW hook \in NextHooks,
           CacheInitialize(hook)
    PROVE  HandlesInv'
  <1> DEFINE end == AllDeployed(hook)
             n1 == EvmSend(node, end.sent)
             m == Len(SNAPSHOTS)
  <1>1. /\ Deploying(hook) /\ HookDone(hook) /\ hook.kind = "cache"
        /\ initialized' = [initialized EXCEPT ![hook] = TRUE]
        /\ UNCHANGED forest
    BY DEF CacheInitialize
  <1>2. /\ handles' = [handles EXCEPT ![hook] = end.own]
        /\ SNAPSHOTS' = Append(SNAPSHOTS, n1.nextId)
        /\ node' = saveSnapshotAsync(n1)
        /\ snapshotId' = [snapshotId EXCEPT ![hook] = n1.nextId]
    BY DEF CacheInitialize, SavedId
  <1>3. /\ run.phase = "beforeEach" /\ run.phase \in Running
        /\ hook \in Hooks /\ hook \notin Held /\ hook \notin Built
    BY <1>1, AtWork
  <1>4. DeployedOK(end, hook)
    BY <1>1, <1>3, FoundLive, DeploymentsLive DEF HandlesInv, ChainsOK
  <1>5. IsChain(end.sent) /\ \A x \in end.own : LiveIn(x, node.chain \o end.sent)
    BY <1>4 DEF DeployedOK
  <1>6. /\ ChainsOK /\ HookStateOK /\ BuiltInOrder /\ HeldLive /\ SnapsLive
        /\ IsNode(node) /\ IsStack(SNAPSHOTS, node) /\ node.nextId \in Nat
    BY <1>3 DEF HandlesInv, StackInv, NodeOK, StackOK, IsNode
  <1> DEFINE e == end.sent
             own == end.own
  <1> HIDE DEF end, e
  <1>7. /\ node'.chain = node.chain \o e /\ node'.nextId = node.nextId + 1
        /\ DOMAIN node'.snaps = DOMAIN node.snaps \cup {node.nextId}
        /\ node'.snaps[node.nextId] = node'.chain
        /\ \A i \in DOMAIN node.snaps : node'.snaps[i] = node.snaps[i]
        /\ n1.nextId = node.nextId
    <2>1. node' = saveSnapshotAsync(EvmSend(node, e)) /\ n1 = EvmSend(node, e)
      BY <1>2 DEF e
    <2> HIDE DEF n1
    <2>2. IsNode(node) BY <1>6
    <2> QED BY <2>1, <2>2, SendAndSave
  <1> HIDE DEF n1
  <1>8. Built' = Built \cup {hook}
    BY <1>1, <1>3, SameHooks DEF Built, CachesOK
  <1>9. /\ handles' = [h \in Hooks |-> handles'[h]] /\ handles'[hook] = own
        /\ \A h \in Hooks : h # hook => handles'[h] = handles[h]
    <2>1. handles = [h \in Hooks |-> handles[h]] BY <1>6 DEF HookStateOK
    <2> HIDE DEF own
    <2>2. handles' = [handles EXCEPT ![hook] = own] BY <1>2 DEF own
    <2> QED BY <1>3, <2>1, <2>2
  <1>10. /\ snapshotId'[hook] = node.nextId /\ snapshotId' \in [Hooks -> Nat]
         /\ \A h \in Hooks : h # hook => /\ snapshotId'[h] = snapshotId[h]
                                         /\ snapshotId[h] \in Nat
                                         /\ snapshotId[h] < node.nextId
    BY <1>2, <1>3, <1>6, <1>7 DEF HookStateOK
  <1>11. \A h \in Snapped' : h # hook /\ h \in Snapped /\ snapshotId'[h] = snapshotId[h]
    BY <1>1, <1>7, <1>10, SameHooks DEF Snapped
  <1>12. /\ run'.phase = run.phase /\ Hooks' = Hooks /\ \A u : Around(u)' = Around(u)
         /\ DoneOK' /\ SnapsPlaced' /\ Held' \subseteq Held \cup {hook}
    <2>1. /\ Built \subseteq Built' /\ Built' \subseteq Built \cup {hook} /\ hook \in Built'
          /\ Snapped' \subseteq Snapped
      BY <1>8, <1>11
    <2>2. run.phase # "before" /\ run.phase # "afterEach" BY <1>3
    <2> QED BY <1>1, <1>3, <2>1, <2>2, HookOver
  <1>13. IsChain(node'.chain) /\ \A h : LiveIn(h, node.chain) => LiveIn(h, node'.chain)
    BY <1>5, <1>6, <1>7, ChainGrows DEF ChainsOK, e
  <1>14. ChainsOK'
    <2>1. /\ node.nextId # 0 /\ 0 \notin DOMAIN node.snaps
          /\ \A i \in DOMAIN node.snaps : IsChain(node.snaps[i])
      BY <1>6 DEF ChainsOK
    <2>2. node'.nextId # 0 BY <1>6, <1>7
    <2>3. 0 \notin DOMAIN node'.snaps BY <1>7, <2>1
    <2>4. \A i \in DOMAIN node'.snaps : IsChain(node'.snaps[i]) BY <1>7, <1>13, <2>1
    <2> QED BY <1>13, <2>2, <2>3, <2>4 DEF ChainsOK
  <1>15. HookStateOK'
    <2>1. \A h \in Hooks : h.kind = "snap" => handles'[h] = {}
      BY <1>1, <1>6, <1>9 DEF HookStateOK
    <2>2. \A h \in Hooks : snapshotId'[h] < node'.nextId
      BY <1>6, <1>7, <1>10
    <2> QED BY <1>9, <1>10, <1>12, <2>1, <2>2 DEF HookStateOK
  <1>16. BuiltInOrder'
    BY <1>1, <1>3, <1>6, <1>8, <1>12, LastCache DEF BuiltInOrder, Precedes
  <1>17. /\ \A h : Rank(h) \in Nat /\ Rank(h)' \in Nat /\ Rank(h) <= Rank(h)'
         /\ m + 1 <= Rank(hook)'
    BY <1>1, <1>3, <1>8, Ranks
  <1>18. /\ m \in Nat /\ Len(SNAPSHOTS') = m + 1 /\ SNAPSHOTS'[m + 1] = node.nextId
         /\ \A i \in 1..m : SNAPSHOTS'[i] = SNAPSHOTS[i] /\ SNAPSHOTS[i] \in DOMAIN node.snaps
    <2>1. SNAPSHOTS \in Seq(Nat) BY <1>6 DEF IsStack
    <2>2. SNAPSHOTS' = Append(SNAPSHOTS, node.nextId) BY <1>2, <1>7
    <2>3. /\ Len(SNAPSHOTS') = m + 1 /\ SNAPSHOTS'[m + 1] = node.nextId /\ m \in Nat
          /\ \A i \in 1..m : SNAPSHOTS'[i] = SNAPSHOTS[i]
      BY <2>1, <2>2, <1>6
    <2> QED BY <1>6, <2>3 DEF IsStack
  <1> HIDE DEF m
  <1>19. AllLive(hook, node.chain)'
    BY <1>5, <1>7, <1>9 DEF AllLive, e, own
  <1>20. ASSUME NEW h \in Held', h # hook
         PROVE h \in Held /\ handles'[h] = handles[h] /\ AllLive(h, node.chain)'
    <2>1. h \in Held /\ handles'[h] = handles[h]
      BY <1>9, <1>12, <1>20 DEF Held
    <2> QED BY <1>6, <1>13, <2>1 DEF HeldLive, AllLive
  <1>21. HeldLive'
    <2> SUFFICES ASSUME NEW h \in Held'
                 PROVE  /\ AllLive(h, node.chain)'
                        /\ h.kind # "each" => \A i \in 1..Len(SNAPSHOTS') :
                             Rank(h)' <= i => AllLive(h, Saved(SNAPSHOTS[i]))'
      BY DEF HeldLive
    <2>1. AllLive(h, node.chain)' BY <1>19, <1>20
    <2>2. ASSUME h.kind # "each", NEW i \in 1..Len(SNAPSHOTS'), Rank(h)' <= i
          PROVE AllLive(h, Saved(SNAPSHOTS[i]))'
      <3>1. CASE i = m + 1
        BY <1>7, <1>18, <2>1, <3>1 DEF AllLive, Saved
      <3>2. CASE i # m + 1
        <4>1. i \in 1..m BY <1>18, <2>2, <3>2
        <4>2. h # hook BY <1>17, <1>18, <2>2, <4>1
        <4>3. Rank(h) <= i BY <1>17, <1>18, <2>2, <4>1
        <4>4. AllLive(h, Saved(SNAPSHOTS[i]))
          BY <1>6, <1>20, <2>2, <4>1, <4>2, <4>3 DEF HeldLive, m
        <4> QED BY <1>7, <1>18, <1>20, <4>1, <4>2, <4>4 DEF AllLive, Saved
      <3> QED BY <3>1, <3>2
    <2> QED BY <2>1, <2>2
  <1>22. SnapsLive'
    <2> SUFFICES ASSUME NEW h \in Snapped', NEW b \in Held', b.kind = "before"
                 PROVE  AllLive(b, Saved(snapshotId[h]))'
      BY DEF SnapsLive
    <2>1. h \in Snapped /\ snapshotId'[h] = snapshotId[h] BY <1>11
    <2>2. snapshotId[h] \in DOMAIN node.snaps BY <2>1 DEF Snapped
    <2>3. b \in Held /\ handles'[b] = handles[b] BY <1>1, <1>20
    <2> QED BY <1>6, <1>7, <2>1, <2>2, <2>3 DEF SnapsLive, AllLive, Saved
  <1> QED BY <1>3, <1>12, <1>14, <1>15, <1>16, <1>21, <1>22 DEF HandlesInv, Running

\* A later test goes back to the snapshot on top: all that is held is in it.
LEMMA CacheRestoreKeeps ==
    ASSUME StackInv, HandlesInv, forest \in Forests, CachesOK, NEW hook \in NextHooks,
           CacheRestore(hook)
    PROVE  HandlesInv'
  <1> DEFINE n1 == EvmRevert(node, TopId)
  <1>1. /\ run.phase = "beforeEach" /\ run.phase \in Running /\ HookDone(hook)
        /\ hook.kind = "cache" /\ initialized[hook]
        /\ UNCHANGED <<forest, initialized, handles>>
    BY DEF CacheRestore, Running
  <1>2. /\ node' = saveSnapshotAsync(n1) /\ SNAPSHOTS' = Append(Popped, n1.nextId)
        /\ snapshotId' = [snapshotId EXCEPT ![hook] = n1.nextId]
    BY DEF CacheRestore, revertByIdAsync, SavedId
  <1>3. /\ hook \in Hooks /\ hook \in Built /\ hook.suite \in Around(run.at)
        /\ hook \in run.todo /\ run.at \in Suites
        /\ \A g \in run.todo \ {hook} : Precedes(hook, g)
    BY <1>1 DEF NextHooks, StackInv, RunOK, Built
  <1>4. /\ ChainsOK /\ HookStateOK /\ BuiltInOrder /\ HeldLive /\ SnapsLive /\ DoneOK
        /\ IsNode(node) /\ IsStack(SNAPSHOTS, node) /\ node.nextId \in Nat
    BY <1>1 DEF HandlesInv, StackInv, NodeOK, StackOK, IsNode
  <1>5. /\ Len(SNAPSHOTS) = Cardinality(BuiltIn(run.at)) /\ IsFiniteSet(BuiltIn(run.at))
        /\ Len(SNAPSHOTS) \in Nat /\ Len(SNAPSHOTS) # 0
    <2>1. Len(SNAPSHOTS) = Cardinality(BuiltIn(run.at)) /\ IsFiniteSet(BuiltIn(run.at))
      BY <1>1, Inside, FS_Subset DEF BuiltIn, CachesOK
    <2>2. hook \in BuiltIn(run.at) BY <1>3 DEF BuiltIn
    <2> QED BY <2>1, <2>2, FS_EmptySet, FS_CardinalityType
  <1>6. PICK m \in Nat :
          /\ Len(SNAPSHOTS) = m + 1 /\ Len(SNAPSHOTS') = m + 1
          /\ SNAPSHOTS'[m + 1] = n1.nextId
          /\ TopId = SNAPSHOTS[m + 1] /\ TopId \in DOMAIN node.snaps
          /\ \A i \in 1..m : /\ SNAPSHOTS'[i] = SNAPSHOTS[i] /\ SNAPSHOTS[i] < TopId
                             /\ SNAPSHOTS[i] \in DOMAIN node.snaps
    <2> DEFINE id == n1.nextId
    <2>1. id \in Nat BY <1>4, NodeFacts
    <2>2. SNAPSHOTS' = Append(Popped, id) BY <1>2
    <2> HIDE DEF id
    <2>3. \E m \in Nat :
            /\ Len(SNAPSHOTS) = m + 1 /\ Len(SNAPSHOTS') = m + 1
            /\ SNAPSHOTS'[m + 1] = id
            /\ TopId = SNAPSHOTS[m + 1] /\ TopId \in DOMAIN node.snaps
            /\ \A i \in 1..m : /\ SNAPSHOTS'[i] = SNAPSHOTS[i] /\ SNAPSHOTS[i] < TopId
                               /\ SNAPSHOTS[i] \in DOMAIN node.snaps
      BY <1>4, <1>5, <2>1, <2>2, TopReplaced
    <2> QED BY <2>3 DEF id
  <1>7. TopId \in DOMAIN node.snaps BY <1>6
  <1>8. /\ node'.chain = node.snaps[TopId] /\ node'.nextId = node.nextId + 1
        /\ DOMAIN node'.snaps = {i \in DOMAIN node.snaps : i < TopId} \cup {node.nextId}
        /\ node'.snaps[node.nextId] = node'.chain
        /\ \A i \in DOMAIN node.snaps : i < TopId => node'.snaps[i] = node.snaps[i]
        /\ n1.nextId = node.nextId
    BY <1>2, <1>4, <1>7, RevertAndSave
  <1> HIDE DEF n1
  <1>9. Built' = Built BY <1>1, SameHooks DEF Built
  <1>10. /\ snapshotId'[hook] = node.nextId /\ snapshotId' \in [Hooks -> Nat]
         /\ \A h \in Hooks : h # hook => /\ snapshotId'[h] = snapshotId[h]
                                         /\ snapshotId[h] \in Nat
                                         /\ snapshotId[h] < node.nextId
    BY <1>2, <1>3, <1>4, <1>8 DEF HookStateOK
  <1>11. \A h \in Snapped' : /\ h \in Snapped /\ snapshotId'[h] = snapshotId[h]
                             /\ node'.snaps[snapshotId[h]] = node.snaps[snapshotId[h]]
    BY <1>1, <1>8, <1>10, SameHooks DEF Snapped
  <1>12. /\ run'.phase = run.phase /\ Hooks' = Hooks /\ \A u : Around(u)' = Around(u)
         /\ DoneOK' /\ SnapsPlaced' /\ Held' \subseteq Held
    <2>1. hook \in Built' /\ Snapped' \subseteq Snapped BY <1>3, <1>9, <1>11
    <2>2. run.phase # "before" /\ run.phase # "afterEach" BY <1>1
    <2>3. /\ run'.phase = run.phase /\ Hooks' = Hooks /\ \A u : Around(u)' = Around(u)
          /\ DoneOK' /\ SnapsPlaced' /\ Held' \subseteq Held \cup {hook}
      BY <1>1, <1>9, <2>1, <2>2, HookOver
    <2>4. hook \in Held BY <1>1, <1>3 DEF Held, RanBy
    <2> QED BY <2>3, <2>4
  <1>13. ASSUME NEW h \in Held PROVE h.kind # "each" /\ AllLive(h, node.snaps[TopId])
    <2>1. h \in Hooks /\ h.suite \in Around(run.at) BY DEF Held, RanBy
    <2>2. h.kind # "each"
      <3> SUFFICES ASSUME h.kind = "each" PROVE FALSE OBVIOUS
      <3>1. h \notin run.todo BY <1>1 DEF Held, RanBy, CachesOK
      <3>2. h \in BeforeEachHooks(run.at)
        BY <1>3, <2>1, AroundFacts, HooksOfFacts DEF BeforeEachHooks, HookKinds
      <3>3. Precedes(h, hook) BY <1>1, <1>3, <1>4, <3>1, <3>2 DEF DoneOK, InTest
      <3>4. Precedes(hook, h) BY <1>1, <1>3, <2>1, SpecOrder
      <3> QED BY <1>3, <2>1, <3>3, <3>4, HookOrder
    <2>3. Rank(h) <= m + 1 /\ m + 1 \in 1..Len(SNAPSHOTS)
      BY <1>1, <1>6, <2>1, RankOnStack
    <2> QED BY <1>4, <1>6, <2>2, <2>3 DEF HeldLive, Saved
  <1>14. ChainsOK'
    <2>1. /\ node.nextId # 0 /\ 0 \notin DOMAIN node.snaps
          /\ \A i \in DOMAIN node.snaps : IsChain(node.snaps[i])
      BY <1>4 DEF ChainsOK
    <2>2. node'.nextId # 0 BY <1>4, <1>8
    <2>3. 0 \notin DOMAIN node'.snaps BY <1>8, <2>1
    <2>4. IsChain(node'.chain) BY <1>7, <1>8, <2>1
    <2>5. \A i \in DOMAIN node'.snaps : IsChain(node'.snaps[i])
      <3> SUFFICES ASSUME NEW i \in DOMAIN node'.snaps PROVE IsChain(node'.snaps[i])
        OBVIOUS
      <3> QED BY <1>8, <2>1, <2>4
    <2> QED BY <2>2, <2>3, <2>4, <2>5 DEF ChainsOK
  <1>15. HookStateOK'
    <2>1. \A h \in Hooks : snapshotId'[h] < node'.nextId
      BY <1>4, <1>8, <1>10
    <2> QED BY <1>1, <1>4, <1>10, <1>12, <2>1 DEF HookStateOK
  <1>16. BuiltInOrder' BY <1>4, <1>9, <1>12 DEF BuiltInOrder
  <1>17. \A h : Rank(h)' = Rank(h) BY <1>9, <1>12 DEF Rank
  <1>18. /\ Len(SNAPSHOTS') = m + 1 /\ SNAPSHOTS'[m + 1] = node.nextId
         /\ \A i \in 1..m : SNAPSHOTS'[i] = SNAPSHOTS[i]
    BY <1>6, <1>8
  <1>19. HeldLive'
    <2> SUFFICES ASSUME NEW h \in Held'
                 PROVE  /\ AllLive(h, node.chain)'
                        /\ h.kind # "each" => \A i \in 1..Len(SNAPSHOTS') :
                             Rank(h)' <= i => AllLive(h, Saved(SNAPSHOTS[i]))'
      BY DEF HeldLive
    <2>1. h \in Held BY <1>12
    <2>2. AllLive(h, node.chain)' BY <1>1, <1>8, <1>13, <2>1 DEF AllLive
    <2>3. ASSUME NEW i \in 1..Len(SNAPSHOTS'), Rank(h)' <= i
          PROVE AllLive(h, Saved(SNAPSHOTS[i]))'
      <3>1. CASE i = m + 1
        BY <1>8, <1>18, <2>2, <3>1 DEF AllLive, Saved
      <3>2. CASE i # m + 1
        <4>1. i \in 1..m /\ i \in 1..Len(SNAPSHOTS) BY <1>6, <1>18, <3>2
        <4>2. h.kind # "each" BY <1>13, <2>1
        <4>3. AllLive(h, Saved(SNAPSHOTS[i]))
          BY <1>4, <1>17, <2>1, <2>3, <4>1, <4>2 DEF HeldLive
        <4> QED BY <1>1, <1>6, <1>8, <4>1, <4>3 DEF AllLive, Saved
      <3> QED BY <3>1, <3>2
    <2> QED BY <2>2, <2>3
  <1>20. SnapsLive'
    BY <1>1, <1>4, <1>11, <1>12 DEF SnapsLive, AllLive, Saved
  <1> QED BY <1>1, <1>12, <1>14, <1>15, <1>16, <1>19, <1>20 DEF HandlesInv, Running

-----------------------------------------------------------------------------
\* Every step of a session keeps what is held alive.
LEMMA SessionKeepsHandles ==
    ASSUME StackInv, HandlesInv, run.phase # "off", SessionStep
    PROVE  HandlesInv'
  <1>1. forest \in Forests /\ CachesOK BY DEF StackInv
  <1>2. CASE Load BY <1>1, <1>2, LoadKeeps
  <1>3. CASE Advance
    <2>1. /\ run.phase \in {"before", "beforeEach", "afterEach", "after"} /\ run.todo = {}
          /\ UNCHANGED <<forest, initialized, SNAPSHOTS, snapshotId, node, handles>>
          /\ run.phase = "before" => run' = AfterTest(run.at, 0, 0)
          /\ run.phase = "beforeEach" => run' = [run EXCEPT !.phase = "body"]
          /\ run.phase = "afterEach" => run' = AfterTest(run.at, run.test, run.failed)
          /\ run.phase = "after" => run' = AfterSuite(run.at, run.failed)
      BY <1>3 DEF Advance
    <2>2. CASE run.phase = "before" BY <1>1, <2>1, <2>2, AfterTestMoves
    <2>3. CASE run.phase = "beforeEach" BY <1>1, <2>1, <2>3, TestStarts
    <2>4. CASE run.phase = "afterEach" BY <1>1, <2>1, <2>4, AfterTestMoves
    <2>5. CASE run.phase = "after" BY <1>1, <2>1, <2>5, AfterSuiteMoves
    <2> QED BY <2>1, <2>2, <2>3, <2>4, <2>5
  <1>4. CASE Hook
    BY <1>1, <1>4, PlainHookKeeps, CacheInitializeKeeps, CacheRestoreKeeps, CacheAfterKeeps,
       SnapSaveKeeps, SnapRestoreKeeps DEF Hook
  <1>5. CASE \E hook \in NextHooks : HookThrows(hook)
    BY <1>1, <1>5, HookThrowsMoves
  <1>6. CASE RunTest BY <1>1, <1>6, RunTestMoves
  <1>7. CASE Kill BY <1>1, <1>7, StartsKnowing DEF Kill
  <1> QED BY <1>2, <1>3, <1>4, <1>5, <1>6, <1>7 DEF SessionStep

\* Typechain touches no session, and a session keeps what is held alive.
LEMMA ToolchainKeepsHandles == ToolSpec => []HandlesInv
  <1>1. ToolInit => HandlesInv
    <2> SUFFICES ASSUME ToolInit PROVE HandlesInv OBVIOUS
    <2>1. node = [chain |-> <<>>, snaps |-> <<>>, nextId |-> 1] BY DEF ToolInit, NewNode
    <2>2. run.phase = "off" BY DEF ToolInit, Ended
    <2>3. <<>> \in Seq(Nat) OBVIOUS
    <2>4. ChainsOK BY <2>1, <2>3 DEF ChainsOK, IsChain
    <2> QED BY <2>2, <2>4 DEF HandlesInv, Running
  <1>2. StackInv /\ HandlesInv /\ [ToolNext]_toolVars => HandlesInv'
    <2> SUFFICES ASSUME StackInv, HandlesInv, [ToolNext]_toolVars PROVE HandlesInv'
      OBVIOUS
    <2>1. CASE UNCHANGED sessionVars
      <3>1. UNCHANGED <<forest, run, node, SNAPSHOTS, initialized, snapshotId, handles>>
        BY <2>1 DEF sessionVars
      <3>2. /\ Hooks' = Hooks /\ \A u : Around(u)' = Around(u)
            /\ \A u : BeforeEachHooks(u)' = BeforeEachHooks(u)
        BY <3>1, SameHooks
      <3>3. Built' = Built /\ Held' = Held /\ Snapped' = Snapped
        BY <3>1, <3>2 DEF Built, Held, RanBy, InTest, Snapped
      <3>4. \A h : Rank(h)' = Rank(h) BY <3>2, <3>3 DEF Rank
      <3>5. HeldLive' = HeldLive /\ SnapsLive' = SnapsLive
        BY <3>1, <3>3, <3>4 DEF HeldLive, SnapsLive, AllLive, Saved
      <3>6. DoneOK' = DoneOK /\ SnapsPlaced' = SnapsPlaced /\ BuiltInOrder' = BuiltInOrder
        BY <3>1, <3>2, <3>3 DEF DoneOK, SnapsPlaced, BuiltInOrder, InTest, RanBy
      <3>7. ChainsOK' = ChainsOK /\ HookStateOK' = HookStateOK
        BY <3>1, <3>2 DEF ChainsOK, HookStateOK
      <3> QED BY <3>1, <3>2, <3>5, <3>6, <3>7 DEF HandlesInv
    <2>2. CASE Test
      BY <2>2, StartsKnowing DEF Test
    <2>3. CASE SessionStep /\ run.phase # "off"
      BY <2>3, SessionKeepsHandles
    <2>4. SessionStep => run.phase # "off"
      BY DEF SessionStep, Load, Advance, Hook, PlainHook, CacheInitialize, CacheRestore,
             CacheAfter, SnapSave, SnapRestore, HookThrows, Deploying, RunTest, Kill
    <2> QED BY <2>1, <2>2, <2>3, <2>4 DEF ToolNext, Build, toolVars
  <1> QED BY <1>1, <1>2, ToolchainKeepsStack, PTL DEF ToolSpec

\* When a test starts, every handle that the hooks around it hold points at a
\* contract of its kind, which points at contracts of the kinds it was deployed
\* with: although cacheBeforeEach and addSnapshotBeforeRestoreAfterEach take the
\* chain back again and again and addresses are given anew, hooks throw halfway
\* and processes are killed.
THEOREM SandboxHandlesLive == ToolSpec => []HandlesLive
  <1>1. StackInv /\ HandlesInv => HandlesLive
    <2> SUFFICES ASSUME StackInv, HandlesInv, run.phase = "body", NEW x \in InScope(run.at)
                 PROVE  LiveIn(x, node.chain)
      BY DEF HandlesLive, LiveIn
    <2>1. /\ forest \in Forests /\ run.phase \in Running /\ run.at \in Suites
          /\ HookStateOK /\ DoneOK /\ HeldLive
      BY DEF StackInv, RunOK, HandlesInv, Running
    <2>2. PICK h \in HooksOf(Around(run.at), HookKinds) : x \in handles[h]
      BY DEF InScope
    <2>3. h \in Hooks /\ h.suite \in Around(run.at) /\ h.kind \in HookKinds
      BY <2>1, <2>2, AroundFacts, HooksOfFacts
    <2>4. h.kind # "snap" BY <2>1, <2>2, <2>3 DEF HookStateOK
    <2>5. h.kind = "cache" => h \in Built
      <3>1. h.kind = "cache" => h \in BeforeEachHooks(run.at)
        BY <2>1, <2>3, AroundFacts, HooksOfFacts DEF BeforeEachHooks, HookKinds
      <3> QED BY <2>1, <3>1 DEF DoneOK, InTest
    <2>6. h \in Held
      BY <2>1, <2>3, <2>4, <2>5 DEF Held, RanBy, InTest, HookKinds
    <2> QED BY <2>1, <2>2, <2>6 DEF HeldLive, AllLive
  <1> QED BY <1>1, ToolchainKeepsStack, ToolchainKeepsHandles, PTL
-----------------------------------------------------------------------------
(***************************************************************************)
(* What a test finds: the world that the sandbox around it saved and what   *)
(* was deployed for this very test.                                         *)
(***************************************************************************)

\* Beyond chain c there is only what hooks deployed since this test began.
AddedSince(c) ==
    \A i \in (Len(c) + 1)..Len(node.chain) :
      \E h \in Hooks : /\ h.kind = "each" /\ h.suite \in Around(run.at) /\ h \notin run.todo
                       /\ \E x \in handles[h] : x.addr = i

BuiltOK == built = [h \in Hooks |-> built[h]] /\ \A h \in Hooks : IsChain(built[h])

\* The snapshot of a cache on the stack is what its initializer left, also after
\* it was restored and saved anew.
SavedBuilt ==
    \A h \in Held \cap Built :
      Rank(h) \in 1..Len(SNAPSHOTS) => Saved(SNAPSHOTS[Rank(h)]) = built[h]

\* The hooks of a kind that have run for this test, and the last of some.
Ran(kind) == {h \in BeforeEachHooks(run.at) \ run.todo : h.kind = kind}
IsLast(h, S) == h \in S /\ \A g \in S : ~Precedes(h, g)

\* From the first hook of a sandbox on the chain is that of the last sandbox, with
\* what was added for this test.
WorldOK ==
    InTest =>
      /\ Ran("cache") # {} => \A h \in Hooks : IsLast(h, BuiltIn(run.at)) => AddedSince(built[h])
      /\ \A h \in Hooks : IsLast(h, Ran("snap")) => AddedSince(built[h])

LeftInv ==
    /\ run.phase = "loaded" => BuiltOK
    /\ run.phase \in Running => BuiltOK /\ SavedBuilt /\ WorldOK

-----------------------------------------------------------------------------
\* A chain has nothing beyond itself.
LEMMA NothingBeyond ==
    ASSUME NEW c, IsChain(c) PROVE (Len(c) + 1)..Len(c) = {}
  <1>1. Len(c) \in Nat BY ChainAppends
  <1> QED BY <1>1

\* Mocha moves on: no hook of a test has run yet.
LEMMA MovesLeave ==
    ASSUME LeftInv, run.phase \in Running, Settles,
           UNCHANGED <<forest, initialized, SNAPSHOTS, built>>, node'.snaps = node.snaps
    PROVE  LeftInv'
  <1>1. /\ Hooks' = Hooks /\ Built' = Built /\ \A u : Around(u)' = Around(u)
    BY SameHooks DEF Built
  <1>2. BuiltOK' BY <1>1 DEF LeftInv, BuiltOK
  <1>3. ASSUME run'.phase \in Running PROVE SavedBuilt' /\ WorldOK'
    <2>1. \A h : Rank(h)' = Rank(h) BY <1>1 DEF Rank
    <2>2. SavedBuilt'
      BY <1>1, <1>3, <2>1 DEF LeftInv, SavedBuilt, Settles, Saved
    <2>3. InTest' => \A kind : Ran(kind)' = {}
      BY <1>3 DEF Settles, Ran
    <2>4. WorldOK' BY <2>3 DEF WorldOK, IsLast
    <2> QED BY <2>2, <2>4
  <1> QED BY <1>2, <1>3 DEF LeftInv

\* The hooks before a test are done: the test starts.
LEMMA TestStartsLeave ==
    ASSUME StackInv, LeftInv, run.phase = "beforeEach", run.todo = {},
           run' = [run EXCEPT !.phase = "body"],
           UNCHANGED <<forest, initialized, SNAPSHOTS, node, handles, built>>
    PROVE  LeftInv'
  <1>1. run'.phase = "body" /\ run'.at = run.at /\ run'.todo = run.todo
    BY DEF StackInv, RunOK
  <1>2. /\ Hooks' = Hooks /\ Built' = Built
        /\ \A u : Around(u)' = Around(u) /\ BeforeEachHooks(u)' = BeforeEachHooks(u)
    BY SameHooks DEF Built
  <1>3. Held' = Held BY <1>1, <1>2 DEF Held, RanBy, InTest
  <1>4. \A h : Rank(h)' = Rank(h) BY <1>2 DEF Rank
  <1>5. BuiltOK /\ SavedBuilt /\ WorldOK BY DEF LeftInv, Running
  <1>6. BuiltOK' /\ SavedBuilt'
    BY <1>2, <1>3, <1>4, <1>5 DEF BuiltOK, SavedBuilt, Saved
  <1>7. WorldOK'
    <2>1. \A c : AddedSince(c)' = AddedSince(c) BY <1>1, <1>2 DEF AddedSince
    <2>2. \A kind : Ran(kind)' = Ran(kind) BY <1>1, <1>2 DEF Ran
    <2>3. BuiltIn(run.at)' = BuiltIn(run.at) BY <1>1, <1>2 DEF BuiltIn
    <2> QED BY <1>2, <1>5, <2>1, <2>2, <2>3 DEF WorldOK, IsLast, InTest, Precedes
  <1> QED BY <1>1, <1>6, <1>7 DEF LeftInv

\* A before or beforeEach hook of a spec: what it added it has a handle to.
LEMMA PlainHookLeaves ==
    ASSUME StackInv, HandlesInv, LeftInv, forest \in Forests, CachesOK,
           NEW hook \in NextHooks, PlainHook(hook)
    PROVE  LeftInv'
  <1>1. Deploying(hook) /\ HookDone(hook) /\ hook.kind # "cache"
        /\ UNCHANGED <<forest, initialized, SNAPSHOTS, snapshotId, built>>
    BY DEF PlainHook
  <1>2. /\ run.phase \in {"before", "beforeEach"} /\ run.phase \in Running
        /\ hook \in Hooks /\ hook \in run.todo /\ hook.suite \in Around(run.at)
        /\ run.phase = "beforeEach" => hook.kind = "each"
    BY <1>1, AtWork
  <1> DEFINE end == AllDeployed(hook)
  <1>3. node' = EvmSend(node, end.sent) /\ handles' = [handles EXCEPT ![hook] = end.own]
    BY DEF PlainHook
  <1>4. DeployedOK(end, hook)
    BY <1>1, <1>2, FoundLive, DeploymentsLive DEF HandlesInv, ChainsOK
  <1>5. /\ BuiltOK /\ SavedBuilt /\ WorldOK /\ IsNode(node) /\ IsChain(node.chain)
        /\ handles = [h \in Hooks |-> handles[h]]
    BY <1>2 DEF LeftInv, HandlesInv, ChainsOK, HookStateOK, StackInv, NodeOK
  <1> HIDE DEF end
  <1>6. node'.chain = node.chain \o end.sent /\ node'.snaps = node.snaps
    <2>1. node'.snaps = node.snaps BY <1>3, <1>5, NodeFacts
    <2>2. \A e : EvmSend(node, e).chain = node.chain \o e BY <1>5, NodeChains
    <2> QED BY <1>3, <2>1, <2>2
  <1>7. /\ Len(node'.chain) = Len(node.chain) + Len(end.sent)
        /\ Len(node.chain) \in Nat /\ Len(end.sent) \in Nat
        /\ \A j \in 1..Len(end.sent) : \E x \in end.own : x.addr = Len(node.chain) + j
    BY <1>4, <1>5, <1>6, ChainGrows DEF DeployedOK
  <1>8. Built' = Built BY <1>1, SameHooks DEF Built
  <1>9. /\ run'.phase = run.phase /\ run'.at = run.at /\ run'.todo = run.todo \ {hook}
        /\ Hooks' = Hooks /\ \A u : Around(u)' = Around(u) /\ Held' \subseteq Held \cup {hook}
    BY <1>1, <1>2, <1>8, HookOver
  <1>10. /\ handles'[hook] = end.own
         /\ \A h \in Hooks : h # hook => handles'[h] = handles[h]
    BY <1>2, <1>3, <1>5
  <1>11. BuiltOK' BY <1>1, <1>5, <1>9 DEF BuiltOK
  <1>12. SavedBuilt'
    <2>1. \A h : Rank(h)' = Rank(h) BY <1>8, <1>9 DEF Rank
    <2>2. \A h \in Held' \cap Built' : h \in Held \cap Built
      BY <1>1, <1>8, <1>9 DEF CachesOK
    <2> QED BY <1>1, <1>5, <1>6, <2>1, <2>2 DEF SavedBuilt, Saved
  <1>13. CASE run.phase = "before"
    BY <1>9, <1>11, <1>12, <1>13 DEF LeftInv, WorldOK, InTest
  <1>14. CASE run.phase = "beforeEach"
    <2>1. ASSUME NEW h \in Hooks, AddedSince(built[h]) PROVE AddedSince(built[h])'
      <3> DEFINE c == built[h]
      <3> SUFFICES ASSUME NEW i \in (Len(c) + 1)..Len(node'.chain)
                   PROVE  \E g \in Hooks : /\ g.kind = "each" /\ g.suite \in Around(run.at)
                                           /\ g \notin run.todo \ {hook}
                                           /\ \E x \in handles'[g] : x.addr = i
        BY <1>1, <1>9 DEF AddedSince
      <3>1. Len(c) \in Nat BY <1>5, ChainAppends DEF BuiltOK
      <3> HIDE DEF c
      <3>2. CASE i \in (Len(c) + 1)..Len(node.chain)
        <4>1. PICK g \in Hooks : /\ g.kind = "each" /\ g.suite \in Around(run.at)
                                 /\ g \notin run.todo /\ \E x \in handles[g] : x.addr = i
          BY <2>1, <3>2 DEF AddedSince, c
        <4> QED BY <1>2, <1>10, <4>1
      <3>3. CASE i \notin (Len(c) + 1)..Len(node.chain)
        <4> DEFINE k == Len(c)
                   l == Len(node.chain)
                   m == Len(end.sent)
                   j == i - l
        <4>1. /\ k \in Nat /\ l \in Nat /\ m \in Nat /\ i \in (k + 1)..(l + m)
              /\ i \notin (k + 1)..l
          BY <1>7, <3>1, <3>3
        <4>2. \A n \in 1..m : \E x \in end.own : x.addr = l + n BY <1>7
        <4> HIDE DEF k, l, m
        <4>3. j \in 1..m /\ l + j = i BY <4>1
        <4>4. \E x \in end.own : x.addr = i BY <4>2, <4>3
        <4> QED BY <1>2, <1>10, <1>14, <4>4
      <3> QED BY <3>2, <3>3
    <2>2. Ran("cache")' = Ran("cache") /\ Ran("snap")' = Ran("snap")
      <3>1. BeforeEachHooks(run.at)' = BeforeEachHooks(run.at)
        BY <1>1, <1>9, SameHooks
      <3> QED BY <1>2, <1>9, <1>14, <3>1 DEF Ran
    <2>3. BuiltIn(run.at)' = BuiltIn(run.at) BY <1>8, <1>9 DEF BuiltIn
    <2>4. WorldOK'
      BY <1>5, <1>9, <1>14, <2>1, <2>2, <2>3 DEF WorldOK, IsLast, InTest, Precedes
    <2> QED BY <1>9, <1>11, <1>12, <1>14, <2>4 DEF LeftInv
  <1> QED BY <1>2, <1>13, <1>14

\* The after hook of a cache.
LEMMA CacheAfterLeaves ==
    ASSUME StackInv, HandlesInv, LeftInv, forest \in Forests, CachesOK,
           NEW hook \in NextHooks, CacheAfter(hook)
    PROVE  LeftInv'
  <1>1. /\ run.phase = "after" /\ run.phase \in Running /\ HookDone(hook)
        /\ SNAPSHOTS' \in {Popped, SNAPSHOTS}
        /\ UNCHANGED <<forest, node, initialized, snapshotId, handles, built>>
    BY DEF CacheAfter, Running
  <1>2. Built' = Built /\ Snapped' = Snapped BY <1>1, SameHooks DEF Built, Snapped
  <1>3. /\ run'.phase = run.phase /\ run'.at = run.at
        /\ Hooks' = Hooks /\ \A u : Around(u)' = Around(u)
    BY <1>1, <1>2, HookOver
  <1>4. Held' = Held BY <1>1, <1>2, <1>3 DEF Held, RanBy, InTest
  <1>5. \A i \in 1..Len(SNAPSHOTS') : i \in 1..Len(SNAPSHOTS) /\ SNAPSHOTS'[i] = SNAPSHOTS[i]
    BY <1>1, PoppedIsPrefix DEF StackInv, StackOK, IsStack
  <1>6. \A h : Rank(h)' = Rank(h) BY <1>2, <1>3 DEF Rank
  <1>7. BuiltOK' /\ SavedBuilt'
    BY <1>1, <1>2, <1>3, <1>4, <1>5, <1>6 DEF LeftInv, BuiltOK, SavedBuilt, Saved
  <1> QED BY <1>1, <1>3, <1>7 DEF LeftInv, WorldOK, InTest

\* The first suite of a session, or none.
LEMMA LoadLeaves ==
    ASSUME LeftInv, CachesOK, Load
    PROVE  LeftInv'
  <1>1. /\ run.phase = "loaded" /\ UNCHANGED <<forest, initialized, built>>
        /\ run' = IF Visited(0) = {} THEN Ended ELSE Enter(First(Visited(0)))
    BY DEF Load
  <1>2. run'.phase \in {"ended", "before"} BY <1>1 DEF Ended, Enter
  <1>3. Hooks' = Hooks /\ Built' = {} BY <1>1, SameHooks DEF CachesOK, Built
  <1> QED BY <1>1, <1>2, <1>3 DEF LeftInv, BuiltOK, SavedBuilt, WorldOK, InTest, Running

\* A process has saved nothing when it starts.
LEMMA StartsLeave ==
    ASSUME NEW f \in Forests, StartSession(f), run' = [Ended EXCEPT !.phase = "loaded"]
    PROVE  LeftInv'
  <1>1. built' = [hook \in Hooks' |-> <<>>] /\ run'.phase = "loaded"
    BY DEF StartSession, Ended
  <1>2. IsChain(<<>>)
    <2>1. <<>> \in Seq({}) OBVIOUS
    <2> QED BY <2>1 DEF IsChain
  <1> QED BY <1>1, <1>2 DEF LeftInv, BuiltOK, Running

\* The other sandbox saves what there is before a test ...
LEMMA SnapSaveLeaves ==
    ASSUME StackInv, HandlesInv, LeftInv, HandlesInv', forest \in Forests, CachesOK,
           NEW hook \in NextHooks, SnapSave(hook)
    PROVE  LeftInv'
  <1>1. /\ run.phase = "beforeEach" /\ run.phase \in Running \ {"after"} /\ HookDone(hook)
        /\ hook.kind = "snap" /\ node' = saveSnapshotAsync(node)
        /\ built' = [built EXCEPT ![hook] = node.chain]
        /\ UNCHANGED <<forest, SNAPSHOTS, initialized, handles>>
    BY DEF SnapSave, Running
  <1>2. /\ hook \in Hooks /\ hook \in run.todo /\ hook.suite \in Around(run.at)
        /\ run.at \in Suites /\ BuiltOK /\ DoneOK /\ IsNode(node)
    BY <1>1 DEF NextHooks, StackInv, NodeOK, RunOK, LeftInv, HandlesInv
  <1>3. node'.chain = node.chain /\ IsChain(node'.chain)
    BY <1>1, <1>2, NodeChains DEF HandlesInv, ChainsOK
  <1>4. Built' = Built BY <1>1, SameHooks DEF Built
  <1>5. /\ run'.phase = run.phase /\ run'.at = run.at /\ run'.todo = run.todo \ {hook}
        /\ Hooks' = Hooks /\ \A u : Around(u)' = Around(u)
    BY <1>1, <1>4, HookOver
  <1>6. /\ built' = [h \in Hooks |-> built'[h]] /\ built'[hook] = node'.chain
        /\ \A h \in Hooks : h # hook => built'[h] = built[h]
    BY <1>1, <1>2, <1>3 DEF BuiltOK
  <1>7. BuiltOK' BY <1>2, <1>3, <1>5, <1>6 DEF BuiltOK
  <1>8. SavedBuilt'
    <2>1. Len(SNAPSHOTS') = 0 BY <1>1, <1>2, NoCacheAround
    <2> QED BY <2>1 DEF SavedBuilt
  <1>9. BeforeEachHooks(run.at)' = BeforeEachHooks(run.at)
        /\ BeforeEachHooks(run.at) \subseteq Hooks
        /\ \A h \in BeforeEachHooks(run.at) : h.suite \in Around(run.at)
    <2>1. BeforeEachHooks(run.at)
            = {h \in Hooks : h.suite \in Around(run.at) /\ h.kind \in {"each", "cache", "snap"}}
      BY <1>2, AroundFacts, HooksOfFacts DEF BeforeEachHooks, HookKinds
    <2> QED BY <1>1, <1>5, <2>1, SameHooks
  <1>10. Ran("cache")' = {}
    BY <1>1, <1>2, <1>5, <1>9, OneKind DEF Ran
  <1>11. \A h \in Ran("snap")' : h = hook \/ Precedes(h, hook)
    BY <1>1, <1>2, <1>5, <1>9 DEF Ran, DoneOK, InTest
  <1>12. hook \in Ran("snap")'
    <2>1. hook \in BeforeEachHooks(run.at) BY <1>1, <1>2 DEF DoneOK, InTest
    <2> QED BY <1>1, <1>5, <1>9, <2>1 DEF Ran
  <1>13. AddedSince(node.chain)' BY <1>3, NothingBeyond DEF AddedSince
  <1>14. WorldOK'
    BY <1>6, <1>10, <1>11, <1>12, <1>13 DEF WorldOK, IsLast, Precedes
  <1> QED BY <1>1, <1>5, <1>7, <1>8, <1>14 DEF LeftInv

\* ... and goes back to it after the test.
LEMMA SnapRestoreLeaves ==
    ASSUME StackInv, HandlesInv, LeftInv, forest \in Forests, CachesOK,
           NEW hook \in NextHooks, SnapRestore(hook)
    PROVE  LeftInv'
  <1>1. /\ run.phase = "afterEach" /\ run.phase \in Running \ {"after"} /\ HookDone(hook)
        /\ hook.kind = "snap" /\ UNCHANGED <<forest, SNAPSHOTS, initialized, built>>
    BY DEF SnapRestore, Running
  <1>2. hook \in run.todo BY <1>1 DEF NextHooks
  <1>3. Len(SNAPSHOTS') = 0 BY <1>1, <1>2, NoCacheAround
  <1>4. Built' = Built BY <1>1, SameHooks DEF Built
  <1>5. run'.phase = run.phase /\ Hooks' = Hooks BY <1>1, <1>4, HookOver
  <1>6. BuiltOK' BY <1>1, <1>5 DEF LeftInv, BuiltOK
  <1> QED BY <1>1, <1>3, <1>5, <1>6 DEF LeftInv, SavedBuilt, WorldOK, InTest

\* A cache saves what its initializer left, on top of what is saved already.
LEMMA CacheInitializeLeaves ==
    ASSUME StackInv, HandlesInv, LeftInv, HandlesInv', forest \in Forests, CachesOK,
           NEW hook \in NextHooks, CacheInitialize(hook)
    PROVE  LeftInv'
  <1> DEFINE e == AllDeployed(hook).sent
             m == Len(SNAPSHOTS)
  <1>1. /\ Deploying(hook) /\ HookDone(hook) /\ hook.kind = "cache"
        /\ initialized' = [initialized EXCEPT ![hook] = TRUE]
        /\ UNCHANGED forest
    BY DEF CacheInitialize
  <1>2. /\ SNAPSHOTS' = Append(SNAPSHOTS, EvmSend(node, e).nextId)
        /\ node' = saveSnapshotAsync(EvmSend(node, e))
        /\ built' = [built EXCEPT ![hook] = EvmSend(node, e).chain]
    BY DEF CacheInitialize, SavedId
  <1> HIDE DEF e
  <1>3. /\ run.phase = "beforeEach" /\ run.phase \in Running \ {"after"}
        /\ hook \in Hooks /\ hook \notin Held /\ hook \notin Built
        /\ hook.suite \in Around(run.at) /\ run.at \in Suites
    BY <1>1, AtWork
  <1>4. /\ BuiltOK /\ SavedBuilt /\ IsNode(node) /\ IsStack(SNAPSHOTS, node)
        /\ node.nextId \in Nat /\ IsChain(node'.chain)
    BY <1>3 DEF LeftInv, HandlesInv, ChainsOK, StackInv, NodeOK, StackOK, IsNode
  <1>5. /\ node'.snaps[node.nextId] = node'.chain
        /\ \A i \in DOMAIN node.snaps : node'.snaps[i] = node.snaps[i]
        /\ EvmSend(node, e).nextId = node.nextId
        /\ EvmSend(node, e).chain = node'.chain
    BY <1>2, <1>4, SendAndSave
  <1>6. Built' = Built \cup {hook}
    BY <1>1, <1>3, SameHooks DEF Built, CachesOK
  <1>7. /\ run'.phase = run.phase /\ run'.at = run.at
        /\ Hooks' = Hooks /\ \A u : Around(u)' = Around(u) /\ Held' \subseteq Held \cup {hook}
    BY <1>1, <1>3, <1>6, HookOver
  <1>8. /\ built' = [h \in Hooks |-> built'[h]] /\ built'[hook] = node'.chain
        /\ \A h \in Hooks : h # hook => built'[h] = built[h]
    BY <1>2, <1>3, <1>4, <1>5 DEF BuiltOK
  <1>9. BuiltOK' BY <1>4, <1>7, <1>8 DEF BuiltOK
  <1>10. /\ m \in Nat /\ Len(SNAPSHOTS') = m + 1 /\ SNAPSHOTS'[m + 1] = node.nextId
         /\ \A i \in 1..m : SNAPSHOTS'[i] = SNAPSHOTS[i] /\ SNAPSHOTS[i] \in DOMAIN node.snaps
    <2>1. SNAPSHOTS \in Seq(Nat) BY <1>4 DEF IsStack
    <2>2. SNAPSHOTS' = Append(SNAPSHOTS, node.nextId) BY <1>2, <1>5
    <2>3. /\ Len(SNAPSHOTS') = m + 1 /\ SNAPSHOTS'[m + 1] = node.nextId /\ m \in Nat
          /\ \A i \in 1..m : SNAPSHOTS'[i] = SNAPSHOTS[i]
      BY <1>4, <2>1, <2>2
    <2> QED BY <1>4, <2>3 DEF IsStack
  <1>11. \A g \in BuiltIn(run.at) : Precedes(g, hook) /\ ~Precedes(hook, g)
    BY <1>1, <1>3, LastCache, HookOrder DEF BuiltIn, Built
  <1>12. m + 1 <= Rank(hook)' /\ Rank(hook)' \in Nat
    BY <1>1, <1>3, <1>6, Ranks
  <1>13. ASSUME NEW h \in BuiltIn(run.at)
         PROVE  Rank(h)' = Rank(h) /\ Rank(h) \in Nat /\ Rank(h) <= m
    <2>1. h \in Hooks /\ h.suite \in Around(run.at) /\ Precedes(h, hook)
      BY <1>11 DEF BuiltIn, Built
    <2>2. Rank(h)' = Rank(h) BY <1>6, <1>7, <2>1 DEF Rank, Precedes
    <2> QED BY <1>3, <2>1, <2>2, RankOnStack
  <1> HIDE DEF m
  <1>14. SavedBuilt'
    <2> SUFFICES ASSUME NEW h \in Held', h \in Built', Rank(h)' \in 1..Len(SNAPSHOTS')
                 PROVE  node'.snaps[SNAPSHOTS'[Rank(h)']] = built'[h]
      BY DEF SavedBuilt, Saved
    <2>1. CASE h = hook
      <3>1. Rank(h)' = m + 1 BY <1>10, <1>12, <2>1
      <3> QED BY <1>5, <1>8, <1>10, <2>1, <3>1
    <2>2. CASE h # hook
      <3>1. h \in Held /\ h \in BuiltIn(run.at) /\ h \in Hooks
        BY <1>3, <1>6, <1>7, <2>2 DEF Held, RanBy, BuiltIn
      <3>2. Rank(h)' = Rank(h) /\ Rank(h) \in 1..m BY <1>10, <1>13, <3>1
      <3>3. node.snaps[SNAPSHOTS[Rank(h)]] = built[h]
        BY <1>4, <1>6, <2>2, <3>1, <3>2 DEF SavedBuilt, Saved, m, BuiltIn
      <3> QED BY <1>5, <1>8, <1>10, <2>2, <3>1, <3>2, <3>3
    <2> QED BY <2>1, <2>2
  <1>15. BuiltIn(run.at)' = BuiltIn(run.at) \cup {hook}
    BY <1>3, <1>6, <1>7 DEF BuiltIn
  <1>16. \A h \in Hooks : IsLast(h, BuiltIn(run.at))' => h = hook
    BY <1>11, <1>15 DEF IsLast, Precedes
  <1>17. AddedSince(built[hook])' BY <1>4, <1>8, NothingBeyond DEF AddedSince
  <1>18. Ran("snap")' = {}
    <2>1. BeforeEachHooks(run.at)' = BeforeEachHooks(run.at) BY <1>1, <1>7, SameHooks
    <2>2. BeforeEachHooks(run.at)
            = {h \in Hooks : h.suite \in Around(run.at) /\ h.kind \in {"each", "cache", "snap"}}
      BY <1>3, AroundFacts, HooksOfFacts DEF BeforeEachHooks, HookKinds
    <2> QED BY <1>1, <1>3, <2>1, <2>2, OneKind DEF Ran
  <1>19. WorldOK' BY <1>7, <1>16, <1>17, <1>18 DEF WorldOK, IsLast
  <1> QED BY <1>3, <1>7, <1>9, <1>14, <1>19 DEF LeftInv

\* A later test finds the world of the last cache again.
LEMMA CacheRestoreLeaves ==
    ASSUME StackInv, HandlesInv, LeftInv, HandlesInv', forest \in Forests, CachesOK,
           NEW hook \in NextHooks, CacheRestore(hook)
    PROVE  LeftInv'
  <1> DEFINE id == EvmRevert(node, TopId).nextId
  <1>1. /\ run.phase = "beforeEach" /\ run.phase \in Running \ {"after"} /\ HookDone(hook)
        /\ hook.kind = "cache" /\ initialized[hook]
        /\ UNCHANGED <<forest, initialized, handles, built>>
        /\ node' = saveSnapshotAsync(EvmRevert(node, TopId)) /\ SNAPSHOTS' = Append(Popped, id)
    BY DEF CacheRestore, Running, revertByIdAsync, SavedId
  <1>2. /\ hook \in Hooks /\ hook \in Built /\ hook.suite \in Around(run.at)
        /\ run.at \in Suites
    BY <1>1 DEF NextHooks, StackInv, RunOK, Built
  <1>3. /\ BuiltOK /\ SavedBuilt /\ IsNode(node) /\ IsStack(SNAPSHOTS, node)
        /\ IsChain(node'.chain)
    BY <1>1 DEF LeftInv, HandlesInv, ChainsOK, StackInv, NodeOK, StackOK
  <1>4. Len(SNAPSHOTS) # 0
    <2>1. Len(SNAPSHOTS) = Cardinality(BuiltIn(run.at)) /\ IsFiniteSet(BuiltIn(run.at))
      BY <1>1, Inside, FS_Subset DEF BuiltIn, CachesOK
    <2>2. hook \in BuiltIn(run.at) BY <1>2 DEF BuiltIn
    <2> QED BY <2>1, <2>2, FS_EmptySet
  <1>5. id = node.nextId /\ node.nextId \in Nat
    <2>1. id = node.nextId BY <1>3, NodeFacts
    <2> QED BY <1>3, <2>1 DEF IsNode
  <1> HIDE DEF id
  <1>6. PICK m \in Nat :
          /\ Len(SNAPSHOTS) = m + 1 /\ Len(SNAPSHOTS') = m + 1 /\ SNAPSHOTS'[m + 1] = id
          /\ TopId = SNAPSHOTS[m + 1] /\ TopId \in DOMAIN node.snaps
          /\ \A i \in 1..m : /\ SNAPSHOTS'[i] = SNAPSHOTS[i] /\ SNAPSHOTS[i] < TopId
                             /\ SNAPSHOTS[i] \in DOMAIN node.snaps
    <2>1. id \in Nat BY <1>5
    <2>2. SNAPSHOTS' = Append(Popped, id) BY <1>1
    <2> QED BY <1>3, <1>4, <2>1, <2>2, TopReplaced
  <1>7. /\ node'.chain = node.snaps[TopId] /\ node'.snaps[id] = node'.chain
        /\ \A i \in DOMAIN node.snaps : i < TopId => node'.snaps[i] = node.snaps[i]
    BY <1>1, <1>3, <1>5, <1>6, RevertAndSave
  <1>8. Built' = Built BY <1>1, SameHooks DEF Built
  <1>9. /\ run'.phase = run.phase /\ run'.at = run.at
        /\ Hooks' = Hooks /\ \A u : Around(u)' = Around(u) /\ Held' \subseteq Held
    <2>1. hook \in Built' BY <1>2, <1>8
    <2>2. /\ run'.phase = run.phase /\ run'.at = run.at
          /\ Hooks' = Hooks /\ \A u : Around(u)' = Around(u) /\ Held' \subseteq Held \cup {hook}
      BY <1>1, <1>8, <2>1, HookOver
    <2>3. hook \in Held BY <1>1, <1>2 DEF Held, RanBy
    <2> QED BY <2>2, <2>3
  <1>10. BuiltOK' BY <1>1, <1>3, <1>9 DEF BuiltOK
  <1>11. SavedBuilt'
    <2> SUFFICES ASSUME NEW h \in Held \cap Built, Rank(h) \in 1..(m + 1)
                 PROVE  node'.snaps[SNAPSHOTS'[Rank(h)]] = built[h]
      <3>1. \A h : Rank(h)' = Rank(h) BY <1>8, <1>9 DEF Rank
      <3> QED BY <1>1, <1>6, <1>8, <1>9, <3>1 DEF SavedBuilt, Saved
    <2>1. node.snaps[SNAPSHOTS[Rank(h)]] = built[h] BY <1>3, <1>6 DEF SavedBuilt, Saved
    <2>2. CASE Rank(h) = m + 1 BY <1>6, <1>7, <2>1, <2>2
    <2>3. CASE Rank(h) \in 1..m BY <1>6, <1>7, <2>1, <2>3
    <2> QED BY <1>6, <2>2, <2>3
  <1>12. ASSUME NEW h \in Hooks, IsLast(h, BuiltIn(run.at)) PROVE built[h] = node'.chain
    <2>1. h \in Built /\ h.suite \in Around(run.at) /\ h \in Held
      BY <1>1, <1>12 DEF IsLast, BuiltIn, Held, RanBy
    <2>2. Rank(h) = m + 1 BY <1>1, <1>6, <1>12, <2>1, RankOnStack DEF IsLast
    <2>3. m + 1 \in 1..Len(SNAPSHOTS) BY <1>6
    <2>4. node.snaps[SNAPSHOTS[m + 1]] = built[h] BY <1>3, <2>1, <2>2, <2>3 DEF SavedBuilt, Saved
    <2> QED BY <1>6, <1>7, <2>4
  <1>13. BuiltIn(run.at)' = BuiltIn(run.at) BY <1>8, <1>9 DEF BuiltIn
  <1>14. Ran("snap")' = {}
    <2>1. BeforeEachHooks(run.at)' = BeforeEachHooks(run.at) BY <1>1, <1>9, SameHooks
    <2>2. BeforeEachHooks(run.at)
            = {h \in Hooks : h.suite \in Around(run.at) /\ h.kind \in {"each", "cache", "snap"}}
      BY <1>2, AroundFacts, HooksOfFacts DEF BeforeEachHooks, HookKinds
    <2> QED BY <1>1, <1>2, <2>1, <2>2, OneKind DEF Ran
  <1>15. WorldOK'
    <2>1. \A h \in Hooks : IsLast(h, BuiltIn(run.at))' => built'[h] = node'.chain
      BY <1>1, <1>12, <1>13 DEF IsLast, Precedes
    <2> QED BY <1>3, <1>9, <1>14, <2>1, NothingBeyond DEF WorldOK, IsLast, AddedSince
  <1> QED BY <1>1, <1>9, <1>10, <1>11, <1>15 DEF LeftInv

-----------------------------------------------------------------------------
\* Every step of a session leaves nothing to the tests that follow.
LEMMA SessionLeavesNothing ==
    ASSUME StackInv, HandlesInv, LeftInv, HandlesInv', run.phase # "off", SessionStep
    PROVE  LeftInv'
  <1>1. forest \in Forests /\ CachesOK /\ IsNode(node) BY DEF StackInv, NodeOK
  <1>2. CASE Load BY <1>1, <1>2, LoadLeaves
  <1>3. CASE Advance
    <2>1. /\ run.phase \in {"before", "beforeEach", "afterEach", "after"} /\ run.todo = {}
          /\ UNCHANGED <<forest, initialized, SNAPSHOTS, snapshotId, node, handles, built>>
          /\ run.phase = "before" => run' = AfterTest(run.at, 0, 0)
          /\ run.phase = "beforeEach" => run' = [run EXCEPT !.phase = "body"]
          /\ run.phase = "afterEach" => run' = AfterTest(run.at, run.test, run.failed)
          /\ run.phase = "after" => run' = AfterSuite(run.at, run.failed)
      BY <1>3 DEF Advance
    <2>2. run.phase \in Running /\ node'.snaps = node.snaps BY <2>1 DEF Running
    <2>3. CASE run.phase = "beforeEach" BY <2>1, <2>3, TestStartsLeave
    <2>4. CASE run.phase # "beforeEach"
      <3>1. Settles BY <1>1, <2>1, <2>4, AfterTestMoves, AfterSuiteMoves
      <3> QED BY <2>1, <2>2, <3>1, MovesLeave
    <2> QED BY <2>3, <2>4
  <1>4. CASE Hook
    BY <1>1, <1>4, PlainHookLeaves, CacheInitializeLeaves, CacheRestoreLeaves,
       CacheAfterLeaves, SnapSaveLeaves, SnapRestoreLeaves DEF Hook
  <1>5. CASE \E hook \in NextHooks : HookThrows(hook)
    <2>1. PICK hook \in NextHooks : HookThrows(hook) BY <1>5
    <2>2. /\ run.phase \in Running /\ UNCHANGED <<forest, initialized, SNAPSHOTS, built>>
          /\ \E e : node' = EvmSend(node, e)
      BY <2>1 DEF HookThrows, Deploying, Running
    <2>3. Settles BY <1>1, <2>1, HookThrowsMoves
    <2>4. node'.snaps = node.snaps BY <1>1, <2>2, NodeFacts
    <2> QED BY <2>2, <2>3, <2>4, MovesLeave
  <1>6. CASE RunTest
    <2>1. /\ run.phase \in Running /\ UNCHANGED <<forest, initialized, SNAPSHOTS, built>>
          /\ \E e : node' = EvmSend(node, e)
      BY <1>6 DEF RunTest, Running
    <2>2. Settles BY <1>1, <1>6, RunTestMoves
    <2>3. node'.snaps = node.snaps BY <1>1, <2>1, NodeFacts
    <2> QED BY <2>1, <2>2, <2>3, MovesLeave
  <1>7. CASE Kill BY <1>1, <1>7, StartsLeave DEF Kill
  <1> QED BY <1>2, <1>3, <1>4, <1>5, <1>6, <1>7 DEF SessionStep

\* Typechain touches no session.
LEMMA ToolchainLeavesNothing == ToolSpec => []LeftInv
  <1>1. ToolInit => LeftInv
    <2>1. ToolInit => run.phase = "off" BY DEF ToolInit, Ended
    <2> QED BY <2>1 DEF LeftInv, Running
  <1>2. StackInv /\ HandlesInv /\ HandlesInv' /\ LeftInv /\ [ToolNext]_toolVars => LeftInv'
    <2> SUFFICES ASSUME StackInv, HandlesInv, HandlesInv', LeftInv, [ToolNext]_toolVars
                 PROVE  LeftInv'
      OBVIOUS
    <2>1. CASE UNCHANGED sessionVars
      <3>1. UNCHANGED <<forest, run, node, SNAPSHOTS, initialized, handles, built>>
        BY <2>1 DEF sessionVars
      <3>2. /\ Hooks' = Hooks /\ \A u : Around(u)' = Around(u)
            /\ \A u : BeforeEachHooks(u)' = BeforeEachHooks(u)
        BY <3>1, SameHooks
      <3>3. Built' = Built /\ Held' = Held
        BY <3>1, <3>2 DEF Built, Held, RanBy, InTest
      <3>4. \A h : Rank(h)' = Rank(h) BY <3>2, <3>3 DEF Rank
      <3>5. BuiltOK' = BuiltOK /\ SavedBuilt' = SavedBuilt
        BY <3>1, <3>2, <3>3, <3>4 DEF BuiltOK, SavedBuilt, Saved
      <3>6. /\ \A c : AddedSince(c)' = AddedSince(c)
            /\ \A kind : Ran(kind)' = Ran(kind)
            /\ BuiltIn(run.at)' = BuiltIn(run.at)
        BY <3>1, <3>2, <3>3 DEF AddedSince, Ran, BuiltIn
      <3>7. WorldOK' = WorldOK
        BY <3>1, <3>2, <3>6 DEF WorldOK, IsLast, InTest
      <3> QED BY <3>1, <3>5, <3>7 DEF LeftInv
    <2>2. CASE Test
      BY <2>2, StartsLeave DEF Test
    <2>3. CASE SessionStep /\ run.phase # "off"
      BY <2>3, SessionLeavesNothing
    <2>4. SessionStep => run.phase # "off"
      BY DEF SessionStep, Load, Advance, Hook, PlainHook, CacheInitialize, CacheRestore,
             CacheAfter, SnapSave, SnapRestore, HookThrows, Deploying, RunTest, Kill
    <2> QED BY <2>1, <2>2, <2>3, <2>4 DEF ToolNext, Build, toolVars
  <1> QED BY <1>1, <1>2, ToolchainKeepsStack, ToolchainKeepsHandles, PTL DEF ToolSpec

\* Of the hooks of the suites around a test one comes last.
LEMMA LastHook ==
    ASSUME forest \in Forests, NEW s \in Suites, NEW H, H \subseteq Hooks, H # {},
           \A h \in H : h.suite \in Around(s)
    PROVE  \E h \in H : \A g \in H \ {h} : Precedes(g, h)
  <1>1. /\ s \in Nat
        /\ \A h \in H : h.suite \in Suites /\ h.suite \in Nat /\ h.suite <= s
    BY AroundFacts
  <1> DEFINE D == {s - h.suite : h \in H}
  <1>2. PICK t \in H : \A h \in H : h.suite <= t.suite
    <2>1. D \subseteq Nat /\ D # {} BY <1>1
    <2>2. PICK d \in D : \A e \in D : d <= e
      <3> HIDE DEF D
      <3> QED BY <2>1, LeastOfNat
    <2>3. PICK t \in H : d = s - t.suite BY <2>2
    <2>4. \A h \in H : s - t.suite <= s - h.suite BY <2>2, <2>3
    <2> QED BY <1>1, <2>3, <2>4
  <1> DEFINE G == {h \in H : h.suite = t.suite}
  <1>3. PICK n \in Nat : \A h \in G : h.index \in Nat /\ h.index <= n
    <2> DEFINE hooks == forest[t.suite].hooks
    <2>1. \A h \in G : h.index \in DOMAIN hooks
      BY HookRegistered
    <2>2. DOMAIN hooks = 1..Len(hooks) /\ Len(hooks) \in Nat
      <3> DEFINE R == [parent : Nat, around : SUBSET Nat, hooks : Seq(HookKinds),
                       tests : Nat, subject : Kinds \cup {"System"}]
      <3>1. \A r \in R : r.hooks \in Seq(HookKinds) OBVIOUS
      <3>2. forest \in Seq(R) BY ForestsAssumption DEF IsForest
      <3> HIDE DEF R
      <3>3. forest[t.suite] \in R BY <1>1, <3>2 DEF Suites
      <3>4. hooks \in Seq(HookKinds) BY <3>1, <3>3
      <3> HIDE DEF hooks
      <3> QED BY <3>4
    <2> HIDE DEF hooks
    <2> QED BY <2>1, <2>2
  <1> DEFINE E == {n - h.index : h \in G}
  <1>4. PICK h \in G : \A g \in G : g.index <= h.index
    <2>1. E \subseteq Nat /\ E # {} BY <1>2, <1>3
    <2>2. PICK d \in E : \A e \in E : d <= e
      <3> HIDE DEF E
      <3> QED BY <2>1, LeastOfNat
    <2>3. PICK h \in G : d = n - h.index BY <2>2
    <2>4. \A g \in G : n - h.index <= n - g.index BY <2>2, <2>3
    <2> QED BY <1>3, <2>3, <2>4
  <1>5. ASSUME NEW g \in H, g # h PROVE Precedes(g, h)
    <2>1. CASE g.suite # t.suite
      BY <1>1, <1>2, <1>4, <2>1 DEF Precedes
    <2>2. CASE g.suite = t.suite
      <3>1. g \in G /\ g.index <= h.index /\ g.suite = h.suite BY <1>4, <2>2
      <3>2. Precedes(g, h) \/ Precedes(h, g) BY <1>4, <1>5, HookOrder
      <3> QED BY <1>1, <1>3, <1>4, <3>1, <3>2 DEF Precedes
    <2> QED BY <2>1, <2>2
  <1> QED BY <1>4, <1>5

\* "It snapshots and restores between each test": beyond the world that the last
\* sandbox around it saved, a test finds only what hooks deployed for it, and holds a
\* handle to each: whatever suites are nested or follow each other, with tests that
\* leave anything behind, hooks that throw halfway and processes that are killed on
\* a node that keeps running.
THEOREM SandboxNoLeftovers == ToolSpec => []NoLeftovers
  <1>1. StackInv /\ HandlesInv /\ LeftInv => NoLeftovers
    <2> DEFINE home == Home(run.at)
    <2> SUFFICES ASSUME StackInv, HandlesInv, LeftInv, run.phase = "body",
                        Sandboxes(run.at) # {},
                        NEW i \in (Len(built[home]) + 1)..Len(node.chain)
                 PROVE  \E h \in InScope(run.at) : h.addr = i
      BY DEF NoLeftovers
    <2>1. /\ forest \in Forests /\ run.phase \in Running /\ run.at \in Suites
          /\ Around(run.at) \subseteq Suites /\ run.todo = {} /\ DoneOK /\ WorldOK
          /\ \A h \in Built : h.kind = "cache"
      BY AroundFacts DEF StackInv, RunOK, CachesOK, HandlesInv, DoneOK, LeftInv, Running
    <2> DEFINE S == Sandboxes(run.at)
    <2>2. S = {h \in Hooks : h.suite \in Around(run.at) /\ h.kind \in {"cache", "snap"}}
      BY <2>1, HooksOfFacts DEF Sandboxes, HookKinds
    <2>3. BeforeEachHooks(run.at)
            = {h \in Hooks : h.suite \in Around(run.at) /\ h.kind \in {"each", "cache", "snap"}}
      BY <2>1, HooksOfFacts DEF BeforeEachHooks, HookKinds
    <2>4. home \in S /\ \A g \in S \ {home} : Precedes(g, home)
      <3>1. \E h \in S : \A g \in S \ {h} : Precedes(g, h)
        <4> HIDE DEF S
        <4>1. S # {} BY DEF S
        <4> QED BY <2>1, <2>2, <4>1, LastHook
      <3> QED BY <3>1 DEF Home
    <2> HIDE DEF S, home
    <2>5. /\ home \in Hooks /\ home.suite \in Around(run.at)
          /\ home.kind \in {"cache", "snap"} /\ \A g \in S : ~Precedes(home, g)
      BY <2>1, <2>2, <2>4, HookOrder
    <2>6. AddedSince(built[home])
      <3>1. CASE home.kind = "cache"
        <4>1. home \in Built BY <2>1, <2>3, <2>5, <3>1 DEF DoneOK, InTest
        <4>2. home \in Ran("cache") BY <2>1, <2>3, <2>5, <3>1 DEF Ran
        <4>3. BuiltIn(run.at) \subseteq S BY <2>1, <2>2 DEF BuiltIn, Built
        <4>4. IsLast(home, BuiltIn(run.at)) BY <2>5, <4>1, <4>3 DEF IsLast, BuiltIn
        <4> QED BY <2>1, <2>5, <4>2, <4>4 DEF WorldOK, InTest
      <3>2. CASE home.kind = "snap"
        <4>1. home \in Ran("snap") BY <2>1, <2>3, <2>5, <3>2 DEF Ran
        <4>2. Ran("snap") \subseteq S BY <2>2, <2>3 DEF Ran
        <4>3. IsLast(home, Ran("snap")) BY <2>5, <4>1, <4>2 DEF IsLast
        <4> QED BY <2>1, <2>5, <4>3 DEF WorldOK, InTest
      <3> QED BY <2>5, <3>1, <3>2
    <2>7. PICK h \in Hooks : h.suite \in Around(run.at) /\ \E x \in handles[h] : x.addr = i
      BY <2>6 DEF AddedSince, home
    <2>8. h \in HooksOf(Around(run.at), HookKinds)
      BY <2>1, <2>7, HooksOfFacts DEF Hooks
    <2> QED BY <2>7, <2>8 DEF InScope
  <1> QED BY <1>1, ToolchainKeepsStack, ToolchainKeepsHandles, ToolchainLeavesNothing, PTL
=============================================================================
