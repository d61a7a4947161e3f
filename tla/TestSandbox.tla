----------------------------- MODULE TestSandbox -----------------------------
(***************************************************************************)
(* The two sandboxes of utils/test/testingUtils.ts, run by Mocha (external) *)
(* over the suites of a session, with what their hooks deploy through the   *)
(* DeployHelper.                                                           *)
(*                                                                         *)
(* A session is a forest of suites in the order Mocha visits them; a suite  *)
(* without a parent is a spec file.  A suite registers hooks:              *)
(*   "before"  deploys once,                                               *)
(*   "each"    deploys before every test (a plain beforeEach),             *)
(*   "cache"   is cacheBeforeEach(initializer),                            *)
(*   "snap"    is addSnapshotBeforeRestoreAfterEach().                     *)
(* What a hook deploys it keeps in variables of the spec, the HANDLES: an   *)
(* address and the kind of contract that is expected there.  No sandbox     *)
(* restores them.  A hook or its initializer may throw after any number of  *)
(* its deployments, and the test process may be killed at any point while   *)
(* the node, started separately, keeps running.                            *)
(***************************************************************************)
EXTENDS Blockchain, DeployHelper, FiniteSets

CONSTANTS Forests,     \* the sessions that may be run
          MaxKills     \* how often the test process is killed

HookKinds == {"before", "each", "cache", "snap"}

\* A suite is registered after the one it is in, its parent, and before any other
\* suite beside that one.  "around" are the suites it is in, itself among them.
IsForest(f) ==
  /\ f \in Seq([parent : Nat, around : SUBSET Nat, hooks : Seq(HookKinds), tests : Nat,
               subject : Kinds \cup {"System"}])
  /\ \A s \in DOMAIN f :
       /\ f[s].parent < s /\ f[s].around \subseteq 1..s
       /\ f[s].around = {s} \cup IF f[s].parent = 0 THEN {} ELSE f[f[s].parent].around
       /\ \A t \in f[s].around : f[t].around \subseteq f[s].around
  /\ \A t, u \in DOMAIN f : \A s \in f[t].around : s <= u /\ u <= t => s \in f[u].around

\* The hooks of these kinds that the suites of S registered, each with its place in
\* the order of registration.
HooksIn(f, S, kinds) ==
  LET Registered(s) == {[suite |-> s, index |-> i, kind |-> f[s].hooks[i]] :
                          i \in DOMAIN f[s].hooks}
  IN  {hook \in UNION {Registered(s) : s \in S} : hook.kind \in kinds}

\* beforeEach hooks run from the file down to the suite of the test, those of one
\* suite in the order in which they were registered.
Precedes(h, g) == h.suite < g.suite \/ (h.suite = g.suite /\ h.index < g.index)

\* The hook of file level deploys the system, the others what they test with
\* all that this needs.
Wanted(subject) == IF subject = "System" THEN SystemFixture ELSE Needs[subject]

\* No spec file uses both sandboxes: no suite is around two that use different
\* ones.
OneSandboxPerFile(f) ==
  \A s, t \in DOMAIN f : \A i \in DOMAIN f[s].hooks : \A j \in DOMAIN f[t].hooks :
    f[s].hooks[i] = "cache" /\ f[t].hooks[j] = "snap"
      => f[s].around \cap f[t].around = {}

\* What the author of a spec has to see to, as all specs do: a cache takes back
\* what a before hook inside of it or a beforeEach hook around it deployed, and a
\* before hook runs once, when what beforeEach hooks around it deploy is not there.
DeployedInOrder(f) ==
  \A s \in DOMAIN f : \A h, g \in HooksIn(f, f[s].around, HookKinds) :
    /\ h.kind = "before" /\ g.kind = "cache" => Precedes(h, g)
    /\ h.kind = "cache" /\ g.kind = "each" => Precedes(h, g)
    /\ h.kind = "each" /\ g.kind = "before" /\ Precedes(h, g)
         => \A k \in Wanted(f[g.suite].subject) : Recipes[k] = {}

ASSUME ForestsAssumption ==
  \A f \in Forests : IsForest(f) /\ OneSandboxPerFile(f) /\ DeployedInOrder(f)

VARIABLES forest,       \* the suites of this session, in preorder
          run,          \* where Mocha stands
          node,         \* the node the tests run against
          SNAPSHOTS,    \* the global stack of testingUtils.ts
          initialized,  \* of each cacheBeforeEach
          snapshotId,   \* _snapshotId of the Blockchain instance of each sandbox
          handles,      \* what each hook deployed, as the spec knows it
          session,      \* number of this test process
          built         \* history: the chain that each sandbox saved

sessionVars == <<forest, run, node, SNAPSHOTS, initialized, snapshotId, handles,
                 session, built>>

Suites == DOMAIN forest

\* The suites around s, from its file down to s itself.
Around(s) == forest[s].around

First(S) == CHOOSE s \in S : \A t \in S : s <= t

File(s) == First(Around(s))

\* Mocha skips the suites that have no test in them or below them.
HasTests(s) == \E t \in Suites : s \in Around(t) /\ forest[t].tests > 0

Visited(parent) == {s \in Suites : forest[s].parent = parent /\ HasTests(s)}

HooksOf(S, kinds) == HooksIn(forest, S, kinds)

Hooks == HooksOf(Suites, HookKinds)

BeforeEachHooks(s) == HooksOf(Around(s), {"each", "cache", "snap"})
AfterEachHooks(s) == HooksOf(Around(s), {"snap"})

\* afterEach hooks run from the suite up to the file.
PrecedesAfter(h, g) == h.suite > g.suite \/ (h.suite = g.suite /\ h.index < g.index)

\* The hook of this phase that runs next.
NextHooks ==
  {h \in run.todo : \A g \in run.todo \ {h} :
     IF run.phase = "afterEach" THEN PrecedesAfter(h, g) ELSE Precedes(h, g)}

-----------------------------------------------------------------------------
\* Where Mocha goes next.  "failed" is the suite whose hook threw, 0 if none.

Enter(s) == [phase |-> "before", at |-> s, test |-> 0,
             todo |-> HooksOf({s}, {"before"}), failed |-> 0]
StartTest(s, k) == [phase |-> "beforeEach", at |-> s, test |-> k,
                    todo |-> BeforeEachHooks(s), failed |-> 0]
EndTest(s, k, failed) == [phase |-> "afterEach", at |-> s, test |-> k,
                          todo |-> AfterEachHooks(IF failed = 0 THEN s ELSE failed),
                          failed |-> failed]
Leave(s, failed) == [phase |-> "after", at |-> s, test |-> 0,
                     todo |-> HooksOf({s}, {"cache"}), failed |-> failed]
Ended == [phase |-> "ended", at |-> 0, test |-> 0, todo |-> {}, failed |-> 0]

\* After test k of s: its next test, then the suites in it, then out.
AfterTest(s, k, failed) ==
  IF failed # 0 THEN Leave(s, failed)
  ELSE IF k < forest[s].tests THEN StartTest(s, k + 1)
  ELSE IF Visited(s) # {} THEN Enter(First(Visited(s)))
  ELSE Leave(s, 0)

\* After suite s was left: out of the suite whose hook threw, if s is still in
\* it, or on to the next suite beside s, or out of the suite around s.
AfterSuite(s, failed) ==
  LET outer == forest[s].parent
      later == {t \in Visited(outer) : t > s}
  IN  IF failed # 0 /\ failed # s THEN Leave(outer, failed)
      ELSE IF later # {} THEN Enter(First(later))
      ELSE IF outer # 0 THEN Leave(outer, 0)
      ELSE Ended

HookDone(hook) == run' = [run EXCEPT !.todo = @ \ {hook}]

\* It threw: a before hook skips its suite, a beforeEach hook runs the afterEach
\* hooks from its suite upwards and skips the rest of the suite.
HookFailed(hook) ==
  run' = IF run.phase = "before" THEN Leave(hook.suite, hook.suite)
         ELSE EndTest(run.at, run.test, hook.suite)

\* All its hooks are done: the phase is over.
Advance ==
  /\ run.phase \in {"before", "beforeEach", "afterEach", "after"}
  /\ run.todo = {}
  /\ run' = CASE run.phase = "before"     -> AfterTest(run.at, 0, 0)
              [] run.phase = "beforeEach" -> [run EXCEPT !.phase = "body"]
              [] run.phase = "afterEach"  -> AfterTest(run.at, run.test, run.failed)
              [] run.phase = "after"      -> AfterSuite(run.at, run.failed)
  /\ UNCHANGED <<forest, node, SNAPSHOTS, initialized, snapshotId, handles, session, built>>

-----------------------------------------------------------------------------
\* What hooks deploy.

\* An entry of the chain: what it deployed with which references, and whether
\* a hook or a test of which file of which process sent it.
Entry(kind, refs, by, s) ==
  [kind |-> kind, refs |-> refs, by |-> by, file |-> File(s), session |-> session]

\* What the hooks around the tests of s have deployed.
InScope(s) == UNION {handles[hook] : hook \in HooksOf(Around(s), HookKinds)}

KindsOf(hs) == {h.kind : h \in hs}

\* A deploy method of the helper sends a contract whose recipe the handles can
\* fill; its address is the place the entry gets in the chain.
DeployOne(st, kind, hook) ==
  LET ref == [j \in Recipes[kind] |-> (CHOOSE h \in st.hs : h.kind = j).addr]
      new == [kind |-> kind, addr |-> Len(node.chain) + Len(st.sent) + 1]
  IN  [sent |-> Append(st.sent, Entry(kind, ref, "hook", hook.suite)),
       hs   |-> {h \in st.hs : h.kind # kind} \cup {new},
       own  |-> st.own \cup {new}]

\* The handles that a hook finds: those of the hooks before it.
Found(hook) ==
  UNION {handles[h] : h \in {g \in HooksOf(Around(hook.suite), HookKinds) : Precedes(g, hook)}}

\* What it wants beyond what it finds.
Missing(hook) ==
  LET subject == forest[hook.suite].subject
  IN  Wanted(subject) \ (KindsOf(Found(hook)) \ {subject})

\* If nothing more can be deployed nothing is.
DeployNext(st, hook) ==
  LET ready == {k \in Missing(hook) \ KindsOf(st.own) : Recipes[k] \subseteq KindsOf(st.hs)}
  IN  IF ready = {} THEN st ELSE DeployOne(st, CHOOSE k \in ready : TRUE, hook)

\* The entries sent, the handles in scope and those of the hook after n deployments
\* of what is missing, for every n.
Deployments(hook) ==
  LET after[n \in 0..Cardinality(Missing(hook))] ==
        IF n = 0 THEN [sent |-> <<>>, hs |-> Found(hook), own |-> {}]
        ELSE CHOOSE st \in {DeployNext(before, hook) : before \in {after[n - 1]}} : TRUE
  IN  after

AllDeployed(hook) == Deployments(hook)[Cardinality(DOMAIN Deployments(hook)) - 1]

\* Everything that is wanted got deployed.
Complete(hook, st) == Wanted(forest[hook.suite].subject) \subseteq KindsOf(st.hs)

-----------------------------------------------------------------------------
\* The hooks.

\* A hook that deploys: "before", "each", and the initializer of a cache that is
\* not initialized.
Deploying(hook) ==
  /\ run.phase \in {"before", "beforeEach"}
  /\ \/ hook.kind \in {"before", "each"}
     \/ hook.kind = "cache" /\ ~initialized[hook]

\* before(...) or beforeEach(...) of a spec.
PlainHook(hook) ==
  /\ Deploying(hook) /\ hook.kind # "cache"
  /\ \E end \in {AllDeployed(hook)} :
       /\ Complete(hook, end)
       /\ node' = EvmSend(node, end.sent)
       /\ handles' = [handles EXCEPT ![hook] = end.own]
  /\ HookDone(hook)
  /\ UNCHANGED <<forest, SNAPSHOTS, initialized, snapshotId, session, built>>

\* cacheBeforeEach, first time: the initializer runs and what it built is saved
\* on the stack.
CacheInitialize(hook) ==
  /\ Deploying(hook) /\ hook.kind = "cache"
  /\ \E end \in {AllDeployed(hook)} : \E n1 \in {EvmSend(node, end.sent)} :
       /\ Complete(hook, end)
       /\ handles' = [handles EXCEPT ![hook] = end.own]
       /\ SNAPSHOTS' = Append(SNAPSHOTS, SavedId(n1))
       /\ node' = saveSnapshotAsync(n1)
       /\ snapshotId' = [snapshotId EXCEPT ![hook] = SavedId(n1)]
       /\ initialized' = [initialized EXCEPT ![hook] = TRUE]
       /\ built' = [built EXCEPT ![hook] = n1.chain]
  /\ HookDone(hook)
  /\ UNCHANGED <<forest, session>>

\* Faulty variant for mutation: the oldest snapshot, that of the file.
BottomId == IF SNAPSHOTS = <<>> THEN NoSnapshot ELSE SNAPSHOTS[1]

\* SNAPSHOTS.pop() and push: the identifier on top, and the stack without it.
\* Popping an empty stack gives no identifier.
TopId == IF SNAPSHOTS = <<>> THEN NoSnapshot ELSE SNAPSHOTS[Len(SNAPSHOTS)]
Popped == IF SNAPSHOTS = <<>> THEN <<>> ELSE SubSeq(SNAPSHOTS, 1, Len(SNAPSHOTS) - 1)

\* Faulty variant for mutation: the snapshot is popped and used again, although
\* the node discarded it.
CacheRestoreOnce(hook) ==
  /\ run.phase = "beforeEach" /\ hook.kind = "cache" /\ initialized[hook]
  /\ node' = revertByIdAsync(node, TopId)
  /\ HookDone(hook)
  /\ UNCHANGED <<forest, SNAPSHOTS, initialized, snapshotId, handles, session, built>>

\* cacheBeforeEach, later: back to the snapshot on top of the stack, whichever
\* suite pushed it, and a new one in its place.
CacheRestore(hook) ==
  /\ run.phase = "beforeEach" /\ hook.kind = "cache" /\ initialized[hook]
  /\ LET n1 == revertByIdAsync(node, TopId) IN
     /\ node' = saveSnapshotAsync(n1)
     /\ SNAPSHOTS' = Append(Popped, SavedId(n1))
     /\ snapshotId' = [snapshotId EXCEPT ![hook] = SavedId(n1)]
  /\ HookDone(hook)
  /\ UNCHANGED <<forest, initialized, handles, session, built>>

\* Faulty variant for mutation: the stack is popped whether or not the
\* initializer ever came to its end.
CacheAfterAlways(hook) ==
  /\ run.phase = "after"
  /\ SNAPSHOTS' = Popped
  /\ HookDone(hook)
  /\ UNCHANGED <<forest, node, initialized, snapshotId, handles, session, built>>

\* The after hook of cacheBeforeEach: the snapshot is dropped from the stack.
\* Nothing is reverted.
CacheAfter(hook) ==
  /\ run.phase = "after"
  /\ SNAPSHOTS' = IF initialized[hook] THEN Popped ELSE SNAPSHOTS
  /\ HookDone(hook)
  /\ UNCHANGED <<forest, node, initialized, snapshotId, handles, session, built>>

\* Faulty variant for mutation: the identifier is taken once, for the first test.
SnapSaveFirst(hook) ==
  /\ run.phase = "beforeEach" /\ hook.kind = "snap"
  /\ node' = saveSnapshotAsync(node)
  /\ snapshotId' = [snapshotId EXCEPT ![hook] =
                       IF @ = NoSnapshot THEN SavedId(node) ELSE @]
  /\ built' = [built EXCEPT ![hook] = node.chain]
  /\ HookDone(hook)
  /\ UNCHANGED <<forest, SNAPSHOTS, initialized, handles, session>>

\* addSnapshotBeforeRestoreAfterEach: a snapshot before each test ...
SnapSave(hook) ==
  /\ run.phase = "beforeEach" /\ hook.kind = "snap"
  /\ node' = saveSnapshotAsync(node)
  /\ snapshotId' = [snapshotId EXCEPT ![hook] = SavedId(node)]
  /\ built' = [built EXCEPT ![hook] = node.chain]
  /\ HookDone(hook)
  /\ UNCHANGED <<forest, SNAPSHOTS, initialized, handles, session>>

\* ... and back to it after each test.
SnapRestore(hook) ==
  /\ run.phase = "afterEach" /\ hook.kind = "snap"
  /\ node' = revertAsync(node, snapshotId[hook])
  /\ HookDone(hook)
  /\ UNCHANGED <<forest, SNAPSHOTS, initialized, snapshotId, handles, session, built>>

\* A hook that deploys throws: before the first deployment, after it, or after
\* the last.
HookThrows(hook) ==
  /\ Deploying(hook)
  /\ LET d == Deployments(hook) IN
     \E n \in {0, 1, Cardinality(DOMAIN d) - 1} \cap DOMAIN d : \E end \in {d[n]} :
       /\ node' = EvmSend(node, end.sent)
       /\ handles' = [handles EXCEPT ![hook] = end.own]
  /\ HookFailed(hook)
  /\ UNCHANGED <<forest, SNAPSHOTS, initialized, snapshotId, session, built>>

\* A test passes or fails.  It may have deployed, sent a transaction or moved
\* the time, any of which is an entry of the chain.
RunTest ==
  /\ run.phase = "body"
  /\ \E effects \in {<<>>, <<Entry("Effect", <<>>, "test", run.at)>>} :
       node' = EvmSend(node, effects)
  /\ run' = EndTest(run.at, run.test, 0)
  /\ UNCHANGED <<forest, SNAPSHOTS, initialized, snapshotId, handles, session, built>>

\* A test process starts on whatever the node holds.
StartSession(f) ==
  /\ forest' = f
  /\ SNAPSHOTS' = <<>>
  /\ initialized' = [hook \in Hooks' |-> FALSE]
  /\ snapshotId' = [hook \in Hooks' |-> NoSnapshot]
  /\ handles' = [hook \in Hooks' |-> {}]
  /\ built' = [hook \in Hooks' |-> <<>>]
  /\ session' = session + 1

\* The first hook of the first file is what a process runs first.
Load ==
  /\ run.phase = "loaded"
  /\ run' = IF Visited(0) = {} THEN Ended ELSE Enter(First(Visited(0)))
  /\ UNCHANGED <<forest, node, SNAPSHOTS, initialized, snapshotId, handles, session, built>>

\* The process is killed and the session is run again.
Kill ==
  /\ run.phase \notin {"loaded", "ended", "off"}
  /\ session <= MaxKills
  /\ StartSession(forest)
  /\ run' = [Ended EXCEPT !.phase = "loaded"]
  /\ UNCHANGED node

Hook == \E hook \in NextHooks :
  \/ PlainHook(hook) \/ CacheInitialize(hook) \/ CacheRestore(hook) \/ CacheAfter(hook)
  \/ SnapSave(hook) \/ SnapRestore(hook)

SessionStep ==
  \/ Load \/ Advance \/ Hook \/ (\E hook \in NextHooks : HookThrows(hook))
  \/ RunTest \/ Kill

-----------------------------------------------------------------------------
\* Properties.

\* The sandbox that the tests of s run in: the last around s.
Sandboxes(s) == HooksOf(Around(s), {"cache", "snap"})
Home(s) == CHOOSE h \in Sandboxes(s) : \A g \in Sandboxes(s) \ {h} : Precedes(g, h)

\* The variables of the specs survive every revert of the chain they point into.
\* When a test starts, every handle in scope still points at a contract of its
\* kind, and that contract at contracts of the kinds its recipe asks for.
HandlesLive ==
  run.phase = "body" =>
    \A h \in InScope(run.at) :
      /\ h.addr \in DOMAIN node.chain
      /\ node.chain[h.addr].kind = h.kind
      /\ \A j \in Recipes[h.kind] :
           /\ node.chain[h.addr].refs[j] < h.addr
           /\ node.chain[node.chain[h.addr].refs[j]].kind = j

\* "It snapshots and restores between each test": beyond the world its sandbox
\* saved, a test finds only contracts that hooks around it deployed for this
\* very test, and holds a handle to each of them.
NoLeftovers ==
  run.phase = "body" /\ Sandboxes(run.at) # {} =>
    \A i \in (Len(built[Home(run.at)]) + 1)..Len(node.chain) :
      \E h \in InScope(run.at) : h.addr = i

\* The stack of cacheBeforeEach holds one snapshot for each initialized cache
\* around the place Mocha is at, all of them still known to the node, also when
\* initializers throw; between two files it is empty.
StackMatchesSuites ==
  run.phase \in {"before", "beforeEach", "body", "afterEach"} =>
    /\ Len(SNAPSHOTS) = Cardinality({h \in HooksOf(Around(run.at), {"cache"}) : initialized[h]})
    /\ \A i \in DOMAIN SNAPSHOTS : SNAPSHOTS[i] \in DOMAIN node.snaps

\* The two sandboxes implement the isolation of tests: the entries of other
\* files and of killed processes are left out of a world.
OwnWorld(chain, s) ==
  LET Own(e) == e.file = File(s) /\ e.session = session
  IN  SelectSeq(chain, Own)

Abstract == INSTANCE TestIsolation WITH
  home    <- [s \in {t \in Suites : Sandboxes(t) # {}} |-> Home(s)],
  fixture <- [h \in Hooks |-> OwnWorld(built[h], h.suite)],
  running <- IF run.phase = "body" THEN run.at ELSE 0,
  world   <- IF run.phase = "body" THEN OwnWorld(node.chain, run.at) ELSE <<>>

TestsIsolated == Abstract!Isolation

=============================================================================
