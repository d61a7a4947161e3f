--------------------------- MODULE TestIsolation ---------------------------
(***************************************************************************)
(* What a sandboxed test suite promises to the author of a test, without    *)
(* snapshots, stacks or hooks: every test starts in the world that the      *)
(* fixture of its suite set up, plus what hooks did for this test, whatever  *)
(* other tests did before it.  A world is the sequence of the entries of    *)
(* the chain that the tests' own file sent.                                *)
(***************************************************************************)
EXTENDS Naturals, Sequences

VARIABLES home,      \* the sandbox that the tests of a suite start from
          fixture,   \* the world that was set up in a sandbox
          running,   \* the suite of the test that starts, 0 between tests
          world      \* what that test finds, <<>> between tests

isolationVars == <<home, fixture, running, world>>

OnlyHooks(w) == \A i \in DOMAIN w : w[i].by = "hook"

StartsWith(w, base) == Len(base) <= Len(w) /\ SubSeq(w, 1, Len(base)) = base

Unbuilt == \A b \in DOMAIN fixture : fixture[b] = <<>>

IsolationInit == running = 0 /\ world = <<>> /\ Unbuilt

\* The fixture of sandbox b is set up, by hooks only.
SetUp(b) ==
  /\ running = 0 /\ UNCHANGED <<home, running, world>>
  /\ DOMAIN fixture' = DOMAIN fixture
  /\ \A c \in DOMAIN fixture \ {b} : fixture'[c] = fixture[c]
  /\ OnlyHooks(fixture'[b])

\* A test of suite s starts.
TestStarts(s) ==
  /\ running = 0 /\ running' = s
  /\ OnlyHooks(world')
  /\ StartsWith(world', fixture[home[s]])
  /\ UNCHANGED <<home, fixture>>

TestEnds == running # 0 /\ running' = 0 /\ world' = <<>> /\ UNCHANGED <<home, fixture>>

\* A new process has no fixture yet, and may run other suites.
NewProcess == running' = 0 /\ world' = <<>> /\ Unbuilt'

IsolationNext ==
  \/ \E b \in DOMAIN fixture : SetUp(b)
  \/ \E s \in DOMAIN home : TestStarts(s)
  \/ TestEnds
  \/ NewProcess

Isolation == IsolationInit /\ [][IsolationNext]_isolationVars

=============================================================================
