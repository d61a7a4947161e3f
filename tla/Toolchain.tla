----------------------------- MODULE Toolchain -----------------------------
(***************************************************************************)
(* "yarn build && yarn test": typechain has succeeded before a session of   *)
(* tests starts, and no file of the build changes while tests run.          *)
(***************************************************************************)
EXTENDS GasMods, TestSandbox

toolVars == <<gasVars, sessionVars>>

ToolInit ==
  /\ GasInit
  /\ forest = <<>> /\ run = [Ended EXCEPT !.phase = "off"] /\ node = NewNode
  /\ SNAPSHOTS = <<>> /\ initialized = <<>> /\ snapshotId = <<>> /\ handles = <<>>
  /\ session = 0 /\ built = <<>>

Build == run.phase = "off" /\ GasStep /\ UNCHANGED sessionVars

\* The process of typechain, with its arguments, is gone.
Test ==
  /\ run.phase = "off" /\ task = "succeeded"
  /\ \E f \in Forests : StartSession(f)
  /\ run' = [Ended EXCEPT !.phase = "loaded"]
  /\ task' = "idle" /\ network' = "hardhat" /\ tasks' = 0
  /\ UNCHANGED <<node, disk, todo>>

ToolNext == Build \/ Test \/ (SessionStep /\ UNCHANGED gasVars)

ToolSpec == ToolInit /\ [][ToolNext]_toolVars

=============================================================================
