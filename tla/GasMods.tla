------------------------------ MODULE GasMods ------------------------------
(***************************************************************************)
(* The Hardhat subtasks of tasks/subtasks.ts.  The typechain subtask writes *)
(* a fixed gas limit into every function of the external artifacts, on      *)
(* disk and under version control, lets typechain read them and writes them *)
(* back without it.  An artifact is its ABI: a function from its elements   *)
(* to the gas field of each.                                               *)
(*                                                                         *)
(* Any step may throw, and the process may be killed at any point: also     *)
(* while it writes a file, which is then TORN and no JSON any more.         *)
(***************************************************************************)
EXTENDS Integers, FiniteSets

CONSTANTS Artifacts,    \* the files of external/abi/perp
          MaxTasks      \* how often typechain is run

VARIABLES disk,      \* the external artifacts
          task,      \* the typechain task
          todo,      \* the artifacts its loop has still to write
          network,   \* the network it was started for
          tasks      \* how often it was started

gasVars == <<disk, task, todo, network, tasks>>

\* The elements of an ABI: only functions get a gas limit.
Elements == {"function", "event"}
NoGas == 0
Committed == [e \in Elements |-> NoGas]
Torn == [e \in {} |-> NoGas]

\* hardhat.config.ts, in millions: a network without a limit has "auto", which
\* is no number.
AutoLimit == 0
Networks == [hardhat |-> 12, localhost |-> 120, kovan |-> AutoLimit]

\* Stays a million below the limit of the network.
gasLimit(net) == Networks[net] - 1

\* Faulty variant for mutation: a gas field that is there wins over the new one.
addGasToAbiMethodsOnce(net, abi) ==
  [e \in DOMAIN abi |-> IF e = "function" /\ abi[e] = NoGas THEN gasLimit(net) ELSE abi[e]]

addGasToAbiMethods(net, abi) ==
  [e \in DOMAIN abi |-> IF e = "function" THEN gasLimit(net) ELSE abi[e]]

removeGasFromAbiMethods(abi) ==
  [e \in DOMAIN abi |-> IF e = "function" THEN NoGas ELSE abi[e]]

GasInit ==
  /\ disk = [a \in Artifacts |-> Committed]
  /\ task = "idle" /\ todo = {} /\ network = "hardhat" /\ tasks = 0

\* npx hardhat typechain --network net
StartTypechain(net) ==
  /\ task \in {"idle", "failed", "succeeded"} /\ tasks < MaxTasks
  /\ task' = "adding" /\ todo' = Artifacts /\ network' = net /\ tasks' = tasks + 1
  /\ UNCHANGED disk

\* One round of the first loop.  require throws on a torn file, BigNumber.from
\* on "auto".
AddGas(a) ==
  /\ task = "adding" /\ a \in todo
  /\ IF disk[a] = Torn \/ Networks[network] = AutoLimit
     THEN task' = "failed" /\ todo' = {} /\ UNCHANGED disk
     ELSE /\ disk' = [disk EXCEPT ![a] = addGasToAbiMethods(network, @)]
          /\ todo' = todo \ {a}
          /\ UNCHANGED task
  /\ UNCHANGED <<network, tasks>>

\* runSuper, which reads the artifacts and writes the typechain directory.
\* If it throws, so does the subtask.
RunSuper(ok) ==
  /\ task = "adding" /\ todo = {}
  /\ IF ok THEN task' = "removing" /\ todo' = Artifacts
           ELSE task' = "failed" /\ UNCHANGED todo
  /\ UNCHANGED <<disk, network, tasks>>

\* One round of the second loop, from what the first kept in memory.
RemoveGas(a) ==
  /\ task = "removing" /\ a \in todo
  /\ disk' = [disk EXCEPT ![a] = removeGasFromAbiMethods(@)]
  /\ todo' = todo \ {a}
  /\ UNCHANGED <<task, network, tasks>>

TypechainDone ==
  /\ task = "removing" /\ todo = {}
  /\ task' = "succeeded"
  /\ UNCHANGED <<disk, todo, network, tasks>>

\* The process is killed, and may leave the file it was writing torn.
KillTypechain ==
  /\ task \in {"adding", "removing"}
  /\ task' = "failed" /\ todo' = {}
  /\ \/ UNCHANGED disk
     \/ \E a \in todo : disk' = [disk EXCEPT ![a] = Torn]
  /\ UNCHANGED <<network, tasks>>

GasStep ==
  \/ \E net \in DOMAIN Networks : StartTypechain(net)
  \/ \E a \in Artifacts : AddGas(a) \/ RemoveGas(a)
  \/ \E ok \in BOOLEAN : RunSuper(ok)
  \/ TypechainDone
  \/ KillTypechain

-----------------------------------------------------------------------------
\* "Temporarily rewrites artifact so typechain picks up the network specific gas
\* requirement without introducing any git changes": typechain reads the limit
\* of its own network in every artifact, never one that an interrupted run for
\* another network left there, and a run that succeeds leaves every artifact as
\* it is committed, also the ones that earlier runs failed to restore.
ArtifactsRestored ==
  /\ task = "adding" /\ todo = {} =>
       \A a \in Artifacts : disk[a]["function"] = gasLimit(network)
  /\ task = "succeeded" => \A a \in Artifacts : disk[a] = Committed

=============================================================================
