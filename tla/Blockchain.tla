----------------------------- MODULE Blockchain -----------------------------
(***************************************************************************)
(* The Blockchain class of utils/common/blockchainUtils.ts over the node it *)
(* talks to.                                                               *)
(*                                                                         *)
(* The node (external) is a record: "chain" is the history of what was      *)
(* sent to it, an entry per transaction, "snaps" the snapshots it still     *)
(* holds, by identifier, and "nextId" the identifier it gives next.  The    *)
(* address of a contract is the index of the entry that deployed it: an     *)
(* address derives from the sender's nonce, so what is deployed after a     *)
(* revert gets the addresses that the reverted deployments had.             *)
(***************************************************************************)
EXTENDS Naturals, Sequences

\* A node nothing was sent to.
NewNode == [chain |-> <<>>, snaps |-> <<>>, nextId |-> 1]

\* evm_snapshot: the history is kept under a new identifier.
EvmSnapshot(node) ==
  [node EXCEPT !.snaps = [id \in DOMAIN @ \cup {node.nextId} |->
                            IF id = node.nextId THEN node.chain ELSE @[id]],
               !.nextId = @ + 1]

\* evm_revert: a known snapshot is restored and is gone, with all later ones.
\* For an identifier the node does not hold the answer is false, no error.
EvmRevert(node, id) ==
  IF id \in DOMAIN node.snaps
  THEN [node EXCEPT !.chain = node.snaps[id],
                    !.snaps = [i \in {j \in DOMAIN @ : j < id} |-> @[i]]]
  ELSE node

\* Transactions, each mined at once.
EvmSend(node, entries) == [node EXCEPT !.chain = @ \o entries]

-----------------------------------------------------------------------------
\* The constructor: no snapshot was taken yet.
NoSnapshot == 0

\* saveSnapshotAsync returns the identifier that the node gives and keeps it
\* as _snapshotId.
saveSnapshotAsync(node) == EvmSnapshot(node)
SavedId(node) == node.nextId

\* revertAsync goes back to the _snapshotId of the instance, revertByIdAsync to
\* a given one.  Neither looks at the node's answer.
revertAsync(node, snapshotId) == EvmRevert(node, snapshotId)
revertByIdAsync(node, id) == EvmRevert(node, id)

=============================================================================
