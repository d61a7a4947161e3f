------------------------- MODULE MultiSigOperator -------------------------
(***************************************************************************)
(* contracts/custom/MultiSigOperator.sol: the owners who, between them,    *)
(* act as operator of an ICManager.  An operator account submits one       *)
(* rebalance and one operation at a time, owners confirm what is current   *)
(* and execute it through the manager.                                     *)
(*                                                                         *)
(* The two proposals are handled alike, so each is one record:             *)
(*   content           currentRebalance or currentOperation.data           *)
(*   executed, numConfirmations, num                                       *)
(*   confirmed         the owners flagged in rebalanceConfirmed or         *)
(*                     operationConfirmed                                  *)
(*   next              rebalanceNum or operationNum                        *)
(* The manager is another contract: a call to it succeeds or reverts, and  *)
(* a revert undoes the whole transaction.                                  *)
(***************************************************************************)
EXTENDS Integers, FiniteSets

CONSTANTS Owners,
          numConfirmationsRequired,           \* for a rebalance
          numOperationConfirmationsRequired,
          Rebalances, Operations,             \* contents the operator submits
          Empty,                              \* the content before any submission
          MaxSubmissions                      \* bound on rebalanceNum and operationNum

ASSUME MultiSigAssumption ==
    /\ IsFiniteSet(Owners)
    /\ numConfirmationsRequired \in 1..Cardinality(Owners)
    /\ numOperationConfirmationsRequired \in 1..Cardinality(Owners)
    /\ MaxSubmissions \in Nat

VARIABLES rebalance, operation,
          lastCall,  \* what the last successful call to the manager carried
          assent     \* history: for each kind, the owners whose last word
                     \* since the last submission is a confirmation

multiSigVars == <<rebalance, operation, lastCall, assent>>

NoProposal ==
    [content |-> Empty, executed |-> FALSE, numConfirmations |-> 0, num |-> 0,
     confirmed |-> {}, next |-> 0]

MultiSigInit ==
    /\ rebalance = NoProposal
    /\ operation = NoProposal
    /\ lastCall = Empty
    /\ assent = [rebalance |-> {}, operation |-> {}]

-----------------------------------------------------------------------------
\* Faulty variant for mutation: the owners' flags are not cleared.
submittedKeepingFlags(r, content) ==
    [r EXCEPT !.content = content, !.executed = FALSE, !.numConfirmations = 0,
              !.num = r.next, !.next = @ + 1]

\* A submission replaces the current proposal and clears every owner's flag;
\* the proposal keeps the number before it is incremented.
submitted(r, content) ==
    [content |-> content, executed |-> FALSE, numConfirmations |-> 0,
     num |-> r.next, confirmed |-> {}, next |-> r.next + 1]

canConfirm(r, owner) == ~r.executed /\ owner \notin r.confirmed

confirmed(r, owner) ==
    [r EXCEPT !.numConfirmations = @ + 1, !.confirmed = @ \cup {owner}]

canRevoke(r, owner) == ~r.executed /\ owner \in r.confirmed

revoked(r, owner) ==
    [r EXCEPT !.numConfirmations = @ - 1, !.confirmed = @ \ {owner}]

\* Faulty variant for mutation: one confirmation short.
canExecuteShort(r, required) == ~r.executed /\ r.numConfirmations + 1 >= required

\* Any owner may execute, one who has not confirmed too.
canExecute(r, required) == ~r.executed /\ r.numConfirmations >= required

-----------------------------------------------------------------------------
\* The priority owner reaches the manager without a proposal.
priorityRebalance(content) ==
    /\ lastCall' = content
    /\ UNCHANGED <<rebalance, operation, assent>>

submitRebalance(content) ==
    /\ rebalance.next < MaxSubmissions
    /\ rebalance' = submitted(rebalance, content)
    /\ assent' = [assent EXCEPT !.rebalance = {}]
    /\ UNCHANGED <<operation, lastCall>>

confirmRebalance(owner) ==
    /\ canConfirm(rebalance, owner)
    /\ rebalance' = confirmed(rebalance, owner)
    /\ assent' = [assent EXCEPT !.rebalance = @ \cup {owner}]
    /\ UNCHANGED <<operation, lastCall>>

revokeConfirmationRebalance(owner) ==
    /\ canRevoke(rebalance, owner)
    /\ rebalance' = revoked(rebalance, owner)
    /\ assent' = [assent EXCEPT !.rebalance = @ \ {owner}]
    /\ UNCHANGED <<operation, lastCall>>

\* The proposal before the first submission is one too: no components, no
\* units.
executeRebalance ==
    /\ canExecute(rebalance, numConfirmationsRequired)
    /\ rebalance' = [rebalance EXCEPT !.executed = TRUE]
    /\ lastCall' = rebalance.content
    /\ UNCHANGED <<operation, assent>>

submitOperation(data) ==
    /\ operation.next < MaxSubmissions
    /\ operation' = submitted(operation, data)
    /\ assent' = [assent EXCEPT !.operation = {}]
    /\ UNCHANGED <<rebalance, lastCall>>

confirmOperation(owner) ==
    /\ canConfirm(operation, owner)
    /\ operation' = confirmed(operation, owner)
    /\ assent' = [assent EXCEPT !.operation = @ \cup {owner}]
    /\ UNCHANGED <<rebalance, lastCall>>

revokeConfirmationOperation(owner) ==
    /\ canRevoke(operation, owner)
    /\ operation' = revoked(operation, owner)
    /\ assent' = [assent EXCEPT !.operation = @ \ {owner}]
    /\ UNCHANGED <<rebalance, lastCall>>

\* A call without data reverts: the manager has no fallback function.
executeOperation ==
    /\ canExecute(operation, numOperationConfirmationsRequired)
    /\ operation.content # Empty
    /\ operation' = [operation EXCEPT !.executed = TRUE]
    /\ lastCall' = operation.content
    /\ UNCHANGED <<rebalance, assent>>

MultiSigNext ==
    \/ \E r \in Rebalances : priorityRebalance(r) \/ submitRebalance(r)
    \/ \E o \in Owners : confirmRebalance(o) \/ revokeConfirmationRebalance(o)
    \/ executeRebalance
    \/ \E d \in Operations : submitOperation(d)
    \/ \E o \in Owners : confirmOperation(o) \/ revokeConfirmationOperation(o)
    \/ executeOperation

MultiSigSpec == MultiSigInit /\ [][MultiSigNext]_multiSigVars

-----------------------------------------------------------------------------
ProposalType(contents) ==
    [content : contents \cup {Empty}, executed : BOOLEAN, numConfirmations : Nat,
     num : Nat, confirmed : SUBSET Owners, next : Nat]

\* Every variable keeps its type; the counter of confirmations, a uint256,
\* is never decremented below zero.
MultiSigTypeOK ==
    /\ rebalance \in ProposalType(Rebalances)
    /\ operation \in ProposalType(Operations)
    /\ lastCall \in Rebalances \cup Operations \cup {Empty}
    /\ assent \in [rebalance : SUBSET Owners, operation : SUBSET Owners]

\* Through every order of submissions, confirmations and revocations, each
\* proposal's counter is the number of owners whose last word on it, since
\* it was submitted, is a confirmation, and those are the owners flagged.
ConfirmationsCounted ==
    /\ rebalance.confirmed = assent.rebalance
    /\ rebalance.numConfirmations = Cardinality(assent.rebalance)
    /\ operation.confirmed = assent.operation
    /\ operation.numConfirmations = Cardinality(assent.operation)

\* Whatever happens after a proposal was executed, short of a new submission,
\* at least as many owners as required stand behind it.
ExecutedByQuorum ==
    /\ rebalance.executed => Cardinality(assent.rebalance) >= numConfirmationsRequired
    /\ operation.executed => Cardinality(assent.operation) >= numOperationConfirmationsRequired

\* s comes after r.
ReopenedBySubmission(r, s) ==
    r.executed => \/ s.executed /\ s.content = r.content /\ s.next = r.next
                  \/ s.next > r.next /\ s.confirmed = {} /\ s.numConfirmations = 0

\* An executed proposal stays executed, and the same, until the operator
\* submits another, which starts without any confirmation: no submission is
\* carried out twice.
ExecutedOnce ==
    [][/\ ReopenedBySubmission(rebalance, rebalance')
       /\ ReopenedBySubmission(operation, operation')]_multiSigVars

=============================================================================
