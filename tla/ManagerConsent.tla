--------------------------- MODULE ManagerConsent ---------------------------
(***************************************************************************)
(* The ICManager over time: its next-state relation, with the history of   *)
(* calls that says who asked for what, and what that history promises.     *)
(***************************************************************************)
EXTENDS ICManager, FiniteSets, TLC

CONSTANT MaxCalls  \* bound on the unspent calls of all accounts together

VARIABLES unspent,      \* calls of each account for each mutual change, less
                        \* those the executions of that change have used
          lastChange,   \* the time each fee was last put in force by a call
                        \* that had to wait, or 0
          accruedUnder  \* the splits under which what is undistributed accrued

history == <<unspent, lastChange, accruedUnder>>
consentVars == <<managerVars, history>>

ConsentInit ==
    /\ ICManagerInit
    /\ unspent = [c \in MutualCalls |-> [a \in Callers |-> 0]]
    /\ lastChange = [f \in StreamingFees |-> 0]
    /\ accruedUnder = {}

-----------------------------------------------------------------------------
\* One of the changes that take both parties.
mutualChange(caller, call) ==
    \/ call.function = "updateFeeSplit" /\ updateFeeSplit(caller, call.argument)
    \/ call.function = "setTimeLockPeriod" /\ setTimeLockPeriod(caller, call.argument)
    \/ call.function = "updateManager" /\ updateManager(caller, call.argument)
    \/ call.function = "updateFeeRecipient" /\ updateFeeRecipient(caller, call.argument)

\* An execution uses one call of each party; if one account is both, two of
\* its calls.
Counted(caller, call) ==
    LET called == [unspent[call] EXCEPT ![caller] = @ + 1]
        other == getNonCaller(caller)
    IN  IF <<call, other>> \in mutualUpgrades
        THEN [[called EXCEPT ![caller] = @ - 1] EXCEPT ![other] = @ - 1]
        ELSE called

\* What came in came in under the present split; of what goes out nobody can
\* tell the split, unless all of it goes.
Accrued == IF undistributed' = 0 THEN {}
           ELSE IF undistributed' > undistributed
           THEN accruedUnder \cup {operatorFeeSplit}
           ELSE accruedUnder

Mutual(caller, call) ==
    /\ mutualChange(caller, call)
    /\ unspent' = [unspent EXCEPT ![call] = Counted(caller, call)]
    /\ Cardinality({x \in MutualCalls \X Callers \X (1..MaxCalls + 1) :
                        x[3] <= unspent'[x[1]][x[2]]}) <= MaxCalls
    /\ accruedUnder' = Accrued
    /\ UNCHANGED lastChange

Accrual(minted) ==
    /\ accrueFee(minted)
    /\ accruedUnder' = Accrued
    /\ UNCHANGED <<unspent, lastChange>>

Distribution(minted) ==
    /\ accrueFeeAndDistribute(minted)
    /\ accruedUnder' = Accrued
    /\ UNCHANGED <<unspent, lastChange>>

FeeChange(caller, newFee) ==
    /\ \/ /\ updateStreamingFeeUnlocked(caller, newFee)
          /\ UNCHANGED lastChange
       \/ /\ executeStreamingFee(caller, newFee)
          /\ lastChange' = [lastChange EXCEPT ![newFee] = now]
    /\ accruedUnder' = Accrued
    /\ UNCHANGED unspent

Other(caller) ==
    /\ \/ \E f \in StreamingFees : registerStreamingFee(caller, f)
       \/ removeFeeModule(caller)
       \/ \E a \in Callers : updateMethodologist(caller, a) \/ updateOperator(caller, a)
    /\ UNCHANGED history

Interaction(caller) ==
    /\ interactModule(caller)
    /\ accruedUnder' = Accrued
    /\ UNCHANGED <<unspent, lastChange>>

Transfer(quantity) ==
    /\ receive(quantity) \/ \E status \in BOOLEAN : transferFrom(quantity, status)
    /\ accruedUnder' = Accrued
    /\ UNCHANGED <<unspent, lastChange>>

Environment ==
    /\ \/ tick
       \/ \E m \in SetManagers \cup {Manager}, f \in StreamingFees,
             r \in Recipients \cup {Manager} : otherManager(m, f, r)
    /\ UNCHANGED history

ConsentNext ==
    \/ \E a \in Callers, c \in MutualCalls : Mutual(a, c)
    \/ \E a \in Callers, f \in StreamingFees : FeeChange(a, f)
    \/ \E a \in Callers : Other(a) \/ Interaction(a)
    \/ \E minted \in Accruals : Accrual(minted) \/ Distribution(minted)
    \/ \E quantity \in 1..MaxUndistributed : Transfer(quantity)
    \/ Environment

ConsentSpec == ConsentInit /\ [][ConsentNext]_consentVars

\* For TLC, when no other address is one of the Callers.
ConsentSymmetry == Permutations(Callers)

-----------------------------------------------------------------------------
\* "Operator and Methodologist must each call this function to execute the
\* update": a change that takes both parties only happens for calls each of
\* them made for just that change, and no call serves for two changes,
\* whoever holds the roles in between.
MutualConsent ==
    \A c \in MutualCalls, a \in Callers :
        /\ unspent[c][a] >= 0
        /\ <<c, a>> \in mutualUpgrades => unspent[c][a] > 0

\* While there is a waiting period, putting the same fee in force twice takes
\* a registration of its own each time: the two are at least the period
\* apart.
NoticeOfItsOwn ==
    [][\A f \in StreamingFees :
         lastChange'[f] # lastChange[f] /\ lastChange[f] # 0
             => lastChange'[f] >= lastChange[f] + timeLockPeriod]_consentVars

\* "Accrue fee to operator and methodologist prior to new fee split": what
\* the ICManager holds came to it under the split it will be paid out by, if
\* it is paid out.  It is a promise about what is left to distribute: what the
\* operator makes the ICManager transfer, or lets others take, is divided by
\* no split.
SplitNotRetroactive == accruedUnder \subseteq {operatorFeeSplit}

\* "Operator and Methodologist must each call this function to execute the
\* update" of the SetToken's manager: while the ICManager is the manager, it
\* hands over only when both have called for it.
ManagerChangeAgreed ==
    [][setManager = Manager /\ setManager' # Manager =>
         LET call == [function |-> "updateManager", argument |-> setManager']
         IN  \E a \in {operator, methodologist} : <<call, a>> \in mutualUpgrades]_consentVars

=============================================================================
