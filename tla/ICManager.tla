----------------------------- MODULE ICManager -----------------------------
(***************************************************************************)
(* contracts/custom/ICManager.sol, the manager contract of one SetToken,   *)
(* with lib/MutualUpgrade.sol and lib/TimeLockUpgrade.sol.  An operator    *)
(* and a methodologist share the permissions of the SetToken's manager:    *)
(* some calls are the operator's, some the methodologist's, some take      *)
(* both, and a change of the streaming fee takes a waiting period.         *)
(*                                                                         *)
(* A call is a record of a function and its argument: what the hash of the *)
(* call data identifies.  Of the SetToken and its fee module the model     *)
(* keeps what the manager's calls change, and of the SetToken as an ERC20  *)
(* the ICManager's own balance; the calls forwarded to the index module    *)
(* change nothing here.                                                    *)
(***************************************************************************)
EXTENDS PreciseUnitMath

CONSTANTS Callers,          \* holders of the two roles, and others
          Manager,          \* the ICManager's own address
          FeeSplits, Periods, StreamingFees,
          SetManagers,      \* managers of the SetToken that are asked for
          Recipients,       \* fee recipients that are asked for
          Accruals,         \* SetTokens an accrual may mint
          MaxUndistributed, \* bound on the ICManager's SetTokens
          MaxTime           \* bound on block.timestamp

ASSUME ICManagerAssumption ==
    /\ Manager \notin Callers
    /\ FeeSplits \subseteq Nat /\ Periods \subseteq Nat /\ Accruals \subseteq Nat
    /\ MaxUndistributed \in Nat /\ MaxTime \in Nat

VARIABLES operator, methodologist, operatorFeeSplit,
          mutualUpgrades,     \* the <<call, caller>> pairs registered
          timeLockPeriod,
          timeLockedUpgrades, \* the time each fee was registered at, or 0
          now,                \* block.timestamp
          setManager,         \* the SetToken's manager
          isFeeModule,        \* the fee module is INITIALIZED on the SetToken
          streamingFee, streamingFeeRecipient, \* in the fee module
          undistributed,      \* the ICManager's balance of SetTokens
          allowance           \* others may take some of that balance

roleVars == <<operator, methodologist>>
lockVars == <<timeLockPeriod, timeLockedUpgrades, now>>
setVars == <<setManager, isFeeModule, streamingFee, streamingFeeRecipient, allowance>>
managerVars == <<roleVars, operatorFeeSplit, mutualUpgrades, lockVars, setVars,
                 undistributed>>

Call(function, arguments) == [function : {function}, argument : arguments]

MutualCalls ==
    Call("updateFeeSplit", FeeSplits) \cup Call("setTimeLockPeriod", Periods)
        \cup Call("updateManager", SetManagers)
        \cup Call("updateFeeRecipient", Recipients)

ICManagerInit ==
    /\ operator \in Callers
    /\ methodologist \in Callers
    /\ operatorFeeSplit \in {s \in FeeSplits : s <= PRECISE_UNIT}
    /\ mutualUpgrades = {}
    /\ timeLockPeriod = 0
    /\ timeLockedUpgrades = [f \in StreamingFees |-> 0]
    /\ now = 1
    /\ setManager = Manager
    /\ isFeeModule = TRUE
    /\ streamingFee \in StreamingFees
    /\ streamingFeeRecipient = Manager
    /\ undistributed = 0
    /\ allowance = FALSE

tick ==
    /\ now < MaxTime
    /\ now' = now + 1
    /\ UNCHANGED <<roleVars, operatorFeeSplit, mutualUpgrades, timeLockPeriod,
                   timeLockedUpgrades, setVars, undistributed>>

-----------------------------------------------------------------------------
(***************************************************************************)
(* The modifier mutualUpgrade(operator, methodologist): the first of the   *)
(* two calls is registered, the second spends what the other registered    *)
(* and runs the function.                                                  *)
(***************************************************************************)
getNonCaller(caller) == IF caller = operator THEN methodologist ELSE operator

register(caller, call) ==
    /\ caller \in {operator, methodologist}
    /\ <<call, getNonCaller(caller)>> \notin mutualUpgrades
    /\ mutualUpgrades' = mutualUpgrades \cup {<<call, caller>>}
    /\ UNCHANGED <<roleVars, operatorFeeSplit, lockVars, setVars, undistributed>>

\* Faulty variant for mutation: the other's registration is kept.
agreeAgain(caller, call) ==
    /\ caller \in {operator, methodologist}
    /\ <<call, getNonCaller(caller)>> \in mutualUpgrades
    /\ UNCHANGED mutualUpgrades

agree(caller, call) ==
    /\ caller \in {operator, methodologist}
    /\ <<call, getNonCaller(caller)>> \in mutualUpgrades
    /\ mutualUpgrades' = mutualUpgrades \ {<<call, getNonCaller(caller)>>}

-----------------------------------------------------------------------------
\* StreamingFeeModule.accrueFee: mints to the recipient.
afterAccrual(minted) ==
    IF streamingFeeRecipient = Manager THEN undistributed + minted ELSE undistributed

\* Anyone may make the fee accrue without distributing it.
accrueFee(minted) ==
    /\ isFeeModule
    /\ undistributed' = afterAccrual(minted)
    /\ undistributed' <= MaxUndistributed
    /\ UNCHANGED <<roleVars, operatorFeeSplit, mutualUpgrades, lockVars, setVars>>

\* What the operator is paid of a balance; the methodologist is paid the rest.
operatorTake(balance) == preciseMul(balance, operatorFeeSplit)

\* Accrues and pays out all the ICManager holds.
accrueAndDistribute(minted) ==
    /\ isFeeModule
    /\ afterAccrual(minted) >= operatorTake(afterAccrual(minted))
    /\ undistributed' = 0

accrueFeeAndDistribute(minted) ==
    /\ accrueAndDistribute(minted)
    /\ UNCHANGED <<roleVars, operatorFeeSplit, mutualUpgrades, lockVars, setVars>>

-----------------------------------------------------------------------------
\* Faulty variant for mutation: the split changes without a distribution.
updateFeeSplitInPlace(caller, newFeeSplit) ==
    LET call == [function |-> "updateFeeSplit", argument |-> newFeeSplit]
    IN  \/ register(caller, call)
        \/ /\ agree(caller, call)
           /\ newFeeSplit <= PRECISE_UNIT
           /\ operatorFeeSplit' = newFeeSplit
           /\ UNCHANGED <<roleVars, lockVars, setVars, undistributed>>

updateFeeSplit(caller, newFeeSplit) ==
    LET call == [function |-> "updateFeeSplit", argument |-> newFeeSplit]
    IN  \/ register(caller, call)
        \/ /\ agree(caller, call)
           /\ newFeeSplit <= PRECISE_UNIT
           /\ \E minted \in Accruals : accrueAndDistribute(minted)
           /\ operatorFeeSplit' = newFeeSplit
           /\ UNCHANGED <<roleVars, lockVars, setVars>>

setTimeLockPeriod(caller, newTimeLockPeriod) ==
    LET call == [function |-> "setTimeLockPeriod", argument |-> newTimeLockPeriod]
    IN  \/ register(caller, call)
        \/ /\ agree(caller, call)
           /\ timeLockPeriod' = newTimeLockPeriod
           /\ UNCHANGED <<roleVars, operatorFeeSplit, timeLockedUpgrades, now,
                          setVars, undistributed>>

updateManager(caller, newManager) ==
    LET call == [function |-> "updateManager", argument |-> newManager]
    IN  \/ register(caller, call)
        \/ /\ agree(caller, call)
           /\ setManager = Manager
           /\ setManager' = newManager
           /\ UNCHANGED <<roleVars, operatorFeeSplit, lockVars, isFeeModule,
                          streamingFee, streamingFeeRecipient, allowance,
                          undistributed>>

updateFeeRecipient(caller, newFeeRecipient) ==
    LET call == [function |-> "updateFeeRecipient", argument |-> newFeeRecipient]
    IN  \/ register(caller, call)
        \/ /\ agree(caller, call)
           /\ setManager = Manager /\ isFeeModule
           /\ streamingFeeRecipient' = newFeeRecipient
           /\ UNCHANGED <<roleVars, operatorFeeSplit, lockVars, setManager,
                          isFeeModule, streamingFee, allowance, undistributed>>

-----------------------------------------------------------------------------
(***************************************************************************)
(* updateStreamingFee: its modifier timeLockUpgrade comes before           *)
(* onlyMethodologist, so that anyone's call registers.                     *)
(***************************************************************************)
changeFee(caller, newFee) ==
    /\ caller = methodologist
    /\ setManager = Manager /\ isFeeModule
    /\ \E minted \in Accruals : undistributed' = afterAccrual(minted)
    /\ undistributed' <= MaxUndistributed
    /\ streamingFee' = newFee
    /\ UNCHANGED <<roleVars, operatorFeeSplit, mutualUpgrades, timeLockPeriod, now,
                   setManager, isFeeModule, streamingFeeRecipient, allowance>>

updateStreamingFeeUnlocked(caller, newFee) ==
    /\ timeLockPeriod = 0
    /\ changeFee(caller, newFee)
    /\ UNCHANGED timeLockedUpgrades

registerStreamingFee(caller, newFee) ==
    /\ timeLockPeriod > 0
    /\ timeLockedUpgrades[newFee] = 0
    /\ timeLockedUpgrades' = [timeLockedUpgrades EXCEPT ![newFee] = now]
    /\ UNCHANGED <<roleVars, operatorFeeSplit, mutualUpgrades, timeLockPeriod, now,
                   setVars, undistributed>>

\* Faulty variant for mutation: the registration is not reset.
executeStreamingFeeAgain(caller, newFee) ==
    /\ timeLockPeriod > 0
    /\ timeLockedUpgrades[newFee] # 0
    /\ now >= timeLockedUpgrades[newFee] + timeLockPeriod
    /\ changeFee(caller, newFee)
    /\ UNCHANGED timeLockedUpgrades

executeStreamingFee(caller, newFee) ==
    /\ timeLockPeriod > 0
    /\ timeLockedUpgrades[newFee] # 0
    /\ now >= timeLockedUpgrades[newFee] + timeLockPeriod
    /\ timeLockedUpgrades' = [timeLockedUpgrades EXCEPT ![newFee] = 0]
    /\ changeFee(caller, newFee)

-----------------------------------------------------------------------------
\* SetToken.removeModule for the fee module.  No call of the ICManager
\* initializes it again.
removeFeeModule(caller) ==
    /\ caller = operator
    /\ setManager = Manager /\ isFeeModule
    /\ isFeeModule' = FALSE
    /\ UNCHANGED <<roleVars, operatorFeeSplit, mutualUpgrades, lockVars, setManager,
                   streamingFee, streamingFeeRecipient, allowance, undistributed>>

(***************************************************************************)
(* interactModule: the address called is not the fee module; whether it is *)
(* a module of the SetToken is not asked.  The SetToken itself obeys its   *)
(* manager, and, whoever its manager is, the holder of a balance: the      *)
(* ICManager may be made to transfer SetTokens, or to let others take      *)
(* them; a module that redeems takes them likewise.  A call elsewhere      *)
(* changes nothing here.                                                   *)
(***************************************************************************)
setManagerOf(newManager) ==
    /\ setManager = Manager
    /\ setManager' = newManager
    /\ UNCHANGED <<undistributed, allowance>>

transfer(quantity) ==
    /\ quantity <= undistributed
    /\ undistributed' = undistributed - quantity
    /\ UNCHANGED <<setManager, allowance>>

approve(status) ==
    /\ allowance' = status
    /\ UNCHANGED <<setManager, undistributed>>

interactModule(caller) ==
    /\ caller = operator
    /\ \/ \E newManager \in SetManagers : setManagerOf(newManager)
       \/ \E quantity \in 1..MaxUndistributed : transfer(quantity)
       \/ \E status \in BOOLEAN : approve(status)
    /\ UNCHANGED <<roleVars, operatorFeeSplit, mutualUpgrades, lockVars, isFeeModule,
                   streamingFee, streamingFeeRecipient>>

\* Those whom the ICManager was made to approve take some of its SetTokens,
\* and may take more if the allowance is not used up.
transferFrom(quantity, status) ==
    /\ allowance
    /\ quantity <= undistributed
    /\ undistributed' = undistributed - quantity
    /\ allowance' = status
    /\ UNCHANGED <<roleVars, operatorFeeSplit, mutualUpgrades, lockVars, setManager,
                   isFeeModule, streamingFee, streamingFeeRecipient>>

\* Anyone may send SetTokens to the ICManager.
receive(quantity) ==
    /\ undistributed' = undistributed + quantity
    /\ undistributed' <= MaxUndistributed
    /\ UNCHANGED <<roleVars, operatorFeeSplit, mutualUpgrades, lockVars, setVars>>

updateMethodologist(caller, newMethodologist) ==
    /\ caller = methodologist
    /\ methodologist' = newMethodologist
    /\ UNCHANGED <<operator, operatorFeeSplit, mutualUpgrades, lockVars, setVars,
                   undistributed>>

updateOperator(caller, newOperator) ==
    /\ caller = operator
    /\ operator' = newOperator
    /\ UNCHANGED <<methodologist, operatorFeeSplit, mutualUpgrades, lockVars, setVars,
                   undistributed>>

\* Another manager of the SetToken has its own way with it.
otherManager(newManager, newFee, newRecipient) ==
    /\ setManager # Manager
    /\ setManager' = newManager
    /\ isFeeModule' = TRUE
    /\ streamingFee' = newFee
    /\ streamingFeeRecipient' = newRecipient
    /\ UNCHANGED <<roleVars, operatorFeeSplit, mutualUpgrades, lockVars, allowance,
                   undistributed>>

=============================================================================
