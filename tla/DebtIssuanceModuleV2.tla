----------------------- MODULE DebtIssuanceModuleV2 -----------------------
(***************************************************************************)
(* contracts/protocol/modules/v1/DebtIssuanceModuleV2.sol with             *)
(* protocol/lib/IssuanceValidationUtils.sol: for components whose balance  *)
(* may be off by a wei after a transfer.  A transfer may move any amount;  *)
(* instead, the balance it leaves is checked against the default position. *)
(***************************************************************************)
EXTENDS DebtIssuanceModule

CONSTANT TransferErrors  \* what a transfer may add to the amount asked for

ASSUME TransferErrorsAssumption == TransferErrors \subseteq Int

-----------------------------------------------------------------------------
\* validateCollateralizationPostTransferInPreHook.
ValidIn(c, balance, initialSetSupply, quantity) ==
    quantity > 0 =>
        balance >= preciseMulCeil(initialSetSupply, getDefaultPositionRealUnit(positions, c))
                     + quantity

\* Faulty variant for mutation: the position is rounded down, and a wei less
\* is enough.
ValidOutLoose(c, balance, finalSetSupply, quantity) ==
    quantity > 0 =>
        balance + 1 >= preciseMul(finalSetSupply, getDefaultPositionRealUnit(positions, c))

\* validateCollateralizationPostTransferOut.
ValidOut(c, balance, finalSetSupply, quantity) ==
    quantity > 0 =>
        balance >= preciseMulCeil(finalSetSupply, getDefaultPositionRealUnit(positions, c))

\* What moves when a quantity is asked for and the transfer errs by e.
Moved(quantity, e) == IF quantity = 0 THEN 0 ELSE quantity + e

\* In each component: equity in, checked; hooks; then the debt's hooks and
\* debt out, checked.
issueV2(quantity, issueHook, in, out) ==
    LET total == QuantityWithFees(quantity)
        equity(c) == EquityIn(c, total)
        debt(c) == DebtOut(c, total)
        received(c) == balances[c] + Moved(equity(c), in[c])
        hooked(c) == received(c) - Rounds(equity(c), 0) * issueHook[c]
        after(c) == hooked(c) - Rounds(0, debt(c)) * issueHook[c]
                        - Moved(debt(c), out[c])
    IN  /\ isIssuanceModule
        /\ quantity > 0
        /\ \A c \in Components :
            /\ ValidIn(c, received(c), totalSupply, equity(c))
            /\ hooked(c) >= 0
            /\ after(c) \in 0..MaxBalance
            /\ ValidOut(c, after(c), totalSupply + total, debt(c))
        /\ balances' = [c \in Components |-> after(c)]
        /\ totalSupply' = totalSupply + quantity
                            + MintedFees(issuanceSettings.managerIssueFee, quantity)
        /\ totalSupply' <= MaxSupply
        /\ UNCHANGED <<positions, issuanceVars>>

\* In each component: debt in, checked; its hooks; then the equity's hooks
\* and equity out, checked.
redeemV2(quantity, redeemHook, in, out) ==
    LET net == QuantityNetFees(quantity)
        equity(c) == EquityOut(c, net)
        debt(c) == DebtIn(c, net)
        received(c) == balances[c] + Moved(debt(c), in[c])
        after(c) == received(c) + Rounds(equity(c), debt(c)) * redeemHook[c]
                        - Moved(equity(c), out[c])
    IN  /\ isIssuanceModule
        /\ quantity > 0 /\ quantity <= totalSupply
        /\ net >= 0
        /\ \A c \in Components :
            /\ ValidIn(c, received(c), totalSupply, debt(c))
            /\ after(c) \in 0..MaxBalance
            /\ ValidOut(c, after(c), totalSupply - net, equity(c))
        /\ balances' = [c \in Components |-> after(c)]
        /\ totalSupply' = totalSupply - quantity
                            + MintedFees(issuanceSettings.managerRedeemFee, quantity)
        /\ UNCHANGED <<positions, issuanceVars>>

=============================================================================
