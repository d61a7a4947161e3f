------------------------ MODULE BasicIssuanceModule ------------------------
(***************************************************************************)
(* contracts/protocol/modules/v1/BasicIssuanceModule.sol: anyone exchanges *)
(* components for SetTokens and back, at the default position units.  The  *)
(* manager's pre-issue hook can only refuse an issuance, which a behaviour *)
(* may do anyway.  The module cannot be removed from a SetToken.           *)
(***************************************************************************)
EXTENDS Vault

\* Faulty variant for mutation: rounded down.
getRequiredComponentUnitsFloor(c, quantity) ==
    preciseMul(getDefaultPositionRealUnit(positions, c), quantity)

\* What the issuer of a quantity sends in, rounded up.
getRequiredComponentUnitsForIssue(c, quantity) ==
    preciseMulCeil(getDefaultPositionRealUnit(positions, c), quantity)

\* What the redeemer of a quantity is sent, rounded down.
RedeemedComponentUnits(c, quantity) ==
    preciseMul(quantity, getDefaultPositionRealUnit(positions, c))

OnlyDefaultPositions ==
    \A c \in Entries(positions.components) : ~hasExternalPosition(positions, c)

issue(quantity) ==
    LET received(c) == IF isComponent(positions, c)
                       THEN getRequiredComponentUnitsForIssue(c, quantity)
                       ELSE 0
    IN  /\ quantity > 0
        /\ OnlyDefaultPositions
        /\ totalSupply + quantity <= MaxSupply
        /\ balances' = [c \in Components |-> balances[c] + received(c)]
        /\ \A c \in Components : balances'[c] <= MaxBalance
        /\ totalSupply' = totalSupply + quantity
        /\ UNCHANGED positions

\* _burn reverts unless the caller holds the quantity, and a transfer reverts
\* unless the SetToken holds the component.
redeem(quantity) ==
    LET sent(c) == IF isComponent(positions, c)
                   THEN RedeemedComponentUnits(c, quantity)
                   ELSE 0
    IN  /\ quantity > 0
        /\ quantity <= totalSupply
        /\ OnlyDefaultPositions
        /\ \A c \in Components : sent(c) <= balances[c]
        /\ balances' = [c \in Components |-> balances[c] - sent(c)]
        /\ totalSupply' = totalSupply - quantity
        /\ UNCHANGED positions

=============================================================================
