---------------------------- MODULE VaultProofs ----------------------------
(***************************************************************************)
(* What the operations that several funds share do to the vault: for every *)
(* set of components, every quantity and every PRECISE_UNIT, issuance and  *)
(* redemption in kind, donations and swaps keep its types and the          *)
(* invariant of its positions, and none of them shrinks a surplus.         *)
(***************************************************************************)
EXTENDS BasicIssuanceModule, PositionBookProofs

VaultKept ==
    /\ balances \in [Components -> Nat]
    /\ totalSupply \in Nat
    /\ PositionsInv

\* A step that leaves the multiplier and every surplus at least as they were.
VaultStepOK ==
    /\ VaultKept'
    /\ positions'.positionMultiplier = positions.positionMultiplier
    /\ \A c \in Components : Surplus(c)' >= Surplus(c)

-----------------------------------------------------------------------------
LEMMA MultiplierPositive ==
    PositionsInv => positions.positionMultiplier \in Nat \ {0}
  BY DEF PositionsInv, StorageOK, StorageType, PositionsVisibleIn

\* The terms of a surplus are integers.
LEMMA SurplusTerms ==
    ASSUME VaultKept, NEW c \in Components
    PROVE  /\ getDefaultPositionRealUnit(positions, c) \in Nat
           /\ ~isComponent(positions, c) => getDefaultPositionRealUnit(positions, c) = 0
           /\ balances[c] \in Nat
           /\ totalSupply \in Nat
           /\ Surplus(c) \in Int
  <1>1. /\ getDefaultPositionRealUnit(positions, c) \in Nat
        /\ ~isComponent(positions, c) => getDefaultPositionRealUnit(positions, c) = 0
    BY RealUnitNat DEF VaultKept, PositionsInv
  <1>2. balances[c] \in Nat /\ totalSupply \in Nat
    BY DEF VaultKept
  <1> QED BY <1>1, <1>2, PreciseUnitAssumption DEF Surplus

\* A new SetToken holds nothing and owes nothing.
LEMMA VaultInitOK ==
    VaultInit => /\ VaultKept
                 /\ positions.positionMultiplier = PRECISE_UNIT
                 /\ \A c \in Components : Surplus(c) >= 0
  <1> SUFFICES ASSUME VaultInit
               PROVE  /\ VaultKept
                      /\ positions.positionMultiplier = PRECISE_UNIT
                      /\ \A c \in Components : Surplus(c) >= 0
    OBVIOUS
  <1>1. VaultKept
    BY PositionsInitOK DEF VaultInit, VaultKept
  <1>2. positions.positionMultiplier = PRECISE_UNIT
    BY DEF VaultInit, PositionsInit, InitialPositions
  <1>3. ASSUME NEW c \in Components PROVE Surplus(c) >= 0
    <2>1. getDefaultPositionRealUnit(positions, c) \in Nat
      BY <1>1, SurplusTerms
    <2>2. balances[c] = 0 /\ totalSupply = 0
      BY DEF VaultInit
    <2> QED BY <2>1, <2>2, PreciseUnitAssumption DEF Surplus
  <1> QED BY <1>1, <1>2, <1>3

\* Steps that touch neither positions, balances nor supply.
LEMMA VaultIdle ==
    ASSUME VaultKept, UNCHANGED vaultVars
    PROVE  VaultStepOK
  <1>1. positions' = positions /\ balances' = balances /\ totalSupply' = totalSupply
    BY DEF vaultVars
  <1>2. \A c \in Components : Surplus(c)' = Surplus(c)
    BY <1>1 DEF Surplus
  <1>3. \A c \in Components : Surplus(c) \in Int
    BY SurplusTerms
  <1> QED BY <1>1, <1>2, <1>3 DEF VaultStepOK, VaultKept, PositionsInv

\* Issuance takes in at least what the new supply is owed.
LEMMA IssueKeeps ==
    ASSUME VaultKept, NEW k \in Nat, issue(k)
    PROVE  VaultStepOK
  <1> DEFINE got(c) == IF isComponent(positions, c)
                       THEN getRequiredComponentUnitsForIssue(c, k)
                       ELSE 0
             real(c) == getDefaultPositionRealUnit(positions, c)
  <1>1. /\ positions' = positions
        /\ totalSupply' = totalSupply + k
        /\ balances' = [c \in Components |-> balances[c] + got(c)]
    BY DEF issue
  <1>2. ASSUME NEW c \in Components
        PROVE  /\ got(c) \in Nat
               /\ got(c) * PRECISE_UNIT >= real(c) * k
    <2>1. real(c) \in Nat /\ (~isComponent(positions, c) => real(c) = 0)
      BY SurplusTerms
    <2>2. CASE isComponent(positions, c)
      BY <2>1, <2>2, PreciseMulCeilCovers DEF getRequiredComponentUnitsForIssue
    <2>3. CASE ~isComponent(positions, c)
      BY <2>1, <2>3, PreciseUnitAssumption
    <2> QED BY <2>2, <2>3
  <1>3. ASSUME NEW c \in Components
        PROVE  /\ Surplus(c)' = balances'[c] * PRECISE_UNIT - real(c) * totalSupply'
               /\ Surplus(c) = balances[c] * PRECISE_UNIT - real(c) * totalSupply
               /\ real(c) \in Nat /\ balances[c] \in Nat /\ totalSupply \in Nat
    BY <1>1, SurplusTerms DEF Surplus
  <1> HIDE DEF got, real
  <1>4. VaultKept'
    BY <1>1, <1>2 DEF VaultKept, PositionsInv
  <1>5. ASSUME NEW c \in Components PROVE Surplus(c)' >= Surplus(c)
    BY <1>1, <1>2, <1>3, PaidInCovers
  <1> QED BY <1>1, <1>4, <1>5 DEF VaultStepOK

\* Redemption pays out at most what the burnt supply was owed.
LEMMA RedeemKeeps ==
    ASSUME VaultKept, NEW k \in Nat, redeem(k)
    PROVE  VaultStepOK
  <1> DEFINE paid(c) == IF isComponent(positions, c)
                        THEN RedeemedComponentUnits(c, k)
                        ELSE 0
             real(c) == getDefaultPositionRealUnit(positions, c)
  <1>1. /\ positions' = positions
        /\ k <= totalSupply
        /\ totalSupply' = totalSupply - k
        /\ \A c \in Components : paid(c) <= balances[c]
        /\ balances' = [c \in Components |-> balances[c] - paid(c)]
    BY DEF redeem
  <1>2. ASSUME NEW c \in Components
        PROVE  /\ paid(c) \in Nat
               /\ paid(c) * PRECISE_UNIT <= real(c) * k
    <2>1. real(c) \in Nat /\ (~isComponent(positions, c) => real(c) = 0)
      BY SurplusTerms
    <2>2. CASE isComponent(positions, c)
      <3>1. paid(c) \in Nat /\ paid(c) * PRECISE_UNIT <= k * real(c)
        BY <2>1, <2>2, PreciseMulFloor DEF RedeemedComponentUnits
      <3>2. k * real(c) = real(c) * k
        BY <2>1
      <3> QED BY <3>1, <3>2
    <2>3. CASE ~isComponent(positions, c)
      BY <2>1, <2>3, PreciseUnitAssumption
    <2> QED BY <2>2, <2>3
  <1>3. ASSUME NEW c \in Components
        PROVE  /\ Surplus(c)' = balances'[c] * PRECISE_UNIT - real(c) * totalSupply'
               /\ Surplus(c) = balances[c] * PRECISE_UNIT - real(c) * totalSupply
               /\ real(c) \in Nat /\ balances[c] \in Nat /\ totalSupply \in Nat
    BY <1>1, SurplusTerms DEF Surplus
  <1> HIDE DEF paid, real
  <1>4. VaultKept'
    <2>1. \A c \in Components : balances[c] - paid(c) \in Nat
      BY <1>1, <1>2, <1>3
    <2>2. totalSupply' \in Nat
      BY <1>1 DEF VaultKept
    <2> QED BY <1>1, <2>1, <2>2 DEF VaultKept, PositionsInv
  <1>5. ASSUME NEW c \in Components PROVE Surplus(c)' >= Surplus(c)
    BY <1>1, <1>2, <1>3, PaidOutCovered
  <1> QED BY <1>1, <1>4, <1>5 DEF VaultStepOK

\* A donation adds to the surplus of its component.
LEMMA DonateKeeps ==
    ASSUME VaultKept, NEW c \in Components, NEW k \in Nat, donate(c, k)
    PROVE  VaultStepOK
  <1>1. /\ positions' = positions
        /\ totalSupply' = totalSupply
        /\ balances' = [balances EXCEPT ![c] = @ + k]
    BY DEF donate
  <1>2. VaultKept'
    BY <1>1 DEF VaultKept, PositionsInv
  <1>3. ASSUME NEW d \in Components PROVE Surplus(d)' >= Surplus(d)
    <2> DEFINE r == getDefaultPositionRealUnit(positions, d) * totalSupply
    <2>1. r \in Int
      BY SurplusTerms
    <2>2. /\ Surplus(d)' = balances'[d] * PRECISE_UNIT - r
          /\ Surplus(d) = balances[d] * PRECISE_UNIT - r
      BY <1>1 DEF Surplus
    <2> HIDE DEF r
    <2>3. balances'[d] \in Int /\ balances[d] \in Int /\ balances[d] <= balances'[d]
      BY <1>1 DEF VaultKept
    <2>4. balances[d] * PRECISE_UNIT <= balances'[d] * PRECISE_UNIT
      BY <2>3, MulMonotonic, PreciseUnitAssumption
    <2>5. balances[d] * PRECISE_UNIT \in Int /\ balances'[d] * PRECISE_UNIT \in Int
      BY <2>3, PreciseUnitAssumption
    <2> QED BY <2>1, <2>2, <2>4, <2>5
  <1> QED BY <1>1, <1>2, <1>3 DEF VaultStepOK

\* A swap of s for t after which both positions follow their balances: every
\* surplus is kept, but for a token of which nothing is left.
LEMMA SwapKeeps ==
    ASSUME VaultKept, NEW s \in Components, NEW t \in Components, s # t,
           totalSupply' = totalSupply, balances' \in [Components -> Nat],
           \A c \in Components \ {s, t} : balances'[c] = balances[c],
           NEW q \in calculateAndEditDefaultPosition(positions, s, totalSupply,
                                                     balances[s], balances'[s]),
           positions' \in calculateAndEditDefaultPosition(q, t, totalSupply,
                                                          balances[t], balances'[t])
    PROVE  /\ VaultKept'
           /\ positions'.positionMultiplier = positions.positionMultiplier
           /\ \A c \in {s, t} : balances'[c] = 0 => Surplus(c)' = 0
           /\ \A c \in Components : c \notin {s, t} \/ balances'[c] > 0 =>
                Surplus(c)' >= Surplus(c)
  <1>1. StorageOK(positions) /\ balances \in [Components -> Nat] /\ totalSupply \in Nat
    BY DEF VaultKept, PositionsInv
  <1>2. /\ StorageOK(positions')
        /\ positions'.positionMultiplier = positions.positionMultiplier
        /\ \A c \in {s, t} :
             balances'[c] = 0 => getDefaultPositionRealUnit(positions', c) = 0
        /\ \A c \in Components : c \notin {s, t} \/ balances'[c] > 0 =>
             balances'[c] * PRECISE_UNIT
                 - getDefaultPositionRealUnit(positions', c) * totalSupply
               >= balances[c] * PRECISE_UNIT
                    - getDefaultPositionRealUnit(positions, c) * totalSupply
    BY <1>1, PositionsFollowSwap
  <1>3. VaultKept'
    BY <1>1, <1>2 DEF VaultKept, PositionsInv
  <1>4. ASSUME NEW c \in {s, t}, balances'[c] = 0 PROVE Surplus(c)' = 0
    BY <1>1, <1>2, <1>4, PreciseUnitAssumption DEF Surplus
  <1> QED BY <1>2, <1>3, <1>4 DEF Surplus

=============================================================================
