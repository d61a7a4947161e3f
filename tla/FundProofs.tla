---------------------------- MODULE FundProofs ----------------------------
(***************************************************************************)
(* The funds that are issued in kind, hold only default positions and      *)
(* trade: with streaming fees (Fund), with airdrops beside them            *)
(* (FundWithAirdrops), and with issuance at net asset value (NAVFund).     *)
(* Proofs for every set of components, every quantity, price, fee and      *)
(* PRECISE_UNIT.                                                           *)
(***************************************************************************)
EXTENDS FundWithAirdrops, NAVFund, VaultProofs

-----------------------------------------------------------------------------
FeeWithinMax ==
    isFeeModule => feeState.streamingFeePercentage <= feeState.maxStreamingFeePercentage

LastAccrualPast == feeState.lastStreamingFeeTimestamp <= now

MultiplierAtMostParity == positions.positionMultiplier <= PRECISE_UNIT

FundInv ==
    /\ FundTypeOK
    /\ PositionsInv
    /\ FeeWithinMax
    /\ LastAccrualPast
    /\ MultiplierAtMostParity
    /\ CollateralizedUntilFee

\* What one step of the system owes: the part of the invariant that is not
\* about backing, the surplus while the multiplier stands still, and the
\* total claim when it moves.
StepOK ==
    /\ FundTypeOK'
    /\ PositionsInv'
    /\ positions'.positionMultiplier = positions.positionMultiplier =>
         \A c \in Components : Surplus(c)' >= Surplus(c)
    /\ positions'.positionMultiplier <= positions.positionMultiplier
    /\ positions'.positionMultiplier # positions.positionMultiplier =>
         positions'.positionMultiplier * totalSupply'
             <= positions.positionMultiplier * totalSupply

FundKept == FundTypeOK /\ PositionsInv

-----------------------------------------------------------------------------
\* A step that keeps the vault's surpluses does all that a step owes.
LEMMA VaultStepSuffices ==
    ASSUME FundKept, VaultStepOK, FundTypeOK'
    PROVE  StepOK
  <1>1. positions.positionMultiplier \in Nat
    BY MultiplierPositive DEF FundKept
  <1> QED BY <1>1 DEF StepOK, VaultStepOK, VaultKept

LEMMA KeptVault == FundKept => VaultKept
  BY DEF FundKept, FundTypeOK, VaultKept

\* The types of the fee module's variables, if it does not touch them.
LEMMA VaultTypesSuffice ==
    ASSUME FundKept, VaultStepOK, UNCHANGED feeVars
    PROVE  StepOK
  <1>1. FundTypeOK'
    BY DEF FundKept, FundTypeOK, VaultStepOK, VaultKept, PositionsInv, StorageOK, feeVars
  <1> QED BY <1>1, VaultStepSuffices

\* A trade moves the units of the two tokens with their balances; the exchange
\* takes no more of the send token than its position tracks.
LEMMA TradeKeeps ==
    ASSUME VaultKept, NEW s \in Components, NEW t \in Components,
           NEW u \in Nat, NEW w \in Nat, trade(s, u, t, w)
    PROVE  VaultStepOK
  <1> DEFINE total == getDefaultTotalNotional(totalSupply, u)
             real(c) == getDefaultPositionRealUnit(positions, c)
  <1>1. /\ totalSupply \in Nat /\ totalSupply' = totalSupply
        /\ balances \in [Components -> Nat]
        /\ u <= real(s)
    BY DEF trade, VaultKept, hasSufficientDefaultUnits
  <1>2. PICK o \in ExchangeOutcomes(s, total, t) :
           LET protocolFee == getModuleFee(TradeProtocolFee, o.paid)
           IN  /\ o.sent <= balances[s]
               /\ protocolFee <= o.paid
               /\ balances' = [balances EXCEPT ![s] = @ - o.sent,
                                               ![t] = @ + o.paid - protocolFee]
               /\ positions' \in updateSetTokenPositions(positions, s, t, balances, balances')
    BY DEF trade
  <1> DEFINE net == o.paid - getModuleFee(TradeProtocolFee, o.paid)
  <1>3. total \in Nat /\ total * PRECISE_UNIT <= totalSupply * u
    BY <1>1, PreciseMulFloor DEF getDefaultTotalNotional
  <1>4. o.sent \in Nat /\ o.paid \in Nat /\ o.sent <= total /\ s # t
    BY <1>3, VaultAssumption DEF ExchangeOutcomes
  <1>5. getModuleFee(TradeProtocolFee, o.paid) \in Nat
    BY <1>4, PreciseMulFloor, TradeAssumption DEF getModuleFee
  <1>6. net \in Nat
    BY <1>2, <1>4, <1>5
  <1>7. /\ balances'[s] = balances[s] - o.sent /\ balances'[t] = balances[t] + net
        /\ \A c \in Components \ {s, t} : balances'[c] = balances[c]
        /\ balances' \in [Components -> Nat]
    BY <1>1, <1>2, <1>4, <1>5, <1>6
  <1> HIDE DEF net, total
  <1>8. PICK q : /\ q \in calculateAndEditDefaultPosition(positions, s, totalSupply,
                                                          balances[s], balances'[s])
                 /\ positions' \in calculateAndEditDefaultPosition(q, t, totalSupply,
                                                          balances[t], balances'[t])
    BY <1>2 DEF updateSetTokenPositions, Then
  <1>9. /\ VaultKept'
        /\ positions'.positionMultiplier = positions.positionMultiplier
        /\ \A c \in {s, t} : balances'[c] = 0 => Surplus(c)' = 0
        /\ \A c \in Components : c \notin {s, t} \/ balances'[c] > 0 =>
             Surplus(c)' >= Surplus(c)
    BY <1>1, <1>4, <1>7, <1>8, SwapKeeps
  <1>10. \A c \in Components :
           /\ real(c) \in Nat /\ balances[c] \in Nat /\ Surplus(c) \in Int
           /\ Surplus(c) = balances[c] * PRECISE_UNIT - real(c) * totalSupply
    BY SurplusTerms DEF Surplus
  <1> HIDE DEF real
  <1>11. ASSUME balances'[s] = 0 PROVE Surplus(s)' >= Surplus(s)
    <2> DEFINE a == o.sent * PRECISE_UNIT
               b == total * PRECISE_UNIT
               d == totalSupply * u
               e == real(s) * totalSupply
    <2>1. balances[s] = o.sent
      BY <1>4, <1>7, <1>10, <1>11
    <2>2. a <= b
      BY <1>3, <1>4, MulMonotonic, PreciseUnitAssumption
    <2>3. u * totalSupply <= e
      BY <1>1, <1>10, MulMonotonic
    <2>4. d = u * totalSupply
      BY <1>1
    <2>5. a \in Int /\ b \in Int /\ d \in Int /\ e \in Int
      BY <1>1, <1>3, <1>4, <1>10, PreciseUnitAssumption
    <2>6. Surplus(s) = a - e /\ b <= d
      BY <1>3, <1>10, <2>1
    <2> HIDE DEF a, b, d, e
    <2> QED BY <1>9, <1>11, <2>2, <2>3, <2>4, <2>5, <2>6
  <1>12. ASSUME balances'[t] = 0 PROVE Surplus(t)' >= Surplus(t)
    <2>1. balances[t] = 0
      BY <1>6, <1>7, <1>10, <1>12
    <2>2. real(t) * totalSupply >= 0 /\ real(t) * totalSupply \in Int
      BY <1>1, <1>10
    <2>3. Surplus(t) = 0 - real(t) * totalSupply
      BY <1>10, <2>1, PreciseUnitAssumption
    <2> QED BY <1>9, <1>12, <2>2, <2>3
  <1>13. \A c \in Components : balances'[c] > 0 \/ balances'[c] = 0
    BY <1>7
  <1> QED BY <1>9, <1>11, <1>12, <1>13 DEF VaultStepOK

\* A fee accrual lowers the multiplier by at least the share minted, unless
\* the fee for the time elapsed rounds to nothing.
LEMMA AccrueStep ==
    ASSUME FundKept, accrue, UNCHANGED <<balances, now, isFeeModule>>,
           now >= feeState.lastStreamingFeeTimestamp,
           feeState' \in [maxStreamingFeePercentage : Nat,
                          streamingFeePercentage : Nat,
                          lastStreamingFeeTimestamp : Nat]
    PROVE  StepOK
  <1> DEFINE x == positions.positionMultiplier
  <1>1. /\ totalSupply \in Nat /\ StorageOK(positions) /\ x \in Nat \ {0}
        /\ balances \in [Components -> Nat] /\ now \in Nat /\ isFeeModule \in BOOLEAN
        /\ feeState \in [maxStreamingFeePercentage : Nat,
                         streamingFeePercentage : Nat,
                         lastStreamingFeeTimestamp : Nat]
    BY MultiplierPositive DEF FundKept, FundTypeOK, PositionsInv
  <1>2. CASE ~(feeState.streamingFeePercentage > 0)
    <2>1. positions' = positions /\ totalSupply' = totalSupply
      BY <1>2 DEF accrue
    <2>2. FundTypeOK' /\ PositionsInv'
      BY <1>1, <2>1 DEF FundKept, FundTypeOK, PositionsInv
    <2>3. ASSUME NEW c \in Components PROVE Surplus(c)' >= Surplus(c)
      <3>1. Surplus(c)' = Surplus(c)
        BY <2>1 DEF Surplus
      <3> QED BY <3>1, SurplusTerms, KeptVault
    <2> QED BY <1>1, <2>1, <2>2, <2>3 DEF StepOK
  <1>3. CASE feeState.streamingFeePercentage > 0
    <2> DEFINE f == calculateStreamingFee
               k == PRECISE_UNIT - f
               i == calculateStreamingFeeInflation(f)
               n == x * k
               y == positions'.positionMultiplier
    <2>1. /\ f < PRECISE_UNIT
          /\ totalSupply' = totalSupply + i
          /\ positions' \in editPositionMultiplier(positions, sdiv(n, PRECISE_UNIT))
      BY <1>3 DEF accrue
    <2>2. f \in Nat
      <3> DEFINE e == (now - feeState.lastStreamingFeeTimestamp) * feeState.streamingFeePercentage
      <3>1. e \in Nat
        BY <1>1
      <3> HIDE DEF e
      <3>2. e \div ONE_YEAR \in Nat
        BY <3>1, StreamingFeeAssumption
      <3> QED BY <3>2 DEF calculateStreamingFee, e
    <2> HIDE DEF f
    <2>3. k \in Nat \ {0} /\ n \in Nat
      BY <1>1, <2>1, <2>2, PreciseUnitAssumption
    <2>4. i \in Nat /\ i * k <= f * totalSupply
      <3> DEFINE g == f * totalSupply
      <3>1. g \in Nat
        BY <1>1, <2>2
      <3>2. i = g \div k
        BY DEF calculateStreamingFeeInflation
      <3> HIDE DEF g, i, k
      <3>3. i \in Nat /\ i * k <= g
        BY <2>3, <3>1, <3>2, DivFloor
      <3> QED BY <3>3 DEF g
    <2> HIDE DEF n, i
    <2>5. sdiv(n, PRECISE_UNIT) = n \div PRECISE_UNIT
      BY <2>3, PreciseUnitAssumption DEF sdiv, abs
    <2>6. n \div PRECISE_UNIT \in Nat /\ (n \div PRECISE_UNIT) * PRECISE_UNIT <= n
      BY <2>3, DivFloor, PreciseUnitAssumption
    <2>7. positions' = [positions EXCEPT !.positionMultiplier = n \div PRECISE_UNIT]
      BY <2>1, <2>5 DEF editPositionMultiplier, require
    <2>8. /\ StorageOK(positions')
          /\ y = n \div PRECISE_UNIT
          /\ positions'.virtualUnit = positions.virtualUnit
      <3>1. StorageOK(positions')
        BY <1>1, <2>1, <2>5, <2>6, EditPositionMultiplierOK
      <3> QED BY <1>1, <2>7, <3>1 DEF StorageOK, StorageType
    <2>9. y \in Nat /\ y * PRECISE_UNIT <= n
      BY <2>6, <2>8
    <2> HIDE DEF y
    <2>10. n = x * PRECISE_UNIT - x * f
      BY <1>1, <2>2, PreciseUnitAssumption DEF n
    <2>11. x * f \in Nat /\ x * PRECISE_UNIT \in Nat /\ y * PRECISE_UNIT \in Nat
      BY <1>1, <2>2, <2>9, PreciseUnitAssumption
    <2>12. y <= x
      <3>1. y * PRECISE_UNIT <= x * PRECISE_UNIT
        BY <2>3, <2>9, <2>10, <2>11
      <3> QED BY <1>1, <2>9, <3>1, MulCancel, PreciseUnitAssumption
    \* An unchanged multiplier means that the fee is zero.
    <2>13. ASSUME y = x
           PROVE  totalSupply' = totalSupply
      <3>1. x * f = 0
        BY <2>3, <2>9, <2>10, <2>11, <2>13
      <3>2. f = 0
        BY <1>1, <2>2, <3>1
      <3>3. i * k <= 0
        BY <1>1, <2>4, <3>2
      <3>4. i * k <= 0 * k
        BY <3>3, <2>3
      <3>5. i <= 0
        BY <2>3, <2>4, <3>4, MulCancel
      <3> QED BY <1>1, <2>1, <2>4, <3>5
    <2>14. y * totalSupply' <= x * totalSupply
      <3> DEFINE S == totalSupply'
      <3>1. S \in Nat /\ S = totalSupply + i
        BY <1>1, <2>1, <2>4
      <3> HIDE DEF S
      \* S * k <= totalSupply * PRECISE_UNIT: the share minted.
      <3>2. S * k = totalSupply * k + i * k
        BY <1>1, <2>3, <2>4, <3>1
      <3>3. totalSupply * k = totalSupply * PRECISE_UNIT - f * totalSupply
        BY <1>1, <2>2, PreciseUnitAssumption
      <3> HIDE DEF k
      <3>4. S * k <= totalSupply * PRECISE_UNIT
        <4>1. /\ totalSupply * PRECISE_UNIT \in Int /\ f * totalSupply \in Int
              /\ i * k \in Int /\ totalSupply * k \in Int
          BY <1>1, <2>2, <2>3, <2>4, PreciseUnitAssumption
        <4> QED BY <2>4, <3>2, <3>3, <4>1
      \* (y * S) * (PRECISE_UNIT * k) <= (x * totalSupply) * (PRECISE_UNIT * k).
      <3>5. (y * PRECISE_UNIT) * (S * k) <= n * (S * k)
        <4>1. S * k \in Nat
          BY <2>3, <3>1
        <4> QED BY <2>3, <2>9, <2>11, <4>1, MulMonotonic
      <3>6. (S * k) * n <= (totalSupply * PRECISE_UNIT) * n
        <4>1. S * k \in Int /\ totalSupply * PRECISE_UNIT \in Int
          BY <1>1, <2>3, <3>1, PreciseUnitAssumption
        <4> QED BY <2>3, <3>4, <4>1, MulMonotonic
      <3>7. (y * PRECISE_UNIT) * (S * k) = (y * S) * (PRECISE_UNIT * k)
        BY <2>3, <2>9, <3>1, PreciseUnitAssumption
      <3>8. (totalSupply * PRECISE_UNIT) * n = (x * totalSupply) * (PRECISE_UNIT * k)
        BY <1>1, <2>3, PreciseUnitAssumption DEF n
      <3>9. n * (S * k) = (S * k) * n
        <4>1. S * k \in Int
          BY <2>3, <3>1
        <4> QED BY <2>3, <4>1
      <3>10. PRECISE_UNIT * k \in Nat \ {0}
        BY <2>3, PreciseUnitAssumption
      <3> DEFINE a == y * S
                 b == x * totalSupply
                 j == PRECISE_UNIT * k
                 l == n * (S * k)
      <3>11. a \in Int /\ b \in Int /\ l \in Int /\ a * j \in Int /\ b * j \in Int
        BY <1>1, <2>3, <2>9, <3>1, PreciseUnitAssumption
      <3>12. a * j <= l /\ l <= b * j
        BY <3>5, <3>6, <3>7, <3>8, <3>9
      <3> HIDE DEF a, b, j, l
      <3>13. a * j <= b * j
        BY <3>11, <3>12
      <3>14. j \in Nat \ {0}
        BY <3>10 DEF j
      <3>15. a <= b
        BY <3>11, <3>13, <3>14, MulCancel
      <3> QED BY <3>15 DEF a, b, S
    <2>15. FundTypeOK' /\ PositionsInv'
      BY <1>1, <2>1, <2>4, <2>8 DEF FundTypeOK, PositionsInv, StorageOK
    <2>16. ASSUME y = x, NEW c \in Components PROVE Surplus(c)' >= Surplus(c)
      <3>1. getDefaultPositionRealUnit(positions', c) = getDefaultPositionRealUnit(positions, c)
        BY <2>8, <2>16 DEF getDefaultPositionRealUnit, convertVirtualToRealUnit, y
      <3>2. totalSupply' = totalSupply
        BY <2>13, <2>16
      <3>3. Surplus(c)' = Surplus(c)
        BY <3>1, <3>2 DEF Surplus
      <3> QED BY <3>3, SurplusTerms, KeptVault
    <2> QED BY <2>12, <2>14, <2>15, <2>16 DEF StepOK, y
  <1> QED BY <1>2, <1>3

FeeStepOK ==
    /\ FeeWithinMax'
    /\ LastAccrualPast'
    /\ isFeeModule /\ isFeeModule' => feeState'.maxStreamingFeePercentage
                                            = feeState.maxStreamingFeePercentage
    /\ feeState'.streamingFeePercentage # feeState.streamingFeePercentage
          => ~isFeeModule' \/ feeState'.lastStreamingFeeTimestamp = now

LEMMA FundStep == FundInv /\ [FundNext]_fundVars => StepOK /\ FeeStepOK
  <1> SUFFICES ASSUME FundInv, [FundNext]_fundVars PROVE StepOK /\ FeeStepOK
    OBVIOUS
  <1> DEFINE FeeStateType == [maxStreamingFeePercentage : Nat,
                              streamingFeePercentage : Nat,
                              lastStreamingFeeTimestamp : Nat]
  <1>1. FundKept
    BY DEF FundInv, FundKept
  <1>2. /\ feeState \in FeeStateType /\ now \in Nat /\ isFeeModule \in BOOLEAN
        /\ FeeWithinMax /\ LastAccrualPast
    BY DEF FundInv, FundTypeOK
  <1>3. ASSUME UNCHANGED feeVars PROVE FeeStepOK
    BY <1>2, <1>3 DEF FeeStepOK, FeeWithinMax, LastAccrualPast, feeVars
  <1>4. CASE Issuance
    <2>1. PICK k \in 1..MaxSupply : issue(k) \/ redeem(k)
      BY <1>4 DEF Issuance
    <2>2. k \in Nat /\ UNCHANGED feeVars
      BY <1>4, VaultAssumption DEF Issuance
    <2> QED BY <1>1, <1>3, <2>1, <2>2, KeptVault, IssueKeeps, RedeemKeeps, VaultTypesSuffice
  <1>5. CASE Trading
    <2>1. PICK s \in Components, t \in Components, u \in Units, w \in Units : trade(s, u, t, w)
      BY <1>5 DEF Trading
    <2>2. u \in Nat /\ w \in Nat /\ UNCHANGED feeVars
      BY <1>5, FundAssumption DEF Trading
    <2> QED BY <1>1, <1>3, <2>1, <2>2, KeptVault, TradeKeeps, VaultTypesSuffice
  <1>6. CASE Donation
    <2>1. PICK c \in Components, k \in 1..MaxBalance : donate(c, k)
      BY <1>6 DEF Donation
    <2>2. k \in Nat /\ UNCHANGED feeVars
      BY <1>6, VaultAssumption DEF Donation
    <2> QED BY <1>1, <1>3, <2>1, <2>2, KeptVault, DonateKeeps, VaultTypesSuffice
  <1>7. CASE tick
    <2>1. UNCHANGED <<vaultVars, feeState, isFeeModule>> /\ now' = now + 1
      BY <1>7 DEF tick
    <2>2. FundTypeOK'
      BY <1>1, <1>2, <2>1 DEF FundKept, FundTypeOK, vaultVars
    <2>3. FeeStepOK
      BY <1>2, <2>1 DEF FeeStepOK, FeeWithinMax, LastAccrualPast
    <2> QED BY <1>1, <2>1, <2>2, <2>3, KeptVault, VaultIdle, VaultStepSuffices
  <1>8. CASE accrueFee
    <2>1. /\ accrue /\ UNCHANGED <<balances, now, isFeeModule>>
          /\ feeState' = [feeState EXCEPT !.lastStreamingFeeTimestamp = now]
      BY <1>8 DEF accrueFee
    <2>2. /\ feeState' \in FeeStateType
          /\ feeState'.streamingFeePercentage = feeState.streamingFeePercentage
          /\ feeState'.maxStreamingFeePercentage = feeState.maxStreamingFeePercentage
          /\ feeState'.lastStreamingFeeTimestamp = now
      BY <1>2, <2>1
    <2>3. StepOK
      BY <1>1, <1>2, <2>1, <2>2, AccrueStep DEF LastAccrualPast
    <2>4. FeeStepOK
      BY <1>2, <2>1, <2>2 DEF FeeStepOK, FeeWithinMax, LastAccrualPast
    <2> QED BY <2>3, <2>4
  <1>9. ASSUME NEW f \in Fees, updateStreamingFee(f) PROVE StepOK /\ FeeStepOK
    <2>1. /\ accrue /\ UNCHANGED <<balances, now, isFeeModule>>
          /\ f < feeState.maxStreamingFeePercentage
          /\ feeState' = [feeState EXCEPT !.lastStreamingFeeTimestamp = now,
                                          !.streamingFeePercentage = f]
          /\ f \in Nat
      BY <1>9, StreamingFeeAssumption DEF updateStreamingFee
    <2>2. /\ feeState' \in FeeStateType
          /\ feeState'.streamingFeePercentage = f
          /\ feeState'.maxStreamingFeePercentage = feeState.maxStreamingFeePercentage
          /\ feeState'.lastStreamingFeeTimestamp = now
      BY <1>2, <2>1
    <2>3. StepOK
      BY <1>1, <1>2, <2>1, <2>2, AccrueStep DEF LastAccrualPast
    <2>4. FeeStepOK
      BY <1>2, <2>1, <2>2 DEF FeeStepOK, FeeWithinMax, LastAccrualPast
    <2> QED BY <2>3, <2>4
  <1>10. ASSUME NEW x \in Fees, NEW f \in Fees, initializeStreamingFee(x, f)
         PROVE  StepOK /\ FeeStepOK
    <2>1. /\ ~isFeeModule /\ f <= x /\ isFeeModule' = TRUE
          /\ feeState' = [maxStreamingFeePercentage |-> x,
                          streamingFeePercentage |-> f,
                          lastStreamingFeeTimestamp |-> now]
          /\ UNCHANGED <<vaultVars, now>>
          /\ f \in Nat /\ x \in Nat
      BY <1>10, StreamingFeeAssumption DEF initializeStreamingFee
    <2>2. FundTypeOK'
      BY <1>1, <1>2, <2>1 DEF FundKept, FundTypeOK, vaultVars
    <2>3. FeeStepOK
      BY <1>2, <2>1 DEF FeeStepOK, FeeWithinMax, LastAccrualPast
    <2> QED BY <1>1, <2>1, <2>2, <2>3, KeptVault, VaultIdle, VaultStepSuffices
  <1>11. CASE removeStreamingFee
    <2>1. /\ isFeeModule' = FALSE /\ feeState' = NoFeeState
          /\ UNCHANGED <<vaultVars, now>>
      BY <1>11 DEF removeStreamingFee
    <2>2. FundTypeOK'
      BY <1>1, <1>2, <2>1 DEF FundKept, FundTypeOK, vaultVars, NoFeeState
    <2>3. FeeStepOK
      BY <1>2, <2>1 DEF FeeStepOK, FeeWithinMax, LastAccrualPast, NoFeeState
    <2> QED BY <1>1, <2>1, <2>2, <2>3, KeptVault, VaultIdle, VaultStepSuffices
  <1>12. CASE UNCHANGED fundVars
    <2>1. UNCHANGED vaultVars /\ UNCHANGED feeVars
      BY <1>12 DEF fundVars
    <2>2. FundTypeOK'
      BY <1>1, <2>1 DEF FundKept, FundTypeOK, vaultVars, feeVars
    <2> QED BY <1>1, <1>3, <2>1, <2>2, KeptVault, VaultIdle, VaultStepSuffices
  <1> QED BY <1>4, <1>5, <1>6, <1>7, <1>8, <1>9, <1>10, <1>11, <1>12
          DEF FundNext, FeeStreaming

\* The multiplier only falls, so a state at parity was reached at parity and
\* its surplus only grew.
LEMMA FundInvNext == FundInv /\ [FundNext]_fundVars => FundInv'
  <1> SUFFICES ASSUME FundInv, [FundNext]_fundVars PROVE FundInv'
    OBVIOUS
  <1>1. StepOK /\ FeeStepOK
    BY FundStep
  <1>2. /\ positions.positionMultiplier \in Int
        /\ positions'.positionMultiplier \in Int
        /\ positions.positionMultiplier = PRECISE_UNIT =>
             \A c \in Components : Surplus(c) >= 0
    BY <1>1 DEF FundInv, FundTypeOK, StepOK, StorageType, CollateralizedUntilFee,
                FullyCollateralized
  <1>3. \A c \in Components : Surplus(c) \in Int /\ Surplus(c)' \in Int
    <2>1. FundKept /\ FundTypeOK' /\ PositionsInv'
      BY <1>1 DEF FundInv, FundKept, StepOK
    <2>2. ASSUME NEW c \in Components PROVE Surplus(c)' \in Int
      <3>1. getDefaultPositionRealUnit(positions', c) \in Nat
        BY <2>1, RealUnitNat DEF PositionsInv
      <3>2. balances'[c] \in Nat /\ totalSupply' \in Nat
        BY <2>1 DEF FundTypeOK
      <3> QED BY <3>1, <3>2, PreciseUnitAssumption DEF Surplus
    <2> QED BY <2>1, <2>2, SurplusTerms, KeptVault
  <1>4. MultiplierAtMostParity'
    BY <1>1, <1>2, PreciseUnitAssumption DEF FundInv, StepOK, MultiplierAtMostParity
  <1>5. CollateralizedUntilFee'
    <2> SUFFICES ASSUME positions'.positionMultiplier = PRECISE_UNIT,
                        NEW c \in Components
                 PROVE  Surplus(c)' >= 0
      BY DEF CollateralizedUntilFee, FullyCollateralized
    <2>1. positions.positionMultiplier = PRECISE_UNIT
      BY <1>1, <1>2, PreciseUnitAssumption DEF FundInv, StepOK, MultiplierAtMostParity
    <2>2. Surplus(c) >= 0 /\ Surplus(c)' >= Surplus(c)
      BY <1>1, <1>2, <2>1 DEF StepOK
    <2> QED BY <1>3, <2>2
  <1> QED BY <1>1, <1>4, <1>5 DEF FundInv, StepOK, FeeStepOK

LEMMA FundInvInit == FundInit => FundInv
  <1> SUFFICES ASSUME FundInit PROVE FundInv
    OBVIOUS
  <1>1. PositionsInv
    BY PositionsInitOK DEF FundInit, VaultInit
  <1>2. /\ balances = [c \in Components |-> 0] /\ totalSupply = 0
        /\ now = 0 /\ feeState = NoFeeState /\ isFeeModule = FALSE
    BY DEF FundInit, VaultInit, StreamingFeeInit
  <1>3. FundTypeOK
    BY <1>1, <1>2 DEF FundTypeOK, PositionsInv, StorageOK, NoFeeState
  <1>4. FeeWithinMax /\ LastAccrualPast
    BY <1>2 DEF FeeWithinMax, LastAccrualPast, NoFeeState
  <1>5. positions.positionMultiplier = PRECISE_UNIT
    BY DEF FundInit, VaultInit, PositionsInit, InitialPositions
  <1>6. ASSUME NEW c \in Components PROVE Surplus(c) >= 0
    <2>1. getDefaultPositionRealUnit(positions, c) \in Nat
      BY <1>1, RealUnitNat DEF PositionsInv
    <2> QED BY <1>2, <2>1, PreciseUnitAssumption DEF Surplus
  <1> QED BY <1>1, <1>3, <1>4, <1>5, <1>6, PreciseUnitAssumption
          DEF FundInv, MultiplierAtMostParity, CollateralizedUntilFee, FullyCollateralized

\* The inductive invariant of the fund.
THEOREM FundInvariant == FundSpec => []FundInv
  BY FundInvInit, FundInvNext, PTL DEF FundSpec

\* Type correctness, through issuance, trades and fee accruals.
THEOREM FundTypeCorrect == FundSpec => []FundTypeOK
  <1>1. FundInv => FundTypeOK
    BY DEF FundInv
  <1> QED BY <1>1, FundInvariant, PTL

\* Whatever exchanges pay and whoever donates, a SetToken that has not been
\* charged a streaming fee can redeem its whole supply.
THEOREM FundCollateralizedUntilFee == FundSpec => []CollateralizedUntilFee
  <1>1. FundInv => CollateralizedUntilFee
    BY DEF FundInv
  <1> QED BY <1>1, FundInvariant, PTL

\* Trades and fee accruals keep the invariants of the position storage.
THEOREM FundPositionsOK == FundSpec => [](ComponentsTracked /\ NoPositionVanishes)
  <1>1. FundInv => ComponentsTracked /\ NoPositionVanishes
    BY DEF FundInv, PositionsInv, StorageOK, ComponentsTracked, NoPositionVanishes
  <1> QED BY <1>1, FundInvariant, PTL

\* Only a fee accrual shrinks a surplus: trades keep airdrops untracked.
THEOREM FundSurplusKept == FundSpec => SurplusKept
  <1>1. FundInv /\ [FundNext]_fundVars =>
          [positions'.positionMultiplier = positions.positionMultiplier =>
             \A c \in Components : Surplus(c)' >= Surplus(c)]_fundVars
    BY FundStep DEF StepOK
  <1> QED BY <1>1, FundInvariant, PTL DEF FundSpec, SurplusKept

\* A fee accrual never raises the total claim on the components.
THEOREM FundAccrualConservesClaims == FundSpec => AccrualConservesClaims
  <1>1. FundInv /\ [FundNext]_fundVars =>
          [positions'.positionMultiplier # positions.positionMultiplier =>
             positions'.positionMultiplier * totalSupply'
               <= positions.positionMultiplier * totalSupply]_fundVars
    BY FundStep DEF StepOK
  <1> QED BY <1>1, FundInvariant, PTL DEF FundSpec, AccrualConservesClaims

\* The manager stays within the fee it committed to, and never charges a new
\* fee for time already passed.
THEOREM FundFeeCommitment == FundSpec => FeeCommitment
  <1>1. FundInv /\ [FundNext]_fundVars =>
          [/\ isFeeModule' => feeState'.streamingFeePercentage
                                 <= feeState'.maxStreamingFeePercentage
           /\ isFeeModule /\ isFeeModule' => feeState'.maxStreamingFeePercentage
                                                = feeState.maxStreamingFeePercentage
           /\ feeState'.streamingFeePercentage # feeState.streamingFeePercentage
                 => ~isFeeModule' \/ feeState'.lastStreamingFeeTimestamp = now]_fundVars
    BY FundStep DEF FeeStepOK, FeeWithinMax
  <1> QED BY <1>1, FundInvariant, PTL DEF FundSpec, FeeCommitment

-----------------------------------------------------------------------------
(***************************************************************************)
(* Issuance and redemption at net asset value.                             *)
(***************************************************************************)
NAVTypeOK ==
    /\ navIssuanceSettings \in
         [reserveAssets : Seq(Components), managerFees : [FeeIndex -> Nat],
          maxManagerFee : Nat, premiumPercentage : Nat, maxPremiumPercentage : Nat,
          minSetTokenSupply : Nat]
    /\ premium <= navIssuanceSettings.maxPremiumPercentage
    /\ navIssuanceSettings.maxPremiumPercentage < PRECISE_UNIT

NAVInv == VaultKept /\ NAVTypeOK

\* What a step at net asset value owes those who neither enter nor leave.
NAVStepOK ==
    /\ VaultKept'
    /\ positions'.positionMultiplier * totalSupply'
         <= positions.positionMultiplier * totalSupply
    /\ \A c \in Components : balances'[c] # balances[c] => Surplus(c)' >= Surplus(c)

-----------------------------------------------------------------------------
\* A part of at most one whole is no larger than the whole.
LEMMA PartOfWhole ==
    ASSUME NEW a \in Nat, NEW f \in Nat, f <= PRECISE_UNIT
    PROVE  preciseMul(a, f) \in Nat /\ preciseMul(a, f) <= a
  <1> DEFINE m == preciseMul(a, f)
  <1>1. m \in Nat /\ m * PRECISE_UNIT <= a * f
    BY PreciseMulFloor
  <1>2. f * a <= PRECISE_UNIT * a
    BY MulMonotonic, PreciseUnitAssumption
  <1>3. a * f = f * a /\ PRECISE_UNIT * a = a * PRECISE_UNIT /\ f * a \in Int
        /\ a * PRECISE_UNIT \in Int
    BY PreciseUnitAssumption
  <1> HIDE DEF m
  <1>4. m * PRECISE_UNIT <= a * PRECISE_UNIT
    BY <1>1, <1>2, <1>3, PreciseUnitAssumption
  <1>5. m <= a
    BY <1>1, <1>4, MulCancel, PreciseUnitAssumption
  <1> QED BY <1>1, <1>5 DEF m

\* Fixed-point quotients of natural numbers are natural numbers.
LEMMA PreciseDivNat ==
    ASSUME NEW a \in Nat, NEW b \in Nat \ {0}
    PROVE  preciseDiv(a, b) \in Nat
  <1> DEFINE x == a * PRECISE_UNIT
  <1>1. x \in Nat
    BY PreciseUnitAssumption
  <1> HIDE DEF x
  <1>2. x \div b \in Nat
    BY <1>1, DivFloor
  <1> QED BY <1>2 DEF preciseDiv, x

\* What the fees leave of a quantity, and what they take.
LEMMA FeesOfQuantity ==
    ASSUME NAVTypeOK, NEW q \in Int, NEW i \in FeeIndex, NEW f \in getFees(q, i)
    PROVE  f.net \in Nat /\ f.fees \in Int /\ f.fees + f.net = q
  <1> DEFINE managerFee == navIssuanceSettings.managerFees[i]
             share == preciseMul(ProtocolManagerShare, managerFee)
             x == share + ProtocolDirectFee
             y == managerFee - share
             a == preciseMul(x, q)
             b == preciseMul(y, q)
  <1>1. managerFee \in Nat
    BY DEF NAVTypeOK
  <1>2. share \in Nat
    BY <1>1, PreciseMulFloor, NAVAssumption
  <1>3. x \in Int /\ y \in Int
    BY <1>1, <1>2, NAVAssumption
  <1>4. a \in Int /\ b \in Int
    <2> HIDE DEF x, y
    <2> DEFINE k == x * q
               l == y * q
    <2>1. k \in Int /\ l \in Int
      BY <1>3
    <2>2. a = k \div PRECISE_UNIT /\ b = l \div PRECISE_UNIT
      BY DEF preciseMul
    <2> HIDE DEF k, l
    <2> QED BY <2>1, <2>2, DivFloor, PreciseUnitAssumption
  <1>5. /\ a + b <= q
        /\ f = [fees |-> a + b, net |-> q - a - b]
    BY DEF getFees, getProtocolAndManagerFeePercentages, require
  <1> HIDE DEF a, b
  <1> QED BY <1>4, <1>5

\* The supply that an issuance leaves.
LEMMA IssuedSupply ==
    ASSUME NAVInv, NEW r \in Components, NEW q \in Nat, NEW prices, totalSupply > 0,
           NEW info \in IssueInfos(r, q, prices)
    PROVE  info.net \in Nat /\ info.newSupply \in Nat /\ info.newSupply >= totalSupply
  <1>1. totalSupply \in Nat
    BY DEF NAVInv, VaultKept
  <1>0. PICK f \in getFees(q, "issue") :
          info \in {[net |-> f.net, newSupply |-> totalSupply + minted] :
                     minted \in getSetTokenMintQuantity(r, f.net, prices)}
    BY DEF IssueInfos
  <1>2. PICK minted \in getSetTokenMintQuantity(r, f.net, prices) :
          info = [net |-> f.net, newSupply |-> totalSupply + minted]
    BY <1>0
  <1>3. f.net \in Nat
    BY FeesOfQuantity DEF NAVInv, FeeIndex
  <1> DEFINE n == f.net
             part == preciseMul(n, premium)
             less == n - part
             whole == preciseDiv(n, baseUnits[r])
             normal == preciseDiv(less, baseUnits[r])
             den(v) == preciseMul(totalSupply, v) + whole - normal
  <1>4. PICK v \in calculateSetTokenValuation(r, prices) :
          den(v) > 0 /\ minted = preciseDiv(preciseMul(normal, totalSupply), den(v))
    BY <1>2 DEF getSetTokenMintQuantity
  <1>5. v \in Nat
    BY <1>4 DEF calculateSetTokenValuation, require
  <1>6. premium \in Nat /\ premium <= PRECISE_UNIT /\ baseUnits[r] \in Nat \ {0}
    BY PreciseUnitAssumption, SetValuerAssumption DEF NAVInv, NAVTypeOK, premium
  <1>7. part \in Nat /\ part <= n
    BY <1>3, <1>6, PartOfWhole
  <1> HIDE DEF n, part
  <1>8. less \in Nat /\ n \in Nat
    BY <1>3, <1>7 DEF n
  <1> HIDE DEF less
  <1>9. whole \in Nat /\ normal \in Nat
    BY <1>6, <1>8, PreciseDivNat
  <1> HIDE DEF whole, normal
  <1>10. preciseMul(totalSupply, v) \in Nat /\ preciseMul(normal, totalSupply) \in Nat
    BY <1>1, <1>5, <1>9, PreciseMulFloor
  <1>11. den(v) \in Nat \ {0}
    BY <1>4, <1>9, <1>10
  <1>12. minted \in Nat
    BY <1>4, <1>10, <1>11, PreciseDivNat
  <1> QED BY <1>1, <1>2, <1>3, <1>12

\* What a redemption takes out of the position is what it pays out.
LEMMA RedeemedQuantity ==
    ASSUME NAVInv, NEW r \in Components, NEW q \in Nat, NEW prices,
           NEW info \in RedeemInfos(r, q, prices)
    PROVE  LET left == getDefaultTrackedBalance(positions, totalSupply, r) - info.outflow
           IN  /\ info.outflow \in Int /\ info.newSupply \in Nat \ {0}
               /\ left >= 0
               /\ info.newUnit = preciseDiv(left, info.newSupply)
  <1> DEFINE newSupply == totalSupply - q
  <1>1. totalSupply \in Nat
    BY DEF NAVInv, VaultKept
  <1>2. newSupply \in Nat \ {0}
    BY <1>1 DEF RedeemInfos
  <1>0. PICK f \in UNION {getFees(y, "redeem") : y \in getRedeemReserveQuantity(r, q, prices)} :
          info \in {[outflow |-> f.fees + f.net, net |-> f.net, newSupply |-> newSupply,
                     newUnit |-> w] :
                       w \in getRedeemPositionUnit(r, f.fees + f.net, f.net, newSupply)}
    BY <1>2 DEF RedeemInfos
  <1>a. PICK x \in getRedeemReserveQuantity(r, q, prices) : f \in getFees(x, "redeem")
    OBVIOUS
  <1>3. PICK u \in getRedeemPositionUnit(r, f.fees + f.net, f.net, newSupply) :
          info = [outflow |-> f.fees + f.net, net |-> f.net, newSupply |-> newSupply,
                  newUnit |-> u]
    BY <1>0
  <1>4. x \in Int
    <2> DEFINE whole(v) == preciseMul(preciseMul(q, v), baseUnits[r])
    <2>1. PICK v \in calculateSetTokenValuation(r, prices) :
            x = whole(v) - preciseMulCeil(whole(v), premium)
      BY DEF getRedeemReserveQuantity
    <2>2. v \in Nat /\ baseUnits[r] \in Nat /\ premium \in Nat
      BY <2>1, SetValuerAssumption
         DEF calculateSetTokenValuation, require, NAVInv, NAVTypeOK, premium
    <2>3. preciseMul(q, v) \in Nat
      BY <2>2, PreciseMulFloor
    <2>4. whole(v) \in Nat
      BY <2>2, <2>3, PreciseMulFloor
    <2> HIDE DEF whole
    <2>5. preciseMulCeil(whole(v), premium) \in Nat
      BY <2>2, <2>4, PreciseMulCeilCovers
    <2> QED BY <2>1, <2>4, <2>5
  <1>5. f.net \in Nat /\ f.fees \in Int
    BY <1>a, <1>4, FeesOfQuantity DEF NAVInv, FeeIndex
  <1> DEFINE tracked == getDefaultTrackedBalance(positions, totalSupply, r)
  <1>6. /\ tracked >= f.fees + f.net
        /\ u = preciseDiv(tracked - (f.fees + f.net), newSupply)
    BY DEF getRedeemPositionUnit, require
  <1>7. tracked \in Nat
    BY <1>1, SurplusTerms, PreciseMulFloor DEF getDefaultTrackedBalance, NAVInv
  <1> HIDE DEF tracked, newSupply
  <1> QED BY <1>2, <1>3, <1>5, <1>6, <1>7 DEF tracked

-----------------------------------------------------------------------------
\* Every position is multiplied by the old supply over the new, rounded down,
\* and the reserve's unit is written anew from what the position tracks.
LEMMA RescaledKeeps ==
    ASSUME VaultKept, NEW r \in Components, NEW supply \in Nat \ {0}, NEW d \in Int,
           getDefaultTrackedBalance(positions, totalSupply, r) + d >= 0,
           balances[r] + d >= 0,
           NEW p \in rescaled(supply),
           positions' \in editDefaultPosition(p, r,
             preciseDiv(getDefaultTrackedBalance(positions, totalSupply, r) + d, supply)),
           balances' = [balances EXCEPT ![r] = @ + d], totalSupply' = supply
    PROVE  NAVStepOK
  <1> DEFINE m == positions.positionMultiplier
             x == getNewPositionMultiplier(supply)
             real == getDefaultPositionRealUnit(positions, r)
             tracked == getDefaultTrackedBalance(positions, totalSupply, r)
             n == tracked + d
             u == preciseDiv(n, supply)
  <1>1. /\ StorageOK(positions) /\ totalSupply \in Nat /\ m \in Nat \ {0}
        /\ balances \in [Components -> Nat] /\ real \in Nat
    BY SurplusTerms, MultiplierPositive DEF VaultKept, PositionsInv
  <1>2. x \in Nat /\ x * supply <= m * totalSupply
    <2> DEFINE k == m * totalSupply
    <2>1. k \in Nat
      BY <1>1
    <2>2. x = sdiv(k, supply)
      BY DEF getNewPositionMultiplier
    <2> HIDE DEF k
    <2>3. x = k \div supply
      BY <2>1, <2>2 DEF sdiv, abs
    <2>4. k \div supply \in Nat /\ (k \div supply) * supply <= k
      BY <2>1, DivFloor
    <2> QED BY <2>3, <2>4 DEF k
  <1>3. p \in editPositionMultiplier(positions, x)
    BY DEF rescaled
  <1> HIDE DEF m, x
  <1>4. StorageOK(p) /\ p.positionMultiplier = x
    <2>1. StorageOK(p)
      BY <1>1, <1>2, <1>3, EditPositionMultiplierOK
    <2>2. p.positionMultiplier = x
      BY <1>1, <1>2, <1>3 DEF editPositionMultiplier, require, StorageOK, StorageType
    <2> QED BY <2>1, <2>2
  <1>5. tracked \in Nat /\ tracked * PRECISE_UNIT <= totalSupply * real
    BY <1>1, PreciseMulFloor DEF getDefaultTrackedBalance
  <1> HIDE DEF real, tracked
  <1>6. n \in Nat
    BY <1>5 DEF tracked
  <1>7. u \in Nat /\ u * supply <= n * PRECISE_UNIT
    <2>1. u = getDefaultPositionUnit(supply, n)
      BY DEF getDefaultPositionUnit
    <2> HIDE DEF n, u
    <2> QED BY <1>6, <2>1, PositionUnitFloor
  <1>8. positions' \in editDefaultPosition(p, r, u)
    BY DEF tracked
  <1> HIDE DEF u
  <1>9. /\ StorageOK(positions')
        /\ positions'.positionMultiplier = x
        /\ getDefaultPositionRealUnit(positions', r) <= u
        /\ getDefaultPositionRealUnit(positions', r) \in Nat
    BY <1>4, <1>7, <1>8, EditDefaultPositionOK, EditDefaultUnit, RealUnitNat
  <1>10. VaultKept'
    <2>1. balances' \in [Components -> Nat]
      BY <1>1
    <2> QED BY <1>9, <2>1 DEF VaultKept, PositionsInv
  <1>11. Surplus(r)' >= Surplus(r)
    <2> DEFINE new == getDefaultPositionRealUnit(positions', r)
               b == balances[r]
    <2>1. b \in Nat /\ balances'[r] = b + d
      BY <1>1
    <2>2. new * supply <= u * supply
      BY <1>7, <1>9, MulMonotonic
    <2>3. n * PRECISE_UNIT = tracked * PRECISE_UNIT + d * PRECISE_UNIT
          /\ (b + d) * PRECISE_UNIT = b * PRECISE_UNIT + d * PRECISE_UNIT
          /\ totalSupply * real = real * totalSupply
      BY <1>1, <1>5, <2>1, PreciseUnitAssumption DEF real
    <2>4. Surplus(r)' = (b + d) * PRECISE_UNIT - new * supply
          /\ Surplus(r) = b * PRECISE_UNIT - real * totalSupply
      BY <2>1 DEF Surplus, real
    <2> DEFINE i == new * supply
               j == u * supply
               k == n * PRECISE_UNIT
               l == tracked * PRECISE_UNIT
               o == d * PRECISE_UNIT
               bb == b * PRECISE_UNIT
               w == real * totalSupply
    <2>5. i \in Int /\ j \in Int /\ k \in Int /\ l \in Int /\ o \in Int /\ bb \in Int /\ w \in Int
      <3>1. /\ new \in Int /\ u \in Int /\ n \in Int /\ tracked \in Int /\ b \in Int
            /\ real \in Int /\ supply \in Int /\ PRECISE_UNIT \in Int /\ totalSupply \in Int
        BY <1>1, <1>5, <1>6, <1>7, <1>9, <2>1, PreciseUnitAssumption DEF real
      <3>2. \A y, z \in Int : y * z \in Int
        OBVIOUS
      <3> HIDE DEF n, new, b
      <3> QED BY <3>1, <3>2
    <2>6. /\ i <= j /\ j <= k /\ k = l + o /\ l <= w
          /\ Surplus(r)' = (bb + o) - i /\ Surplus(r) = bb - w
      <3>1. i <= j /\ j <= k
        BY <1>7, <2>2
      <3>2. k = l + o /\ l <= w
        BY <1>5, <2>3
      <3>3. Surplus(r)' = (bb + o) - i
        BY <2>3, <2>4
      <3>4. Surplus(r) = bb - w
        BY <2>4
      <3> HIDE DEF i, j, k, l, o, bb, w
      <3> QED BY <3>1, <3>2, <3>3, <3>4
    <2> HIDE DEF i, j, k, l, o, bb, w
    <2> QED BY <2>5, <2>6
  <1>12. positions'.positionMultiplier * totalSupply' <= m * totalSupply
    BY <1>2, <1>9
  <1>13. \A c \in Components : balances'[c] # balances[c] => c = r
    BY <1>1
  <1> QED BY <1>10, <1>11, <1>12, <1>13 DEF NAVStepOK, m

LEMMA NAVIssueKeeps ==
    ASSUME NAVInv, NEW r \in Components, NEW q \in Nat, NEW prices, navIssue(r, q, prices)
    PROVE  NAVStepOK
  <1>1. PICK info \in IssueInfos(r, q, prices) :
          LET newUnit == getIssuePositionUnit(r, info.net, info.newSupply)
              edit(p) == editDefaultPosition(p, r, newUnit)
          IN  /\ positions' \in Then(rescaled(info.newSupply), edit)
              /\ balances' = [balances EXCEPT ![r] = @ + info.net]
              /\ totalSupply' = info.newSupply
    BY DEF navIssue
  <1>2. totalSupply \in Nat /\ totalSupply > 0 /\ balances[r] \in Nat /\ VaultKept
    BY DEF navIssue, NAVInv, VaultKept
  <1>3. info.net \in Nat /\ info.newSupply \in Nat \ {0}
    BY <1>2, IssuedSupply
  <1>4. getDefaultTrackedBalance(positions, totalSupply, r) \in Nat
    BY <1>2, SurplusTerms, PreciseMulFloor DEF getDefaultTrackedBalance
  <1>5. PICK p \in rescaled(info.newSupply) :
          positions' \in editDefaultPosition(p, r,
            preciseDiv(getDefaultTrackedBalance(positions, totalSupply, r) + info.net,
                       info.newSupply))
    BY <1>1 DEF Then, getIssuePositionUnit
  <1>6. /\ getDefaultTrackedBalance(positions, totalSupply, r) + info.net >= 0
        /\ balances[r] + info.net >= 0 /\ info.net \in Int
    BY <1>2, <1>3, <1>4
  <1>7. balances' = [balances EXCEPT ![r] = @ + info.net] /\ totalSupply' = info.newSupply
    BY <1>1
  <1> QED BY <1>2, <1>3, <1>5, <1>6, <1>7, RescaledKeeps

LEMMA NAVRedeemKeeps ==
    ASSUME NAVInv, NEW r \in Components, NEW q \in Nat, NEW prices, navRedeem(r, q, prices)
    PROVE  NAVStepOK
  <1>1. PICK info \in RedeemInfos(r, q, prices) :
          LET edit(p) == editDefaultPosition(p, r, info.newUnit)
          IN  /\ info.outflow <= balances[r]
              /\ positions' \in Then(rescaled(info.newSupply), edit)
              /\ balances' = [balances EXCEPT ![r] = @ - info.outflow]
              /\ totalSupply' = info.newSupply
    BY DEF navRedeem
  <1>2. totalSupply \in Nat /\ balances \in [Components -> Nat] /\ VaultKept
    BY DEF NAVInv, VaultKept
  <1> DEFINE tracked == getDefaultTrackedBalance(positions, totalSupply, r)
             d == -info.outflow
  <1>3. /\ info.outflow \in Int /\ info.newSupply \in Nat \ {0}
        /\ tracked - info.outflow >= 0
        /\ info.newUnit = preciseDiv(tracked - info.outflow, info.newSupply)
    BY RedeemedQuantity
  <1>4. tracked \in Nat
    BY <1>2, SurplusTerms, PreciseMulFloor DEF getDefaultTrackedBalance
  <1>5. PICK p \in rescaled(info.newSupply) :
          positions' \in editDefaultPosition(p, r, info.newUnit)
    BY <1>1 DEF Then
  <1> HIDE DEF tracked
  <1>6. d \in Int /\ tracked + d = tracked - info.outflow /\ balances[r] \in Nat
        /\ balances[r] + d = balances[r] - info.outflow
    BY <1>2, <1>3, <1>4
  <1> HIDE DEF d
  <1>7. tracked + d >= 0 /\ balances[r] + d >= 0
    BY <1>1, <1>2, <1>3, <1>6
  <1>8. /\ positions' \in editDefaultPosition(p, r, preciseDiv(tracked + d, info.newSupply))
        /\ balances' = [balances EXCEPT ![r] = @ + d]
    BY <1>1, <1>3, <1>5, <1>6
  <1> QED BY <1>1, <1>2, <1>3, <1>6, <1>7, <1>8, RescaledKeeps DEF tracked

\* The manager's settings keep their types, the premium its maximum.
LEMMA ManagingKeeps ==
    ASSUME NAVInv, Managing
    PROVE  NAVTypeOK' /\ UNCHANGED vaultVars
  <1>1. NAVTypeOK
    BY DEF NAVInv
  <1>2. CASE \E c \in Components : addReserveAsset(c)
    <2>1. PICK c \in Components : addReserveAsset(c)
      BY <1>2
    <2> DEFINE A == navIssuanceSettings.reserveAssets
    <2>2. Append(A, c) \in Seq(Components)
      BY <1>1 DEF NAVTypeOK
    <2>3. /\ navIssuanceSettings' = [navIssuanceSettings EXCEPT !.reserveAssets = Append(A, c)]
          /\ UNCHANGED vaultVars
      BY <2>1 DEF addReserveAsset
    <2> HIDE DEF A
    <2> QED BY <1>1, <2>2, <2>3 DEF NAVTypeOK, premium
  <1>3. CASE \E c \in Components : removeReserveAsset(c)
    <2>1. PICK c \in Components : removeReserveAsset(c)
      BY <1>3
    <2> DEFINE A == navIssuanceSettings.reserveAssets
    <2>2. A \in Seq(Components)
      BY <1>1 DEF NAVTypeOK
    <2>3. remove(A, c) \in Seq(Components)
      BY <2>2 DEF remove, pop
    <2>4. /\ navIssuanceSettings' = [navIssuanceSettings EXCEPT !.reserveAssets = remove(A, c)]
          /\ UNCHANGED vaultVars
      BY <2>1 DEF removeReserveAsset
    <2> HIDE DEF A
    <2> QED BY <1>1, <2>3, <2>4 DEF NAVTypeOK, premium
  <1>4. CASE \E p \in Premiums : editPremium(p)
    BY <1>1, <1>4, NAVAssumption DEF editPremium, NAVTypeOK, premium
  <1>5. CASE \E f \in NAVFees, i \in FeeIndex : editManagerFee(f, i)
    <2>1. PICK f \in NAVFees, i \in FeeIndex : editManagerFee(f, i)
      BY <1>5
    <2>2. f \in Nat
      BY NAVAssumption
    <2> QED BY <1>1, <2>1, <2>2 DEF editManagerFee, NAVTypeOK, premium
  <1>6. CASE \E A \in ReserveLists, fees \in [FeeIndex -> NAVFees], f \in NAVFees,
                p, x \in Premiums, s \in MinSupplies : initializeNAV(A, fees, f, p, x, s)
    <2>1. PICK A \in ReserveLists, fees \in [FeeIndex -> NAVFees], f \in NAVFees,
               p \in Premiums, x \in Premiums, s \in MinSupplies :
                 initializeNAV(A, fees, f, p, x, s)
      BY <1>6
    <2>2. A \in Seq(Components) /\ fees \in [FeeIndex -> Nat] /\ f \in Nat /\ p \in Nat
          /\ x \in Nat /\ s \in Nat
      BY NAVAssumption
    <2> QED BY <2>1, <2>2 DEF initializeNAV, NAVTypeOK, premium
  <1>7. CASE removeNAV
    <2>1. NoNAVSettings \in
            [reserveAssets : Seq(Components), managerFees : [FeeIndex -> Nat],
             maxManagerFee : Nat, premiumPercentage : Nat, maxPremiumPercentage : Nat,
             minSetTokenSupply : Nat]
      BY DEF NoNAVSettings
    <2> QED BY <1>7, <2>1, PreciseUnitAssumption
            DEF removeNAV, NAVTypeOK, premium, NoNAVSettings
  <1> QED BY <1>2, <1>3, <1>4, <1>5, <1>6, <1>7 DEF Managing

\* What each step owes, in kind or at net asset value.
NAVFundStepOK ==
    /\ NAVInv'
    /\ positions'.positionMultiplier # positions.positionMultiplier =>
         positions'.positionMultiplier * totalSupply'
             <= positions.positionMultiplier * totalSupply
    /\ \A c \in Components : balances'[c] # balances[c] => Surplus(c)' >= Surplus(c)

LEMMA NAVFundStep == NAVInv /\ [NAVFundNext]_navFundVars => NAVFundStepOK
  <1> SUFFICES ASSUME NAVInv, [NAVFundNext]_navFundVars PROVE NAVFundStepOK
    OBVIOUS
  <1>1. VaultKept /\ NAVTypeOK
    BY DEF NAVInv
  <1>2. ASSUME VaultStepOK, NAVTypeOK' PROVE NAVFundStepOK
    BY <1>2 DEF VaultStepOK, NAVFundStepOK, NAVInv
  <1>3. ASSUME UNCHANGED navVars PROVE NAVTypeOK'
    BY <1>1, <1>3 DEF navVars, NAVTypeOK, premium
  <1>4. CASE InKind
    <2>1. PICK q \in 1..MaxSupply : issue(q) \/ redeem(q)
      BY <1>4 DEF InKind
    <2>2. q \in Nat /\ UNCHANGED navVars
      BY <1>4, VaultAssumption DEF InKind
    <2> QED BY <1>1, <1>2, <1>3, <2>1, <2>2, IssueKeeps, RedeemKeeps
  <1>5. CASE AtNAV
    <2>1. PICK prices \in Quotes, r \in Components :
            \/ \E q \in 1..MaxBalance : navIssue(r, q, prices)
            \/ \E q \in 1..MaxSupply : navRedeem(r, q, prices)
      BY <1>5 DEF AtNAV
    <2>2. (1..MaxBalance) \cup (1..MaxSupply) \subseteq Nat
      BY VaultAssumption
    <2>3. UNCHANGED navVars
      BY <2>1 DEF navIssue, navRedeem
    <2>4. NAVStepOK
      BY <2>1, <2>2, NAVIssueKeeps, NAVRedeemKeeps
    <2> QED BY <1>3, <2>3, <2>4 DEF NAVStepOK, NAVFundStepOK, NAVInv
  <1>6. CASE NAVDonation
    <2>1. PICK c \in Components, q \in 1..MaxBalance : donate(c, q)
      BY <1>6 DEF NAVDonation
    <2>2. q \in Nat /\ UNCHANGED navVars
      BY <1>6, VaultAssumption DEF NAVDonation
    <2> QED BY <1>1, <1>2, <1>3, <2>1, <2>2, DonateKeeps
  <1>7. CASE Managing
    BY <1>1, <1>2, <1>7, ManagingKeeps, VaultIdle
  <1>8. CASE UNCHANGED navFundVars
    BY <1>1, <1>2, <1>3, <1>8, VaultIdle DEF navFundVars
  <1> QED BY <1>4, <1>5, <1>6, <1>7, <1>8 DEF NAVFundNext

\* For every set of components, price, fee and premium, the types of the
\* SetToken's state and of the settings, and the invariant of the positions.
THEOREM NAVFundInvariant == NAVFundSpec => []NAVInv
  <1>1. NAVFundInit => NAVInv
    <2> SUFFICES ASSUME NAVFundInit PROVE NAVInv
      OBVIOUS
    <2>1. NoNAVSettings \in
            [reserveAssets : Seq(Components), managerFees : [FeeIndex -> Nat],
             maxManagerFee : Nat, premiumPercentage : Nat, maxPremiumPercentage : Nat,
             minSetTokenSupply : Nat]
      BY DEF NoNAVSettings
    <2> QED BY <2>1, VaultInitOK, PreciseUnitAssumption
            DEF NAVFundInit, NAVInit, NAVInv, NAVTypeOK, premium, NoNAVSettings
  <1>2. NAVInv /\ [NAVFundNext]_navFundVars => NAVInv'
    BY NAVFundStep DEF NAVFundStepOK
  <1> QED BY <1>1, <1>2, PTL DEF NAVFundSpec

\* Whoever issues or redeems at net asset value takes nothing from the others:
\* the multiplier falls by at least what is minted, rises by at most what is
\* burnt, and the reserve's unit claims no more than the position tracks.
THEOREM NAVFundBackingKept == NAVFundSpec => BackingKept
  <1>1. NAVInv /\ [NAVFundNext]_navFundVars =>
          [/\ positions'.positionMultiplier # positions.positionMultiplier =>
                positions'.positionMultiplier * totalSupply'
                    <= positions.positionMultiplier * totalSupply
           /\ \A c \in Components : balances'[c] # balances[c] =>
                Surplus(c)' >= Surplus(c)]_navFundVars
    BY NAVFundStep DEF NAVFundStepOK
  <1> QED BY <1>1, NAVFundInvariant, PTL DEF NAVFundSpec, BackingKept

-----------------------------------------------------------------------------
(***************************************************************************)
(* The contract against the arithmetic of the tests.                       *)
(***************************************************************************)

\* On natural numbers the division of BigNumber is that of the contracts.
LEMMA TestDivFloor ==
    ASSUME NEW a \in Nat, NEW b \in Nat \ {0}
    PROVE  Expected!div(a, b) = a \div b
  BY DEF Expected!div, Expected!magnitude

\* Two numbers in the same interval of two units are at most one apart.
LEMMA WithinOne ==
    ASSUME NEW a \in Int, NEW b \in Int, NEW x \in Int, NEW k \in Nat \ {0},
           a * k <= x, x < a * k + k + k, b * k <= x, x < b * k + k + k
    PROVE  distance(a, b) <= 1
  <1>1. a * k \in Int /\ b * k \in Int
    OBVIOUS
  <1>2. (a + 2) * k = a * k + k + k /\ (b + 2) * k = b * k + k + k
    OBVIOUS
  <1>3. ~(a + 2 <= b)
    <2> SUFFICES ASSUME a + 2 <= b PROVE FALSE
      OBVIOUS
    <2>1. (a + 2) * k <= b * k
      BY MulMonotonic
    <2> QED BY <1>1, <1>2, <2>1
  <1>4. ~(b + 2 <= a)
    <2> SUFFICES ASSUME b + 2 <= a PROVE FALSE
      OBVIOUS
    <2>1. (b + 2) * k <= a * k
      BY MulMonotonic
    <2> QED BY <1>1, <1>2, <2>1
  <1> QED BY <1>3, <1>4 DEF distance, abs

\* Fees cut off apart, or another way apart: at most one base unit.
LEMMA NetWithinOne ==
    ASSUME NAVTypeOK, NEW q \in Nat, NEW i \in FeeIndex, NEW f \in getFees(q, i)
    PROVE  /\ NetExpected(q, i) \in Int
           /\ distance(f.net, NetExpected(q, i)) <= 1
  <1> DEFINE fee == navIssuanceSettings.managerFees[i]
             direct == ProtocolDirectFee
             share == preciseMul(ProtocolManagerShare, fee)
             x1 == (share + direct) * q
             x2 == (fee - share) * q
             y1 == q * fee
             y2 == q * direct
             a1 == x1 \div PRECISE_UNIT
             a2 == x2 \div PRECISE_UNIT
             b1 == y1 \div PRECISE_UNIT
             b2 == y2 \div PRECISE_UNIT
  <1>1. fee \in Nat /\ direct \in Nat
    BY NAVAssumption DEF NAVTypeOK
  <1>2. share \in Nat
    BY <1>1, PreciseMulFloor, NAVAssumption
  <1>3. f = [fees |-> a1 + a2, net |-> q - a1 - a2]
    BY DEF getFees, getProtocolAndManagerFeePercentages, require, preciseMul
  <1> HIDE DEF share, fee, direct
  <1>4. x1 \in Int /\ x2 \in Int /\ y1 \in Nat /\ y2 \in Nat /\ x1 + x2 = y1 + y2
    BY <1>1, <1>2
  <1>5. NetExpected(q, i) = q - b1 - b2
    BY <1>4, TestDivFloor, PreciseUnitAssumption
       DEF NetExpected, managerFees, Expected!getExpectedPostFeeQuantity,
           Expected!preciseMul, fee, direct
  <1> HIDE DEF x1, x2, y1, y2
  <1>6. /\ a1 \in Int /\ a1 * PRECISE_UNIT <= x1 /\ x1 < a1 * PRECISE_UNIT + PRECISE_UNIT
        /\ a2 \in Int /\ a2 * PRECISE_UNIT <= x2 /\ x2 < a2 * PRECISE_UNIT + PRECISE_UNIT
        /\ b1 \in Int /\ b1 * PRECISE_UNIT <= y1 /\ y1 < b1 * PRECISE_UNIT + PRECISE_UNIT
        /\ b2 \in Int /\ b2 * PRECISE_UNIT <= y2 /\ y2 < b2 * PRECISE_UNIT + PRECISE_UNIT
    BY <1>4, DivFloor, PreciseUnitAssumption
  <1> HIDE DEF a1, a2, b1, b2
  <1>7. /\ (a1 + a2) * PRECISE_UNIT = a1 * PRECISE_UNIT + a2 * PRECISE_UNIT
        /\ (b1 + b2) * PRECISE_UNIT = b1 * PRECISE_UNIT + b2 * PRECISE_UNIT
        /\ a1 * PRECISE_UNIT \in Int /\ a2 * PRECISE_UNIT \in Int
        /\ b1 * PRECISE_UNIT \in Int /\ b2 * PRECISE_UNIT \in Int
    BY <1>6, PreciseUnitAssumption
  <1>8. distance(a1 + a2, b1 + b2) <= 1
    <2> DEFINE x == y1 + y2
    <2>1. /\ (a1 + a2) * PRECISE_UNIT <= x
          /\ x < (a1 + a2) * PRECISE_UNIT + PRECISE_UNIT + PRECISE_UNIT
          /\ (b1 + b2) * PRECISE_UNIT <= x
          /\ x < (b1 + b2) * PRECISE_UNIT + PRECISE_UNIT + PRECISE_UNIT
          /\ x \in Int /\ a1 + a2 \in Int /\ b1 + b2 \in Int
      BY <1>4, <1>6, <1>7, PreciseUnitAssumption
    <2> HIDE DEF x
    <2> QED BY <2>1, WithinOne, PreciseUnitAssumption
  <1> QED BY <1>3, <1>5, <1>6, <1>8 DEF distance, abs

\* A multiplier scaled by a ratio cut off to a fixed-point number is never above
\* the one scaled at once, nor below it by more than its own size in units.
LEMMA ScaledTwice ==
    ASSUME NEW m \in Nat, NEW S \in Nat, NEW N \in Nat \ {0}, NEW k \in Int,
           k * N <= S * PRECISE_UNIT, S * PRECISE_UNIT < k * N + N
    PROVE  /\ k \in Nat
           /\ (m * k) \div PRECISE_UNIT \in Int
           /\ (m * k) \div PRECISE_UNIT <= (m * S) \div N
           /\ (m * S) \div N <= (m * k) \div PRECISE_UNIT + m \div PRECISE_UNIT + 1
  <1> DEFINE U == PRECISE_UNIT
             e == (m * k) \div U
             c == (m * S) \div N
             j == m \div U
  <1>0. U \in Nat \ {0}
    BY PreciseUnitAssumption
  <1> HIDE DEF U
  <1>1. m * k \in Int /\ m * S \in Nat
    OBVIOUS
  <1>2. /\ e \in Int /\ e * U <= m * k /\ m * k < e * U + U
        /\ c \in Int /\ c * N <= m * S /\ m * S < c * N + N
        /\ j \in Int /\ j * U <= m /\ m < j * U + U
    BY <1>0, <1>1, DivFloor
  <1> HIDE DEF e, c, j
  <1>3. k \in Nat
    <2> SUFFICES ASSUME k + 1 <= 0 PROVE FALSE
      OBVIOUS
    <2>1. (k + 1) * N <= 0 * N
      BY MulMonotonic
    <2>2. (k + 1) * N = k * N + N /\ 0 * N = 0 /\ S * U \in Nat /\ k * N \in Int
      BY <1>0
    <2> QED BY <2>1, <2>2 DEF U
  <1>4. e <= c
    <2>1. (e * U) * N <= (m * k) * N
      BY <1>0, <1>2, MulMonotonic
    <2>2. (k * N) * m <= (S * U) * m
      BY <1>0, MulMonotonic DEF U
    <2>3. (m * k) * N = (k * N) * m /\ (S * U) * m = (m * S) * U
          /\ (e * U) * N = (e * N) * U
      BY <1>0, <1>2
    <2>4. /\ (e * U) * N \in Int /\ (m * k) * N \in Int /\ (k * N) * m \in Int
          /\ (S * U) * m \in Int /\ (e * N) * U \in Int /\ (m * S) * U \in Int
          /\ e * N \in Int
      BY <1>0, <1>2
    <2>5. (e * N) * U <= (m * S) * U
      BY <2>1, <2>2, <2>3, <2>4
    <2>6. e * N <= m * S
      BY <1>0, <1>1, <2>4, <2>5, MulCancel
    <2> SUFFICES ASSUME c + 1 <= e PROVE FALSE
      BY <1>2
    <2>7. (c + 1) * N <= e * N
      BY <1>2, MulMonotonic
    <2>8. (c + 1) * N = c * N + N /\ c * N \in Int
      BY <1>2
    <2> QED BY <1>1, <1>2, <2>4, <2>6, <2>7, <2>8
  <1>5. c <= e + j + 1
    <2> SUFFICES ASSUME e + j + 2 <= c PROVE FALSE
      BY <1>2
    <2> DEFINE t == e + j + 2
    <2>0. t \in Int
      BY <1>2
    <2>1. t * U = e * U + U + (j * U + U) /\ e * U \in Int /\ j * U \in Int
      BY <1>0, <1>2
    <2>2. m * k + m + 2 <= t * U /\ t * U \in Int
      BY <1>0, <1>1, <1>2, <2>1
    <2> HIDE DEF t
    <2>3. (m * k + m + 2) * N <= (t * U) * N
      BY <1>1, <2>2, MulMonotonic
    <2>4. t * N <= c * N
      BY <1>2, <2>0, MulMonotonic DEF t
    <2>5. t * N \in Int /\ c * N \in Int
      BY <1>2, <2>0
    <2>6. t * N <= m * S
      BY <1>1, <1>2, <2>4, <2>5
    <2>7. (t * N) * U <= (m * S) * U
      BY <1>0, <1>1, <2>5, <2>6, MulMonotonic
    <2>8. (S * U) * m <= (k * N + N) * m
      BY <1>0, MulMonotonic DEF U
    <2>9. /\ (t * N) * U = (t * U) * N /\ (m * S) * U = (S * U) * m
          /\ (k * N + N) * m = (m * k + m) * N
          /\ (m * k + m + 2) * N = (m * k + m) * N + N + N
      BY <1>0, <2>0
    <2>10. /\ (t * N) * U \in Int /\ (t * U) * N \in Int /\ (m * S) * U \in Int
           /\ (S * U) * m \in Int /\ (k * N + N) * m \in Int
           /\ (m * k + m) * N \in Int /\ (m * k + m + 2) * N \in Int
      BY <1>0, <2>0
    <2> QED BY <2>3, <2>7, <2>8, <2>9, <2>10
  <1> QED BY <1>2, <1>3, <1>4, <1>5 DEF U, e, c, j

\* The multiplier that the tests expect when the ratio of the supplies is k.
LEMMA MultiplierWithin ==
    ASSUME VaultKept, totalSupply > 0, NEW N \in Nat \ {0}, NEW k \in Int,
           k * N <= totalSupply * PRECISE_UNIT, totalSupply * PRECISE_UNIT < k * N + N
    PROVE  MultiplierExpected(Expected!preciseMul(positions.positionMultiplier, k), N)
  <1> DEFINE m == positions.positionMultiplier
             c == (m * totalSupply) \div N
             e == (m * k) \div PRECISE_UNIT
  <1>1. m \in Nat \ {0} /\ totalSupply \in Nat
    BY MultiplierPositive DEF VaultKept
  <1>2. m * totalSupply \in Nat
    BY <1>1
  <1>3. getNewPositionMultiplier(N) = c
    BY <1>2, DivDownFloor DEF getNewPositionMultiplier, sdiv, abs
  <1> HIDE DEF m
  <1>4. k \in Nat /\ e \in Int /\ e <= c /\ c <= e + m \div PRECISE_UNIT + 1
    BY <1>1, ScaledTwice
  <1>5. c \in Int /\ m \div PRECISE_UNIT \in Int
    BY <1>1, <1>2, DivFloor, PreciseUnitAssumption
  <1>6. Expected!preciseMul(m, k) = e
    <2>1. m * k \in Nat
      BY <1>1, <1>4
    <2> QED BY <2>1, TestDivFloor, PreciseUnitAssumption DEF Expected!preciseMul
  <1> HIDE DEF c, e
  <1>7. e <= c /\ distance(e, c) <= 1 + m \div PRECISE_UNIT
    <2> DEFINE d == m \div PRECISE_UNIT
    <2>1. d \in Int /\ c <= e + d + 1
      BY <1>4, <1>5
    <2> HIDE DEF d
    <2>2. distance(e, c) <= 1 + d
      BY <1>4, <1>5, <2>1 DEF distance, abs
    <2> QED BY <1>4, <2>2 DEF d
  <1> QED BY <1>3, <1>6, <1>7 DEF MultiplierExpected, m

\* After an issuance.
LEMMA InflationWithin ==
    ASSUME VaultKept, totalSupply > 0, NEW N \in Nat, N >= totalSupply
    PROVE  MultiplierExpected(Expected!getExpectedIssuePositionMultiplier(
                   positions.positionMultiplier, totalSupply, N), N)
  <1> DEFINE S == totalSupply
             x == (N - S) * PRECISE_UNIT
             d == Expected!preciseDivCeil(N - S, N)
             k == PRECISE_UNIT - d
  <1>1. S \in Nat \ {0} /\ N \in Nat \ {0} /\ N - S \in Nat
    BY DEF VaultKept
  <1> HIDE DEF S
  <1>2. x \in Nat /\ x = N * PRECISE_UNIT - S * PRECISE_UNIT
        /\ N * PRECISE_UNIT \in Nat /\ S * PRECISE_UNIT \in Nat
    BY <1>1, PreciseUnitAssumption
  <1>3. d \in Int /\ d * N >= x /\ d * N < x + N
    <2>1. CASE N - S = 0
      <3>1. d = 0 /\ x = 0
        BY <2>1, PreciseUnitAssumption DEF Expected!preciseDivCeil
      <3> QED BY <1>1, <3>1
    <2>2. CASE N - S # 0
      <3> DEFINE w == x - 1
                 y == w \div N
      <3>1. x >= 1
        BY <1>1, <2>2, PreciseUnitAssumption
      <3>2. w \in Nat
        BY <1>2, <3>1
      <3>3. d = Expected!div(w, N) + 1
        BY <1>1, <2>2 DEF Expected!preciseDivCeil
      <3>4. x = w + 1
        BY <1>2
      <3> HIDE DEF x, d, w
      <3>5. y \in Int /\ y * N <= w /\ w < y * N + N
        BY <1>1, <3>2, DivFloor
      <3>6. d = y + 1
        BY <1>1, <3>2, <3>3, TestDivFloor
      <3> HIDE DEF y
      <3>7. (y + 1) * N = y * N + N /\ y * N \in Int
        BY <1>1, <3>5
      <3> QED BY <1>1, <3>2, <3>4, <3>5, <3>6, <3>7
    <2> QED BY <2>1, <2>2
  <1> HIDE DEF x, d
  <1>4. k * N = N * PRECISE_UNIT - d * N /\ d * N \in Int /\ k * N \in Int /\ k \in Int
    BY <1>1, <1>3, PreciseUnitAssumption
  <1> HIDE DEF k
  <1>5. k * N <= S * PRECISE_UNIT /\ S * PRECISE_UNIT < k * N + N
    BY <1>1, <1>2, <1>3, <1>4
  <1>6. MultiplierExpected(Expected!preciseMul(positions.positionMultiplier, k), N)
    BY <1>1, <1>4, <1>5, MultiplierWithin DEF S
  <1> QED BY <1>6 DEF Expected!getExpectedIssuePositionMultiplier, k, d, S

\* After a redemption.
LEMMA DeflationWithin ==
    ASSUME VaultKept, NEW N \in Nat \ {0}, N <= totalSupply
    PROVE  MultiplierExpected(Expected!getExpectedRedeemPositionMultiplier(
                   positions.positionMultiplier, totalSupply, N), N)
  <1> DEFINE S == totalSupply
             x == (S - N) * PRECISE_UNIT
             d == Expected!preciseDiv(S - N, N)
             k == PRECISE_UNIT + d
  <1>1. S \in Nat \ {0} /\ S - N \in Nat
    BY DEF VaultKept
  <1> HIDE DEF S
  <1>2. x \in Nat /\ x = S * PRECISE_UNIT - N * PRECISE_UNIT
        /\ N * PRECISE_UNIT \in Nat /\ S * PRECISE_UNIT \in Nat
    BY <1>1, PreciseUnitAssumption
  <1>3. d = x \div N
    BY <1>2, TestDivFloor DEF Expected!preciseDiv
  <1> HIDE DEF x
  <1>4. d \in Int /\ d * N <= x /\ x < d * N + N
    BY <1>2, <1>3, DivFloor
  <1> HIDE DEF d
  <1>5. k * N = N * PRECISE_UNIT + d * N /\ d * N \in Int /\ k * N \in Int /\ k \in Int
    BY <1>4, PreciseUnitAssumption
  <1> HIDE DEF k
  <1>6. k * N <= S * PRECISE_UNIT /\ S * PRECISE_UNIT < k * N + N
    BY <1>2, <1>4, <1>5
  <1>7. totalSupply > 0
    BY <1>1 DEF S
  <1>8. MultiplierExpected(Expected!preciseMul(positions.positionMultiplier, k), N)
    BY <1>5, <1>6, <1>7, MultiplierWithin DEF S
  <1> QED BY <1>8 DEF Expected!getExpectedRedeemPositionMultiplier, k, d, S

\* What is minted when the fees agree.
LEMMA MintedAsExpected ==
    ASSUME NAVInv, totalSupply > 0, NEW r \in Components, NEW q \in Nat, NEW prices,
           NEW valuation \in calculateSetTokenValuation(r, prices),
           NEW f \in getFees(q, "issue"), f.net = NetExpected(q, "issue"),
           NEW minted \in getSetTokenMintQuantity(r, f.net, prices)
    PROVE  minted = Expected!getExpectedSetTokenIssueQuantity(valuation, totalSupply,
                      baseUnits[r], q, managerFees["issue"], ProtocolDirectFee, premium)
  <1> DEFINE n == f.net
             part == preciseMul(n, premium)
             less == n - part
             whole == preciseDiv(n, baseUnits[r])
             normal == preciseDiv(less, baseUnits[r])
             den(v) == preciseMul(totalSupply, v) + whole - normal
             S == totalSupply
             b == baseUnits[r]
  <1>1. n \in Nat
    BY FeesOfQuantity DEF NAVInv, FeeIndex
  <1>2. PICK v \in calculateSetTokenValuation(r, prices) :
          den(v) > 0 /\ minted = preciseDiv(preciseMul(normal, totalSupply), den(v))
    BY DEF getSetTokenMintQuantity
  <1>3. v = valuation /\ v \in Nat
    BY DEF calculateSetTokenValuation, require
  <1>4. S \in Nat /\ b \in Nat \ {0} /\ premium \in Nat /\ premium <= PRECISE_UNIT
    BY PreciseUnitAssumption, SetValuerAssumption
       DEF NAVInv, VaultKept, NAVTypeOK, premium
  <1>5. part \in Nat /\ part <= n
    BY <1>1, <1>4, PartOfWhole
  <1>6. part = Expected!preciseMul(n, premium)
    BY <1>1, <1>4, TestDivFloor, PreciseUnitAssumption DEF preciseMul, Expected!preciseMul
  <1> HIDE DEF n, part
  <1>7. less \in Nat
    BY <1>1, <1>5
  <1> HIDE DEF S, b, less
  <1>8. ASSUME NEW y \in Nat, NEW z \in Nat \ {0}
        PROVE  preciseDiv(y, z) = Expected!preciseDiv(y, z)
    <2>1. y * PRECISE_UNIT \in Nat
      BY PreciseUnitAssumption
    <2> QED BY <2>1, TestDivFloor DEF preciseDiv, Expected!preciseDiv
  <1>9. ASSUME NEW y \in Nat, NEW z \in Nat
        PROVE  preciseMul(y, z) = Expected!preciseMul(y, z)
    <2>1. y * z \in Nat
      OBVIOUS
    <2> QED BY <2>1, TestDivFloor, PreciseUnitAssumption DEF preciseMul, Expected!preciseMul
  <1>10. /\ whole \in Nat /\ whole = Expected!preciseDiv(n, b)
         /\ normal \in Nat /\ normal = Expected!preciseDiv(less, b)
    BY <1>1, <1>4, <1>7, <1>8, PreciseDivNat DEF b
  <1> HIDE DEF whole, normal
  <1>11. /\ preciseMul(S, v) \in Nat /\ preciseMul(S, v) = Expected!preciseMul(S, v)
         /\ preciseMul(normal, S) \in Nat
         /\ preciseMul(normal, S) = Expected!preciseMul(normal, S)
    BY <1>3, <1>4, <1>9, <1>10, PreciseMulFloor
  <1>12. den(v) \in Nat \ {0}
    BY <1>2, <1>10, <1>11 DEF S
  <1>13. minted = Expected!preciseDiv(Expected!preciseMul(normal, S), den(v))
    BY <1>2, <1>8, <1>11, <1>12 DEF S
  <1>14. den(v) = Expected!preciseMul(S, valuation) + whole - normal
    BY <1>3, <1>11 DEF S
  <1>15. n = Expected!getExpectedPostFeeQuantity(q, managerFees["issue"], ProtocolDirectFee)
    BY DEF n, NetExpected
  <1> HIDE DEF den
  <1> QED BY <1>6, <1>10, <1>13, <1>14, <1>15
          DEF Expected!getExpectedSetTokenIssueQuantity, S, b, less

\* For all prices, fees, premiums and quantities, what the contract mints and
\* how it rescales the positions is what the arithmetic of the tests expects,
\* up to the roundings that differ.
THEOREM NAVFundSupplyAsExpected == NAVFundSpec => []SupplyAsExpected
  <1>1. NAVInv => SupplyAsExpected
    <2> SUFFICES ASSUME NAVInv, totalSupply > 0,
                        NEW r \in Entries(navIssuanceSettings.reserveAssets),
                        NEW prices \in Quotes
                 PROVE  /\ \A q \in 1..MaxBalance : MintAsExpected(r, q, prices)
                        /\ \A q \in 1..MaxSupply : BurnAsExpected(r, q, prices)
      BY DEF SupplyAsExpected
    <2>1. r \in Components
      BY DEF NAVInv, NAVTypeOK, Entries
    <2>2. ASSUME NEW q \in 1..MaxBalance PROVE MintAsExpected(r, q, prices)
      <3> SUFFICES ASSUME NEW valuation \in calculateSetTokenValuation(r, prices),
                          NEW f \in getFees(q, "issue"),
                          NEW minted \in getSetTokenMintQuantity(r, f.net, prices)
                   PROVE  /\ distance(f.net, NetExpected(q, "issue")) <= 1
                          /\ f.net = NetExpected(q, "issue") =>
                               minted = Expected!getExpectedSetTokenIssueQuantity(
                                 valuation, totalSupply, baseUnits[r], q,
                                 managerFees["issue"], ProtocolDirectFee, premium)
                          /\ MultiplierExpected(
                               Expected!getExpectedIssuePositionMultiplier(
                                 positions.positionMultiplier, totalSupply,
                                 totalSupply + minted), totalSupply + minted)
        BY DEF MintAsExpected
      <3>1. q \in Nat
        OBVIOUS
      <3>2. distance(f.net, NetExpected(q, "issue")) <= 1
        BY <3>1, NetWithinOne DEF NAVInv, FeeIndex
      <3>3. f.net = NetExpected(q, "issue") =>
              minted = Expected!getExpectedSetTokenIssueQuantity(
                         valuation, totalSupply, baseUnits[r], q,
                         managerFees["issue"], ProtocolDirectFee, premium)
        BY <2>1, <3>1, MintedAsExpected
      <3> DEFINE info == [net |-> f.net, newSupply |-> totalSupply + minted]
      <3>4. info \in IssueInfos(r, q, prices)
        BY DEF IssueInfos
      <3>5. info.newSupply \in Nat /\ info.newSupply >= totalSupply
        BY <2>1, <3>1, <3>4, IssuedSupply
      <3>6. info.newSupply = totalSupply + minted
        OBVIOUS
      <3> HIDE DEF info
      <3> QED BY <3>2, <3>3, <3>5, <3>6, InflationWithin DEF NAVInv
    <2>3. ASSUME NEW q \in 1..MaxSupply PROVE BurnAsExpected(r, q, prices)
      <3> SUFFICES ASSUME NEW info \in RedeemInfos(r, q, prices)
                   PROVE  MultiplierExpected(
                            Expected!getExpectedRedeemPositionMultiplier(
                              positions.positionMultiplier, totalSupply, info.newSupply),
                            info.newSupply)
        BY DEF BurnAsExpected
      <3>1. totalSupply \in Nat /\ q \in Nat
        BY DEF NAVInv, VaultKept
      <3>2. totalSupply - q > 0
        BY <3>1 DEF RedeemInfos
      <3>3. info.newSupply = totalSupply - q
        BY <3>2 DEF RedeemInfos
      <3>4. info.newSupply \in Nat \ {0} /\ info.newSupply <= totalSupply
        BY <3>1, <3>2, <3>3
      <3> QED BY <3>4, DeflationWithin DEF NAVInv
    <2> QED BY <2>2, <2>3
  <1> QED BY <1>1, NAVFundInvariant, PTL

-----------------------------------------------------------------------------
(***************************************************************************)
(* Airdrops: a batch absorbs a list of tokens in one transaction, so that  *)
(* its proof is an induction over the list.                                *)
(***************************************************************************)
\* What the recursion over a list of tokens makes of the vaults before token i.
AbsorbUpTo(f, v, tokens, i) ==
    IF i = 0 THEN {v} ELSE absorbFromEach(f[i - 1], tokens[i])

\* The recursion is well founded.
LEMMA AbsorbingDefined ==
    ASSUME NEW v, NEW tokens, NEW n \in Nat
    PROVE  \E f : f = [i \in 0..n |-> AbsorbUpTo(f, v, tokens, i)]
  <1> DEFINE Absorbing(f, m) == [i \in 0..m |-> AbsorbUpTo(f, v, tokens, i)]
             Undefined == {m \in Nat : \A f : f # Absorbing(f, m)}
  <1>1. ASSUME NEW f, NEW g, NEW i \in Nat, i # 0 => g[i - 1] = f[i - 1]
        PROVE  AbsorbUpTo(g, v, tokens, i) = AbsorbUpTo(f, v, tokens, i)
    BY <1>1 DEF AbsorbUpTo
  <1>2. Undefined = {}
    <2> SUFFICES ASSUME Undefined # {} PROVE FALSE
      OBVIOUS
    <2>1. PICK m \in Undefined : \A k \in Undefined : m <= k
      BY LeastNatural
    <2>2. m \in Nat /\ \A f : f # Absorbing(f, m)
      BY <2>1
    <2>3. CASE m = 0
      <3> DEFINE g == [i \in 0..m |-> {v}]
      <3>1. g = Absorbing(g, m)
        BY <2>3 DEF AbsorbUpTo
      <3> QED BY <2>2, <3>1
    <2>4. CASE m # 0
      <3>1. m - 1 \in Nat /\ ~(m <= m - 1)
        BY <2>2, <2>4
      <3>2. PICK f : f = Absorbing(f, m - 1)
        <4> HIDE DEF Absorbing
        <4> QED BY <2>1, <3>1
      <3> DEFINE g == [i \in 0..m |-> IF i = m THEN AbsorbUpTo(f, v, tokens, m)
                                      ELSE f[i]]
      <3>3. ASSUME NEW i \in 0..m
            PROVE  g[i] = AbsorbUpTo(g, v, tokens, i)
        <4>1. i \in Nat /\ i # 0 => g[i - 1] = f[i - 1]
          BY <2>2
        <4>2. AbsorbUpTo(g, v, tokens, i) = AbsorbUpTo(f, v, tokens, i)
          <5> HIDE DEF g
          <5> QED BY <1>1, <4>1
        <4>3. CASE i = m
          BY <4>2, <4>3
        <4>4. CASE i # m
          <5>1. i \in 0..(m - 1) /\ g[i] = f[i]
            BY <2>2, <4>4
          <5>2. f[i] = AbsorbUpTo(f, v, tokens, i)
            BY <3>2, <5>1
          <5> QED BY <4>2, <5>1, <5>2
        <4> QED BY <4>3, <4>4
      <3>4. g = Absorbing(g, m)
        BY <3>3
      <3> QED BY <2>2, <3>4
    <2> QED BY <2>3, <2>4
  <1>3. PICK f : f = Absorbing(f, n)
    BY <1>2
  <1> QED BY <1>3

\* Every outcome of a list is reached by absorbing its tokens in turn.
LEMMA AbsorbingSteps ==
    ASSUME NEW v, NEW tokens \in Seq(Components)
    PROVE  \E f :
             /\ f[0] = {v}
             /\ \A i \in 1..Len(tokens) : f[i] = absorbFromEach(f[i - 1], tokens[i])
             /\ f[Len(tokens)] = absorbTokens(v, tokens)
  <1> DEFINE vaults[i \in 0..Len(tokens)] ==
               IF i = 0 THEN {v} ELSE absorbFromEach(vaults[i - 1], tokens[i])
  <1>1. Len(tokens) \in Nat
    OBVIOUS
  <1>2. absorbTokens(v, tokens) = vaults[Len(tokens)]
    BY DEF absorbTokens
  <1>3. vaults = CHOOSE f : f = [i \in 0..Len(tokens) |-> AbsorbUpTo(f, v, tokens, i)]
    BY DEF AbsorbUpTo
  <1> HIDE DEF vaults
  <1>4. vaults = [i \in 0..Len(tokens) |-> AbsorbUpTo(vaults, v, tokens, i)]
    BY <1>1, <1>3, AbsorbingDefined
  <1>5. ASSUME NEW i \in 0..Len(tokens)
        PROVE  vaults[i] = AbsorbUpTo(vaults, v, tokens, i)
    BY <1>4
  <1>6. vaults[0] = {v}
    BY <1>1, <1>5 DEF AbsorbUpTo
  <1>7. ASSUME NEW i \in 1..Len(tokens)
        PROVE  vaults[i] = absorbFromEach(vaults[i - 1], tokens[i])
    <2>1. i \in 0..Len(tokens) /\ i # 0
      BY <1>1
    <2> QED BY <1>5, <2>1 DEF AbsorbUpTo
  <1> QED BY <1>2, <1>6, <1>7

-----------------------------------------------------------------------------
\* The surplus of a component in a vault on the way through a batch.
SurplusIn(v, c) ==
    v.balances[c] * PRECISE_UNIT
        - getDefaultPositionRealUnit(v.positions, c) * totalSupply

VaultOK(v) == StorageOK(v.positions) /\ v.balances \in [Components -> Nat]

\* The terms of that surplus are integers.
LEMMA SurplusInTerms ==
    ASSUME totalSupply \in Nat, NEW v, VaultOK(v), NEW c \in Components
    PROVE  /\ v.balances[c] \in Nat
           /\ getDefaultPositionRealUnit(v.positions, c) \in Nat
           /\ SurplusIn(v, c) \in Int
  <1>1. v.balances[c] \in Nat /\ getDefaultPositionRealUnit(v.positions, c) \in Nat
    BY RealUnitNat DEF VaultOK
  <1> QED BY <1>1, PreciseUnitAssumption DEF SurplusIn

\* Nothing airdropped means that the balance is what the position tracks,
\* rounded down.
LEMMA NothingAirdropped ==
    ASSUME NEW b \in Nat, NEW r \in Nat, NEW s \in Nat, b - preciseMul(s, r) = 0
    PROVE  b * PRECISE_UNIT - r * s <= 2 * s
  <1> DEFINE t == preciseMul(s, r)
  <1>1. t \in Nat /\ t * PRECISE_UNIT <= s * r
    BY PreciseMulFloor
  <1> HIDE DEF t
  <1>2. b = t
    BY <1>1 DEF t
  <1>3. b * PRECISE_UNIT <= s * r /\ b * PRECISE_UNIT \in Int
    BY <1>1, <1>2, PreciseUnitAssumption
  <1>4. s * r = r * s /\ r * s \in Int
    OBVIOUS
  <1> QED BY <1>3, <1>4

\* The unit derived from a balance leaves less than two wei of it per
\* SetToken out of the position: one lost in the unit, one in storing it.
LEMMA UnitOfBalance ==
    ASSUME NEW n \in Nat, NEW s \in Nat \ {0}, NEW r \in Nat,
           r <= getDefaultPositionUnit(s, n)
    PROVE  /\ n * PRECISE_UNIT - r * s >= 0
           /\ getDefaultPositionUnit(s, n) <= r + 1 =>
                n * PRECISE_UNIT - r * s <= 2 * s
  <1> DEFINE x == n * PRECISE_UNIT
             u == x \div s
  <1>1. x \in Nat
    BY PreciseUnitAssumption
  <1>2. getDefaultPositionUnit(s, n) = u
    BY DEF getDefaultPositionUnit, preciseDiv
  <1> HIDE DEF x
  <1>3. u \in Int /\ u * s <= x /\ x < u * s + s
    BY <1>1, DivFloor
  <1> HIDE DEF u
  <1>4. r * s <= u * s
    BY <1>2, <1>3, MulMonotonic
  <1>5. r * s \in Int /\ u * s \in Int
    BY <1>3
  <1>6. x - r * s >= 0
    BY <1>1, <1>3, <1>4, <1>5
  <1>7. ASSUME u <= r + 1 PROVE x - r * s <= 2 * s
    <2>1. u * s <= (r + 1) * s
      BY <1>3, <1>7, MulMonotonic
    <2>2. (r + 1) * s = r * s + s
      OBVIOUS
    <2> QED BY <1>1, <1>3, <1>5, <2>1, <2>2
  <1> QED BY <1>2, <1>6, <1>7 DEF x

\* Absorbing a token leaves the others alone, pays the fees out of what no
\* position tracks, and leaves next to nothing of the token out of its own.
LEMMA AbsorbTokenKeeps ==
    ASSUME totalSupply \in Nat,
           airdropSettings.airdropFee \in Nat,
           airdropSettings.airdropFee <= PRECISE_UNIT,
           NEW v, VaultOK(v), NEW c \in Components, NEW w \in absorbToken(v, c)
    PROVE  /\ VaultOK(w)
           /\ w.positions.positionMultiplier = v.positions.positionMultiplier
           /\ \A d \in Components \ {c} : SurplusIn(w, d) = SurplusIn(v, d)
           /\ SurplusIn(v, c) >= 0 => SurplusIn(w, c) >= 0
           /\ v.positions.positionMultiplier <= PRECISE_UNIT =>
                SurplusIn(w, c) <= 2 * totalSupply
  <1> DEFINE r == getDefaultPositionRealUnit(v.positions, c)
             tracked == preciseMul(totalSupply, r)
             amountAirdropped == v.balances[c] - tracked
             totalFees == handleFees(amountAirdropped)
             left == v.balances[c] - totalFees
  <1>1. v.balances[c] \in Nat /\ r \in Nat
    BY SurplusInTerms
  <1>2. tracked \in Nat
    BY <1>1, PreciseMulFloor
  <1>3. w \in handleAirdropPosition(v, c)
    BY DEF absorbToken, require
  <1>4. CASE amountAirdropped = 0
    <2>1. w = v
      BY <1>3, <1>4 DEF handleAirdropPosition, getDefaultTrackedBalance
    <2>2. SurplusIn(v, c) <= 2 * totalSupply
      BY <1>1, <1>4, NothingAirdropped DEF SurplusIn
    <2> QED BY <2>1, <2>2
  <1>5. CASE amountAirdropped # 0
    <2>1. /\ amountAirdropped > 0 /\ totalSupply > 0
          /\ \E p \in editDefaultPosition(v.positions, c,
                          getDefaultPositionUnit(totalSupply, left)) :
               w = [positions |-> p,
                    balances |-> [v.balances EXCEPT ![c] = @ - totalFees]]
      BY <1>3, <1>5 DEF handleAirdropPosition, getDefaultTrackedBalance, require,
                        getPostAirdropUnit
    <2>2. PICK p \in editDefaultPosition(v.positions, c,
                         getDefaultPositionUnit(totalSupply, left)) :
            w = [positions |-> p, balances |-> [v.balances EXCEPT ![c] = @ - totalFees]]
      BY <2>1
    <2>3. w.positions = p /\ w.balances = [v.balances EXCEPT ![c] = @ - totalFees]
      BY <2>2
    <2>4. amountAirdropped \in Nat
      BY <1>1, <1>2, <2>1
    <2> HIDE DEF amountAirdropped
    <2>5. totalFees \in Nat /\ totalFees <= amountAirdropped
      BY <2>4, PartOfWhole DEF handleFees
    <2> HIDE DEF totalFees, tracked
    <2>6. left \in Nat
      BY <1>1, <1>2, <2>4, <2>5 DEF amountAirdropped
    <2>7. /\ w.balances \in [Components -> Nat]
          /\ w.balances[c] = left
          /\ \A d \in Components \ {c} : w.balances[d] = v.balances[d]
      BY <2>3, <2>6 DEF VaultOK
    <2> HIDE DEF left
    <2> DEFINE u == getDefaultPositionUnit(totalSupply, left)
    <2>8. u \in Nat
      BY <2>1, <2>6, PositionUnitFloor
    <2>9. StorageOK(p)
      BY <2>2, <2>8, EditDefaultPositionOK DEF VaultOK
    <2>10. /\ p.positionMultiplier = v.positions.positionMultiplier
           /\ \A d \in Components \ {c} : p.virtualUnit[d] = v.positions.virtualUnit[d]
           /\ getDefaultPositionRealUnit(p, c) <= u
           /\ v.positions.positionMultiplier <= PRECISE_UNIT =>
                u <= getDefaultPositionRealUnit(p, c) + 1
      BY <2>2, <2>8, EditDefaultUnit DEF VaultOK
    <2>11. getDefaultPositionRealUnit(p, c) \in Nat
      BY <2>9, RealUnitNat
    <2>12. /\ SurplusIn(w, c) >= 0
           /\ v.positions.positionMultiplier <= PRECISE_UNIT =>
                SurplusIn(w, c) <= 2 * totalSupply
      <3>1. SurplusIn(w, c) = left * PRECISE_UNIT
                                - getDefaultPositionRealUnit(p, c) * totalSupply
        BY <2>3, <2>7 DEF SurplusIn
      <3> QED BY <2>1, <2>6, <2>10, <2>11, <3>1, UnitOfBalance
    <2>13. ASSUME NEW d \in Components \ {c} PROVE SurplusIn(w, d) = SurplusIn(v, d)
      BY <2>3, <2>7, <2>10 DEF SurplusIn, getDefaultPositionRealUnit,
                               convertVirtualToRealUnit
    <2> QED BY <2>3, <2>7, <2>9, <2>10, <2>12, <2>13 DEF VaultOK
  <1> QED BY <1>4, <1>5

\* What a batch has made of the vault v when it has absorbed i tokens.
AbsorbedSoFar(v, tokens, i, w) ==
    /\ VaultOK(w)
    /\ w.positions.positionMultiplier = v.positions.positionMultiplier
    /\ \A c \in Components : SurplusIn(v, c) >= 0 => SurplusIn(w, c) >= 0
    /\ v.positions.positionMultiplier <= PRECISE_UNIT =>
         \A j \in 1..i : SurplusIn(w, tokens[j]) <= 2 * totalSupply

\* A batch backs what was backed before, and leaves next to nothing of any of
\* its tokens out of the positions.
LEMMA AbsorbTokensKeep ==
    ASSUME totalSupply \in Nat,
           airdropSettings.airdropFee \in Nat,
           airdropSettings.airdropFee <= PRECISE_UNIT,
           NEW v, VaultOK(v), NEW tokens \in Seq(Components),
           NEW w \in absorbTokens(v, tokens)
    PROVE  AbsorbedSoFar(v, tokens, Len(tokens), w)
  <1> DEFINE n == Len(tokens)
  <1>1. n \in Nat
    OBVIOUS
  <1>2. PICK f : /\ f[0] = {v}
                 /\ \A i \in 1..n : f[i] = absorbFromEach(f[i - 1], tokens[i])
                 /\ f[n] = absorbTokens(v, tokens)
    BY AbsorbingSteps
  <1> DEFINE Broken == {i \in 0..n : \E x \in f[i] : ~AbsorbedSoFar(v, tokens, i, x)}
  <1>3. AbsorbedSoFar(v, tokens, 0, v)
    BY DEF AbsorbedSoFar
  <1>4. ASSUME NEW i \in 1..n, NEW y \in f[i - 1], AbsorbedSoFar(v, tokens, i - 1, y),
               NEW x \in absorbToken(y, tokens[i])
        PROVE  AbsorbedSoFar(v, tokens, i, x)
    <2>1. tokens[i] \in Components /\ VaultOK(y)
      BY <1>4 DEF AbsorbedSoFar
    <2>2. /\ VaultOK(x)
          /\ x.positions.positionMultiplier = y.positions.positionMultiplier
          /\ \A d \in Components \ {tokens[i]} : SurplusIn(x, d) = SurplusIn(y, d)
          /\ SurplusIn(y, tokens[i]) >= 0 => SurplusIn(x, tokens[i]) >= 0
          /\ y.positions.positionMultiplier <= PRECISE_UNIT =>
               SurplusIn(x, tokens[i]) <= 2 * totalSupply
      BY <2>1, AbsorbTokenKeeps
    <2>3. \A c \in Components : SurplusIn(v, c) >= 0 => SurplusIn(x, c) >= 0
      BY <1>4, <2>2 DEF AbsorbedSoFar
    <2>4. ASSUME v.positions.positionMultiplier <= PRECISE_UNIT, NEW j \in 1..i
          PROVE  SurplusIn(x, tokens[j]) <= 2 * totalSupply
      <3>1. CASE tokens[j] = tokens[i]
        BY <1>4, <2>2, <2>4, <3>1 DEF AbsorbedSoFar
      <3>2. CASE tokens[j] # tokens[i]
        <4>1. j \in 1..(i - 1) /\ j \in 1..n
          BY <1>1, <3>2
        <4>2. tokens[j] \in Components
          BY <4>1
        <4> QED BY <1>4, <2>2, <2>4, <3>2, <4>1, <4>2 DEF AbsorbedSoFar
      <3> QED BY <3>1, <3>2
    <2> QED BY <1>4, <2>2, <2>3, <2>4 DEF AbsorbedSoFar
  <1>5. Broken = {}
    <2> SUFFICES ASSUME Broken # {} PROVE FALSE
      OBVIOUS
    <2>1. Broken \subseteq Nat
      BY <1>1
    <2>2. PICK i \in Broken : \A k \in Broken : i <= k
      BY <2>1, LeastNatural
    <2>3. i \in 0..n /\ \E x \in f[i] : ~AbsorbedSoFar(v, tokens, i, x)
      BY <2>2
    <2>4. PICK x \in f[i] : ~AbsorbedSoFar(v, tokens, i, x)
      BY <2>3
    <2>5. i # 0
      BY <1>2, <1>3, <2>4
    <2>6. i \in 1..n /\ i - 1 \in 0..n /\ ~(i <= i - 1)
      BY <1>1, <2>3, <2>5
    <2>7. \A y \in f[i - 1] : AbsorbedSoFar(v, tokens, i - 1, y)
      <3>1. i - 1 \notin Broken
        BY <2>2, <2>6
      <3> QED BY <2>6, <3>1
    <2>8. PICK y \in f[i - 1] : x \in absorbToken(y, tokens[i])
      BY <1>2, <2>4, <2>6 DEF absorbFromEach
    <2> QED BY <1>4, <2>4, <2>6, <2>7, <2>8
  <1>6. n \in 0..n /\ w \in f[n]
    BY <1>1, <1>2
  <1> QED BY <1>5, <1>6

-----------------------------------------------------------------------------
\* The settings list each token once, and allow exactly those listed.
AirdropTypeOK ==
    /\ airdropSettings \in [airdrops : Seq(Components), airdropFee : Nat,
                            anyoneAbsorb : BOOLEAN]
    /\ isAirdrop \in [Components -> BOOLEAN]
    /\ isAirdropModule \in BOOLEAN
    /\ airdropSettings.airdropFee <= PRECISE_UNIT

AirdropFundInv == FundInv /\ AirdropTypeOK /\ AirdropsListed

\* What a step owes the vault: its invariant, and that a new fee finds only
\* what rounding has left of the tokens listed.
AirdropStepOK ==
    /\ FundInv'
    /\ isAirdropModule /\ isAirdropModule'
       /\ airdropSettings'.airdropFee # airdropSettings.airdropFee =>
         \A c \in Entries(airdropSettings.airdrops) : Surplus(c)' <= 2 * totalSupply

LEMMA AbsorbAllKeeps ==
    ASSUME AirdropFundInv, UNCHANGED feeVars,
           NEW tokens \in Seq(Components), AbsorbAll(tokens)
    PROVE  /\ FundInv'
           /\ \A c \in Entries(tokens) : Surplus(c)' <= 2 * totalSupply
  <1> DEFINE v == [positions |-> positions, balances |-> balances]
  <1>1. FundInv /\ AirdropTypeOK
    BY DEF AirdropFundInv
  <1>2. /\ VaultOK(v) /\ totalSupply \in Nat
        /\ positions.positionMultiplier <= PRECISE_UNIT
    BY <1>1 DEF FundInv, FundTypeOK, PositionsInv, VaultOK, MultiplierAtMostParity
  <1>3. PICK w \in absorbTokens(v, tokens) :
            positions' = w.positions /\ balances' = w.balances
    BY DEF AbsorbAll
  <1>4. totalSupply' = totalSupply
    BY DEF AbsorbAll
  <1>5. \A c \in Components : SurplusIn(v, c) = Surplus(c)
    BY DEF SurplusIn, Surplus
  <1> HIDE DEF v
  <1>6. AbsorbedSoFar(v, tokens, Len(tokens), w)
    BY <1>1, <1>2, AbsorbTokensKeep DEF AirdropTypeOK
  <1>7. v.positions = positions
    BY DEF v
  <1>8. ASSUME NEW c \in Components PROVE SurplusIn(w, c) = Surplus(c)'
    BY <1>3, <1>4 DEF SurplusIn, Surplus
  <1>9. /\ StorageOK(positions') /\ balances' \in [Components -> Nat]
        /\ positions'.positionMultiplier = positions.positionMultiplier
    BY <1>3, <1>6, <1>7 DEF AbsorbedSoFar, VaultOK
  <1>10. FundTypeOK' /\ PositionsInv' /\ FeeWithinMax' /\ LastAccrualPast'
         /\ MultiplierAtMostParity'
    BY <1>1, <1>4, <1>9 DEF FundInv, FundTypeOK, PositionsInv, StorageOK, FeeWithinMax,
                            LastAccrualPast, MultiplierAtMostParity, feeVars
  <1>11. CollateralizedUntilFee'
    BY <1>1, <1>5, <1>6, <1>8, <1>9 DEF FundInv, CollateralizedUntilFee,
                                        FullyCollateralized, AbsorbedSoFar
  <1>12. ASSUME NEW c \in Entries(tokens) PROVE Surplus(c)' <= 2 * totalSupply
    <2>1. PICK j \in 1..Len(tokens) : c = tokens[j]
      BY DEF Entries
    <2>2. c \in Components
      BY <2>1
    <2> QED BY <1>2, <1>6, <1>7, <1>8, <2>1, <2>2 DEF AbsorbedSoFar
  <1> QED BY <1>10, <1>11, <1>12 DEF FundInv

\* Steps that touch neither the vault nor the streaming fee.
LEMMA FundInvIdle ==
    ASSUME FundInv, UNCHANGED vaultVars, UNCHANGED feeVars
    PROVE  FundInv'
  BY FundInvNext DEF fundVars, vaultVars, feeVars

\* A list without repetitions that names no token allows none.
LEMMA NoAirdropsListed ==
    /\ NoAirdropSettings \in [airdrops : Seq(Components), airdropFee : Nat,
                              anyoneAbsorb : BOOLEAN]
    /\ ~hasDuplicate(NoAirdropSettings.airdrops)
    /\ \A c : ~contains(NoAirdropSettings.airdrops, c)
    /\ NoAirdropSettings.airdropFee = 0
  BY DEF NoAirdropSettings, hasDuplicate, contains

LEMMA AirdropFundInit_Inv == AirdropFundInit => AirdropFundInv
  <1> SUFFICES ASSUME AirdropFundInit PROVE AirdropFundInv
    OBVIOUS
  <1>1. /\ airdropSettings = NoAirdropSettings /\ isAirdropModule = FALSE
        /\ isAirdrop = [c \in Components |-> FALSE]
    BY DEF AirdropFundInit, AirdropInit
  <1>2. AirdropTypeOK
    <2>1. isAirdrop \in [Components -> BOOLEAN] /\ isAirdropModule \in BOOLEAN
      BY <1>1
    <2>2. airdropSettings.airdropFee <= PRECISE_UNIT
      BY <1>1, NoAirdropsListed, PreciseUnitAssumption
    <2> QED BY <1>1, <2>1, <2>2, NoAirdropsListed, Zenon DEF AirdropTypeOK
  <1>3. AirdropsListed
    BY <1>1, NoAirdropsListed, Zenon DEF AirdropsListed
  <1> QED BY <1>2, <1>3, FundInvInit DEF AirdropFundInit, AirdropFundInv

\* Every step keeps the list of tokens and the flags in agreement.
LEMMA AirdropsKeepLists ==
    ASSUME AirdropTypeOK, AirdropsListed, Airdrops
    PROVE  AirdropTypeOK' /\ AirdropsListed'
  <1> DEFINE A == airdropSettings.airdrops
             Listed(B, allowed) == \A c \in Components : allowed[c] <=> contains(B, c)
  <1>1. /\ A \in Seq(Components) /\ ~hasDuplicate(A) /\ Listed(A, isAirdrop)
        /\ isAirdrop \in [Components -> BOOLEAN]
        /\ ~isAirdropModule => airdropSettings = NoAirdropSettings
    BY DEF AirdropTypeOK, AirdropsListed
  <1>2. CASE \E caller \in Callers, B \in TokenLists : batchAbsorb(caller, B)
    BY <1>2 DEF batchAbsorb, airdropVars, AirdropTypeOK, AirdropsListed
  <1>3. ASSUME NEW c \in Components, addAirdrop(c)
        PROVE  AirdropTypeOK' /\ AirdropsListed'
    <2>1. ~contains(A, c) /\ isAirdropModule /\ isAirdropModule' = isAirdropModule
      BY <1>1, <1>3 DEF addAirdrop
    <2>2. /\ airdropSettings' = [airdropSettings EXCEPT !.airdrops = Append(A, c)]
          /\ isAirdrop' = [isAirdrop EXCEPT ![c] = TRUE]
      BY <1>3 DEF addAirdrop
    <2>3. /\ Append(A, c) \in Seq(Components)
          /\ ~hasDuplicate(Append(A, c))
          /\ \A x : contains(Append(A, c), x) <=> contains(A, x) \/ x = c
      BY <1>1, <2>1, AppendAbsent
    <2>4. Listed(Append(A, c), isAirdrop')
      BY <1>1, <2>2, <2>3, Zenon
    <2>5. airdropSettings'.airdrops = Append(A, c)
      BY <2>2 DEF AirdropTypeOK
    <2>6. AirdropTypeOK'
      BY <1>1, <2>1, <2>2, <2>3 DEF AirdropTypeOK
    <2> QED BY <2>1, <2>3, <2>4, <2>5, <2>6 DEF AirdropsListed
  <1>4. ASSUME NEW c \in Components, removeAirdrop(c)
        PROVE  AirdropTypeOK' /\ AirdropsListed'
    <2> DEFINE B == removeStorage(A, c)
    <2>1. contains(A, c) /\ isAirdropModule /\ isAirdropModule' = isAirdropModule
      BY <1>1, <1>4 DEF removeAirdrop
    <2>2. /\ airdropSettings' = [airdropSettings EXCEPT !.airdrops = B]
          /\ isAirdrop' = [isAirdrop EXCEPT ![c] = FALSE]
      BY <1>4 DEF removeAirdrop
    <2>3. /\ B \in Seq(Components)
          /\ ~hasDuplicate(B)
          /\ \A x : contains(B, x) <=> contains(A, x) /\ x # c
      BY <1>1, <2>1, RemoveStorageExact
    <2> HIDE DEF B
    <2>4. Listed(B, isAirdrop')
      BY <1>1, <2>2, <2>3, Zenon
    <2>5. airdropSettings'.airdrops = B
      BY <2>2 DEF AirdropTypeOK
    <2>6. AirdropTypeOK'
      BY <1>1, <2>1, <2>2, <2>3 DEF AirdropTypeOK
    <2> QED BY <2>1, <2>3, <2>4, <2>5, <2>6 DEF AirdropsListed
  <1>5. ASSUME NEW b \in BOOLEAN, updateAnyoneAbsorb(b)
        PROVE  AirdropTypeOK' /\ AirdropsListed'
    BY <1>5 DEF updateAnyoneAbsorb, AirdropTypeOK, AirdropsListed
  <1>6. ASSUME NEW f \in AirdropFees, updateAirdropFee(f)
        PROVE  AirdropTypeOK' /\ AirdropsListed'
    <2>1. f \in Nat
      BY AirdropAssumption
    <2> QED BY <1>6, <2>1 DEF updateAirdropFee, AirdropTypeOK, AirdropsListed
  <1>7. ASSUME NEW B \in TokenLists, NEW f \in AirdropFees, NEW b \in BOOLEAN,
               initializeAirdrop(B, f, b)
        PROVE  AirdropTypeOK' /\ AirdropsListed'
    <2>1. B \in Seq(Components) /\ f \in Nat
      BY AirdropAssumption, MaxTokensAssumption DEF TokenLists
    <2>2. /\ ~isAirdropModule /\ f <= PRECISE_UNIT /\ ~hasDuplicate(B)
          /\ airdropSettings' = [airdrops |-> B, airdropFee |-> f, anyoneAbsorb |-> b]
          /\ isAirdrop' = [c \in Components |-> isAirdrop[c] \/ contains(B, c)]
          /\ isAirdropModule' = TRUE
      BY <1>7 DEF initializeAirdrop
    <2>3. \A c \in Components : ~isAirdrop[c]
      BY <1>1, <2>2, NoAirdropsListed
    <2>4. Listed(B, isAirdrop')
      BY <2>2, <2>3, Zenon
    <2>5. isAirdrop' \in [Components -> BOOLEAN]
      BY <2>2, <1>1 DEF contains
    <2> QED BY <2>1, <2>2, <2>4, <2>5 DEF AirdropTypeOK, AirdropsListed
  <1>8. CASE removeAirdropModule
    <2>1. /\ isAirdrop' = [c \in Components |-> isAirdrop[c] /\ ~contains(A, c)]
          /\ airdropSettings' = NoAirdropSettings
          /\ isAirdropModule' = FALSE
      BY <1>8 DEF removeAirdropModule
    <2>2. isAirdrop' = [c \in Components |-> FALSE]
      BY <1>1, <2>1, Zenon
    <2>3. AirdropTypeOK'
      <3>1. isAirdrop' \in [Components -> BOOLEAN] /\ isAirdropModule' \in BOOLEAN
        BY <2>1, <2>2
      <3>2. airdropSettings'.airdropFee <= PRECISE_UNIT
        BY <2>1, NoAirdropsListed, PreciseUnitAssumption
      <3> QED BY <2>1, <3>1, <3>2, NoAirdropsListed, Zenon DEF AirdropTypeOK
    <2>4. AirdropsListed'
      BY <2>1, <2>2, NoAirdropsListed, Zenon DEF AirdropsListed
    <2> QED BY <2>3, <2>4
  <1> QED BY <1>2, <1>3, <1>4, <1>5, <1>6, <1>7, <1>8 DEF Airdrops

LEMMA AirdropsStep == AirdropFundInv /\ Airdrops => AirdropStepOK
  <1> SUFFICES ASSUME AirdropFundInv, Airdrops PROVE AirdropStepOK
    OBVIOUS
  <1>1. FundInv /\ AirdropTypeOK /\ UNCHANGED feeVars
    BY DEF AirdropFundInv, Airdrops
  <1>2. ASSUME NEW B \in TokenLists, NEW caller \in Callers, batchAbsorb(caller, B)
        PROVE  AirdropStepOK
    <2>1. B \in Seq(Components)
      BY MaxTokensAssumption DEF TokenLists
    <2> QED BY <1>1, <1>2, <2>1, AbsorbAllKeeps
            DEF batchAbsorb, airdropVars, AirdropStepOK
  <1>3. ASSUME UNCHANGED vaultVars,
               airdropSettings'.airdropFee = airdropSettings.airdropFee
                 \/ ~isAirdropModule \/ ~isAirdropModule'
        PROVE  AirdropStepOK
    BY <1>1, <1>3, FundInvIdle DEF AirdropStepOK
  <1>4. CASE \E c \in Components : addAirdrop(c) \/ removeAirdrop(c)
    BY <1>1, <1>3, <1>4 DEF addAirdrop, removeAirdrop, AirdropTypeOK
  <1>5. CASE \E b \in BOOLEAN : updateAnyoneAbsorb(b)
    BY <1>1, <1>3, <1>5 DEF updateAnyoneAbsorb, AirdropTypeOK
  <1>6. ASSUME NEW f \in AirdropFees, updateAirdropFee(f) PROVE AirdropStepOK
    <2>1. airdropSettings.airdrops \in Seq(Components)
      BY <1>1 DEF AirdropTypeOK
    <2> QED BY <1>1, <1>6, <2>1, AbsorbAllKeeps DEF updateAirdropFee, AirdropStepOK
  <1>7. CASE \E B \in TokenLists, f \in AirdropFees, b \in BOOLEAN :
               initializeAirdrop(B, f, b)
    BY <1>3, <1>7 DEF initializeAirdrop
  <1>8. CASE removeAirdropModule
    BY <1>3, <1>8 DEF removeAirdropModule
  <1> QED BY <1>2, <1>4, <1>5, <1>6, <1>7, <1>8 DEF Airdrops

LEMMA AirdropFundStep ==
    AirdropFundInv /\ [AirdropFundNext]_airdropFundVars => AirdropFundInv' /\ AirdropStepOK
  <1> SUFFICES ASSUME AirdropFundInv, [AirdropFundNext]_airdropFundVars
               PROVE  AirdropFundInv' /\ AirdropStepOK
    OBVIOUS
  <1>1. FundInv /\ AirdropTypeOK /\ AirdropsListed
    BY DEF AirdropFundInv
  <1>2. ASSUME [FundNext]_fundVars, UNCHANGED airdropVars
        PROVE  AirdropFundInv' /\ AirdropStepOK
    <2>1. FundInv'
      BY <1>1, <1>2, FundInvNext
    <2>2. AirdropTypeOK' /\ AirdropsListed'
      BY <1>1, <1>2 DEF airdropVars, AirdropTypeOK, AirdropsListed
    <2> QED BY <1>2, <2>1, <2>2 DEF airdropVars, AirdropFundInv, AirdropStepOK
  <1>3. CASE Airdrops
    BY <1>1, <1>3, AirdropsStep, AirdropsKeepLists DEF AirdropFundInv, AirdropStepOK
  <1>4. CASE FundNext /\ UNCHANGED airdropVars
    BY <1>2, <1>4
  <1>5. CASE UNCHANGED airdropFundVars
    BY <1>2, <1>5 DEF airdropFundVars
  <1> QED BY <1>3, <1>4, <1>5 DEF AirdropFundNext

\* The inductive invariant of the fund with airdrops.
THEOREM AirdropFundInvariant == AirdropFundSpec => []AirdropFundInv
  BY AirdropFundInit_Inv, AirdropFundStep, PTL DEF AirdropFundSpec

\* Whatever is airdropped and absorbed, and in whatever order, the fees come
\* out of what no position tracks: the whole supply can be redeemed until a
\* streaming fee is charged.
THEOREM AirdropsCollateralized == AirdropFundSpec => []CollateralizedUntilFee
  <1>1. AirdropFundInv => CollateralizedUntilFee
    BY DEF AirdropFundInv, FundInv
  <1> QED BY <1>1, AirdropFundInvariant, PTL

\* Absorption follows the manager's list through every edit, removal and
\* reinstallation of the module.
THEOREM AirdropListsAgree == AirdropFundSpec => []AirdropsListed
  <1>1. AirdropFundInv => AirdropsListed
    BY DEF AirdropFundInv
  <1> QED BY <1>1, AirdropFundInvariant, PTL

\* The manager cannot charge a new airdrop fee on what had already arrived.
THEOREM AirdropFeeProspective == AirdropFundSpec => AirdropFeeNotRetroactive
  <1>1. AirdropFundInv /\ [AirdropFundNext]_airdropFundVars =>
          [isAirdropModule /\ isAirdropModule'
           /\ airdropSettings'.airdropFee # airdropSettings.airdropFee =>
             \A c \in Entries(airdropSettings.airdrops) :
                Surplus(c)' <= 2 * totalSupply]_airdropFundVars
    BY AirdropFundStep DEF AirdropStepOK
  <1> QED BY <1>1, AirdropFundInvariant, PTL DEF AirdropFundSpec, AirdropFeeNotRetroactive

=============================================================================
