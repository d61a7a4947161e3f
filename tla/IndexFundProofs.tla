-------------------------- MODULE IndexFundProofs --------------------------
(***************************************************************************)
(* IndexFund, for every set of traders and components, every fee, trade    *)
(* size and target and every PRECISE_UNIT: who may trade, that trades stop *)
(* at the targets, and that they spend nothing the positions do not track. *)
(***************************************************************************)
EXTENDS IndexFund, VaultProofs

PermissionType ==
    /\ permissionInfo \in [info : [anyoneTrade : BOOLEAN, tradersHistory : Seq(Traders)],
                           tradeAllowList : SUBSET Traders]
    /\ isIndexModule \in BOOLEAN

\* The permissions, stated with contains as the library lemmas are.
HistoryOK ==
    /\ ~hasDuplicate(permissionInfo.info.tradersHistory)
    /\ \A t : contains(permissionInfo.info.tradersHistory, t)
                <=> t \in permissionInfo.tradeAllowList

\* Without the module nobody is permitted: a removal leaves nothing behind.
NobodyWithoutModule == ~isIndexModule => permissionInfo = NoPermission

TradersInv == PermissionType /\ HistoryOK /\ NobodyWithoutModule

-----------------------------------------------------------------------------
\* The history of a new or removed module names nobody.
LEMMA EmptyHistory ==
    <<>> \in Seq(Traders) /\ ~hasDuplicate(<<>>) /\ \A t : ~contains(<<>>, t)
  BY DEF hasDuplicate, contains

\* A new history leaves the other field of the permissions alone.
LEMMA HistoryField ==
    ASSUME NEW b, NEW e, NEW h
    PROVE  [[anyoneTrade |-> b, tradersHistory |-> e] EXCEPT !.tradersHistory = h]
             = [anyoneTrade |-> b, tradersHistory |-> h]
  OBVIOUS

\* The manager permitted one trader when the SetToken was set up.
LEMMA TradersInvInit == Init => TradersInv
  <1> SUFFICES ASSUME Init PROVE TradersInv
    OBVIOUS
  <1>1. PICK trader \in Traders :
          permissionInfo = [info |-> [anyoneTrade |-> FALSE, tradersHistory |-> <<trader>>],
                            tradeAllowList |-> {trader}]
    <2>1. PICK trader \in Traders :
            permissionInfo = [info |-> [NoPermissionInfo EXCEPT !.tradersHistory = <<trader>>],
                              tradeAllowList |-> {trader}]
      BY Zenon DEF Init, IndexInit
    <2>2. [NoPermissionInfo EXCEPT !.tradersHistory = <<trader>>]
            = [anyoneTrade |-> FALSE, tradersHistory |-> <<trader>>]
      BY HistoryField DEF NoPermissionInfo
    <2> QED BY <2>1, <2>2
  <1>2. isIndexModule = TRUE
    BY DEF Init, IndexInit
  <1>3. <<trader>> \in Seq(Traders) /\ ~hasDuplicate(<<trader>>)
    BY DEF hasDuplicate
  <1>4. \A t : contains(<<trader>>, t) <=> t \in {trader}
    BY DEF contains
  <1> QED BY <1>1, <1>2, <1>3, <1>4
          DEF TradersInv, PermissionType, HistoryOK, NobodyWithoutModule

\* What updateTradersHistory does to the history is what the assignment does
\* to the mapping.
LEMMA HistoryUpdated ==
    ASSUME NEW A \in Seq(Traders), ~hasDuplicate(A),
           NEW t \in Traders, NEW status \in BOOLEAN
    PROVE  /\ updateTradersHistory(A, t, status) \in Seq(Traders)
           /\ ~hasDuplicate(updateTradersHistory(A, t, status))
           /\ \A x : contains(updateTradersHistory(A, t, status), x)
                       <=> IF x = t THEN status ELSE contains(A, x)
  <1> DEFINE B == updateTradersHistory(A, t, status)
  <1>0. contains(A, t) \in BOOLEAN
    BY DEF contains
  <1>1. CASE status = contains(A, t)
    <2>1. B = A
      BY <1>1 DEF updateTradersHistory
    <2> QED BY <1>1, <2>1
  <1>2. CASE status # contains(A, t) /\ status
    <2>1. ~contains(A, t) /\ B = Append(A, t)
      BY <1>0, <1>2 DEF updateTradersHistory
    <2>2. B \in Seq(Traders) /\ ~hasDuplicate(B)
            /\ \A x : contains(B, x) <=> contains(A, x) \/ x = t
      BY <2>1, AppendAbsent
    <2> QED BY <1>2, <2>2
  <1>3. CASE status # contains(A, t) /\ ~status
    <2>1. contains(A, t) /\ B = removeStorage(A, t)
      BY <1>0, <1>3 DEF updateTradersHistory
    <2>2. B \in Seq(Traders) /\ ~hasDuplicate(B)
            /\ \A x : contains(B, x) <=> contains(A, x) /\ x # t
      BY <2>1, RemoveStorageExact
    <2> QED BY <1>3, <2>2
  <1> QED BY <1>1, <1>2, <1>3

\* setTraderStatus keeps history and mapping together.
LEMMA SetTraderStatusKeeps ==
    ASSUME TradersInv, NEW t \in Traders, NEW status \in BOOLEAN,
           setTraderStatus(t, status)
    PROVE  TradersInv'
  <1> DEFINE A == permissionInfo.info.tradersHistory
             B == updateTradersHistory(A, t, status)
             allowed == permissionInfo.tradeAllowList
             newAllowed == IF status THEN allowed \cup {t} ELSE allowed \ {t}
             anyone == permissionInfo.info.anyoneTrade
  <1>1. A \in Seq(Traders) /\ anyone \in BOOLEAN /\ allowed \in SUBSET Traders
    BY DEF TradersInv, PermissionType
  <1>2. ~hasDuplicate(A) /\ \A x : contains(A, x) <=> x \in allowed
    BY DEF TradersInv, HistoryOK
  <1>3. isIndexModule = TRUE /\ isIndexModule' = TRUE
    BY DEF setTraderStatus, TradersInv, PermissionType
  <1>4. permissionInfo' = [info |-> [anyoneTrade |-> anyone, tradersHistory |-> B],
                           tradeAllowList |-> newAllowed]
    <2>1. permissionInfo.info = [anyoneTrade |-> anyone, tradersHistory |-> A]
      BY DEF TradersInv, PermissionType
    <2> QED BY <2>1 DEF setTraderStatus
  <1>5. /\ B \in Seq(Traders) /\ ~hasDuplicate(B)
        /\ \A x : contains(B, x) <=> IF x = t THEN status ELSE contains(A, x)
    BY <1>1, <1>2, HistoryUpdated
  <1>6. newAllowed \in SUBSET Traders
    BY <1>1
  <1>7. \A x : contains(B, x) <=> x \in newAllowed
    BY <1>2, <1>5
  <1> HIDE DEF A, B, allowed, newAllowed, anyone
  <1>8. PermissionType'
    BY <1>1, <1>3, <1>4, <1>5, <1>6 DEF PermissionType
  <1>9. HistoryOK'
    BY <1>4, <1>5, <1>7 DEF HistoryOK
  <1> QED BY <1>3, <1>8, <1>9 DEF TradersInv, NobodyWithoutModule

\* removeModule clears the mapping because the history reaches all of it.
LEMMA RemoveIndexKeeps ==
    ASSUME TradersInv, removeIndex
    PROVE  TradersInv'
  <1> DEFINE A == permissionInfo.info.tradersHistory
             allowed == permissionInfo.tradeAllowList
  <1>1. \A x : contains(A, x) <=> x \in allowed
    BY DEF TradersInv, HistoryOK
  <1>2. allowed \ Entries(A) = {}
    BY <1>1 DEF contains, Entries
  <1>3. permissionInfo' = NoPermission /\ isIndexModule' = FALSE
    BY <1>2 DEF removeIndex, NoPermission
  <1> QED BY <1>3, EmptyHistory
          DEF TradersInv, PermissionType, HistoryOK, NobodyWithoutModule, NoPermission,
              NoPermissionInfo

\* setAnyoneTrade writes its flag and nothing else.
LEMMA SetAnyoneTradeKeeps ==
    ASSUME TradersInv, NEW status \in BOOLEAN, setAnyoneTrade(status)
    PROVE  TradersInv'
  <1>1. isIndexModule = TRUE /\ isIndexModule' = TRUE
    BY DEF setAnyoneTrade, TradersInv, PermissionType
  <1>2. permissionInfo' =
          [info |-> [anyoneTrade |-> status,
                     tradersHistory |-> permissionInfo.info.tradersHistory],
           tradeAllowList |-> permissionInfo.tradeAllowList]
    BY DEF setAnyoneTrade, TradersInv, PermissionType
  <1> QED BY <1>1, <1>2 DEF TradersInv, PermissionType, HistoryOK, NobodyWithoutModule

\* No other call writes the permissions, and only initialize brings the
\* module back.
LEMMA TradersInvNext == TradersInv /\ [Next]_vars => TradersInv'
  <1> SUFFICES ASSUME TradersInv, [Next]_vars PROVE TradersInv'
    OBVIOUS
  <1>1. ASSUME UNCHANGED <<permissionInfo, isIndexModule>> PROVE TradersInv'
    BY <1>1 DEF TradersInv, PermissionType, HistoryOK, NobodyWithoutModule
  <1>2. CASE Issuance \/ Donation \/ Time \/ Fee
    BY <1>1, <1>2 DEF Issuance, Donation, Time, Fee, indexVars
  <1>3. ASSUME NEW c \in Components, Trade(c) \/ TradeRemaining(c) PROVE TradersInv'
    <2>1. UNCHANGED <<permissionInfo, isIndexModule>>
      BY <1>3 DEF Trade, TradeRemaining, trade, tradeRemainingWETH, executeTrade
    <2> QED BY <1>1, <2>1
  <1>4. CASE Raise
    BY <1>1, <1>4 DEF Raise, raiseAssetTargets
  <1>5. CASE Rebalance
    <2>1. UNCHANGED <<permissionInfo, isIndexModule>>
      BY <1>5 DEF Rebalance, startRebalance
    <2> QED BY <1>1, <2>1
  <1>6. CASE Settings
    <2>1. CASE \/ \E c \in Components \ {weth} :
                    \/ \E x \in TradeSizes : setTradeMaximums(c, x)
                    \/ \E x \in CoolOffPeriods : setCoolOffPeriods(c, x)
               \/ \E x \in RaisePercentages : setRaiseTargetPercentage(x)
      BY <1>1, <2>1 DEF setTradeMaximums, setCoolOffPeriods, setRaiseTargetPercentage
    <2>2. CASE \E t \in Traders, status \in BOOLEAN : setTraderStatus(t, status)
      BY <2>2, SetTraderStatusKeeps
    <2>3. CASE \E status \in BOOLEAN : setAnyoneTrade(status)
      BY <2>3, SetAnyoneTradeKeeps
    <2>4. CASE removeIndex
      BY <2>4, RemoveIndexKeeps
    <2> QED BY <1>6, <2>1, <2>2, <2>3, <2>4 DEF Settings
  <1>7. CASE Initialization
    BY <1>7 DEF Initialization, initializeIndex, TradersInv, PermissionType, HistoryOK,
                NobodyWithoutModule
  <1>8. CASE UNCHANGED vars
    BY <1>1, <1>8 DEF vars, indexVars
  <1> QED BY <1>2, <1>3, <1>4, <1>5, <1>6, <1>7, <1>8 DEF Next

\* The set of the entries is the mapping, and without the module it is empty.
LEMMA TradersInvImplies == TradersInv => TradersListed
  <1> SUFFICES ASSUME TradersInv PROVE TradersListed
    OBVIOUS
  <1>1. Entries(permissionInfo.info.tradersHistory) = permissionInfo.tradeAllowList
    BY DEF TradersInv, HistoryOK, contains, Entries
  <1>2. ~isIndexModule => \A t \in Traders : ~isAllowedTrader(t)
    BY DEF TradersInv, NobodyWithoutModule, NoPermission, NoPermissionInfo, isAllowedTrader
  <1> QED BY <1>1, <1>2 DEF TradersInv, HistoryOK, TradersListed

\* For every set of traders, tradersHistory of GeneralIndexModule lists exactly
\* whom tradeAllowList permits, once each, and removeModule leaves nobody
\* permitted on a SetToken that comes back to the module.
THEOREM IndexTradersListed == Spec => []TradersListed
  <1>1. TradersInv => TradersListed
    BY TradersInvImplies
  <1> QED BY <1>1, TradersInvInit, TradersInvNext, PTL DEF Spec

-----------------------------------------------------------------------------
(***************************************************************************)
(* The vault under a rebalance.                                            *)
(***************************************************************************)
IndexTypeOK ==
    /\ now \in Nat
    /\ executionInfo \in [Components -> [targetUnit : Nat, maxSize : Nat,
                                         coolOffPeriod : Nat, lastTradeTimestamp : Nat]]
    /\ rebalanceInfo \in [positionMultiplier : Nat, raiseTargetPercentage : Nat,
                          rebalanceComponents : Seq(Components)]

IndexFundInv ==
    /\ VaultKept
    /\ IndexTypeOK
    /\ positions.positionMultiplier <= PRECISE_UNIT

LEMMA IndexFundInvInit == Init => IndexFundInv
  <1> SUFFICES ASSUME Init PROVE IndexFundInv
    OBVIOUS
  <1>1. VaultKept /\ positions.positionMultiplier = PRECISE_UNIT
    BY VaultInitOK DEF Init
  <1>2. \A c \in Components : currentUnit(c) \in Nat
    BY <1>1, SurplusTerms DEF currentUnit
  <1>3. positions.positionMultiplier \in Nat
    BY <1>1, PreciseUnitAssumption
  <1>4. PICK size \in TradeSizes :
          executionInfo = [c \in Components |->
            [[targetUnit |-> 0, maxSize |-> 0, coolOffPeriod |-> 0, lastTradeTimestamp |-> 0]
               EXCEPT !.maxSize = IF c = weth THEN 0 ELSE size,
                      !.targetUnit = currentUnit(c)]]
    BY DEF Init, IndexInit, NoExecutionInfo
  <1>5. size \in Nat
    BY IndexAssumption
  <1>6. \A c \in Components : executionInfo[c] \in
          [targetUnit : Nat, maxSize : Nat, coolOffPeriod : Nat, lastTradeTimestamp : Nat]
    BY <1>2, <1>4, <1>5
  <1>7. executionInfo \in [Components -> [targetUnit : Nat, maxSize : Nat,
                                          coolOffPeriod : Nat, lastTradeTimestamp : Nat]]
    BY <1>4, <1>6
  <1>8. rebalanceInfo = [positionMultiplier |-> positions.positionMultiplier,
                         raiseTargetPercentage |-> 0, rebalanceComponents |-> <<>>]
    BY DEF Init, IndexInit, NoRebalanceInfo
  <1>9. now \in Nat
    BY DEF Init
  <1> QED BY <1>1, <1>3, <1>7, <1>8, <1>9, PreciseUnitAssumption DEF IndexFundInv, IndexTypeOK

-----------------------------------------------------------------------------
(***************************************************************************)
(* Targets, notionals and units: what the roundings amount to once a whole *)
(* SetToken is in circulation.                                             *)
(***************************************************************************)
LEMMA LessCancel ==
    ASSUME NEW a \in Int, NEW b \in Int, NEW k \in Nat, a * k < b * k
    PROVE  a < b
  <1> SUFFICES ASSUME b <= a PROVE FALSE
    OBVIOUS
  <1>1. b * k <= a * k
    BY MulMonotonic
  <1> QED BY <1>1

\* The floor and the ceiling of supply times unit in whole tokens.
LEMMA NotionalBounds ==
    ASSUME NEW S \in Nat, NEW u \in Nat
    PROVE  /\ preciseMul(S, u) \in Nat /\ preciseMulCeil(S, u) \in Nat
           /\ preciseMul(S, u) * PRECISE_UNIT <= S * u
           /\ S * u < preciseMul(S, u) * PRECISE_UNIT + PRECISE_UNIT
           /\ S * u <= preciseMulCeil(S, u) * PRECISE_UNIT
           /\ preciseMulCeil(S, u) * PRECISE_UNIT < S * u + PRECISE_UNIT
  <1> DEFINE x == S * u
             y == (x - 1) \div PRECISE_UNIT
  <1>1. x \in Nat
    OBVIOUS
  <1>2. preciseMul(S, u) = x \div PRECISE_UNIT
    BY DEF preciseMul
  <1>3. preciseMul(S, u) \in Nat /\ preciseMulCeil(S, u) \in Nat
        /\ preciseMulCeil(S, u) * PRECISE_UNIT >= x
    BY PreciseMulFloor, PreciseMulCeilCovers
  <1>4. S = 0 \/ u = 0 => x = 0 /\ preciseMulCeil(S, u) = 0
    BY DEF preciseMulCeil
  <1>5. S # 0 /\ u # 0 => preciseMulCeil(S, u) = y + 1
    BY DEF preciseMulCeil
  <1> HIDE DEF x
  <1>6. /\ (x \div PRECISE_UNIT) * PRECISE_UNIT <= x
        /\ x < (x \div PRECISE_UNIT) * PRECISE_UNIT + PRECISE_UNIT
        /\ y \in Int /\ y * PRECISE_UNIT <= x - 1
    BY <1>1, DivFloor, PreciseUnitAssumption
  <1> HIDE DEF y
  <1>7. (y + 1) * PRECISE_UNIT = y * PRECISE_UNIT + PRECISE_UNIT /\ y * PRECISE_UNIT \in Int
    BY <1>6, PreciseUnitAssumption
  <1>8. preciseMulCeil(S, u) * PRECISE_UNIT < x + PRECISE_UNIT
    <2>1. CASE S = 0 \/ u = 0
      BY <1>1, <1>4, <2>1, PreciseUnitAssumption
    <2>2. CASE S # 0 /\ u # 0
      BY <1>1, <1>5, <1>6, <1>7, <2>2, PreciseUnitAssumption
    <2> QED BY <2>1, <2>2
  <1> QED BY <1>2, <1>3, <1>6, <1>8 DEF x

LEMMA UnitBounds ==
    ASSUME NEW S \in Nat \ {0}, NEW n \in Nat
    PROVE  /\ getDefaultPositionUnit(S, n) \in Nat
           /\ getDefaultPositionUnit(S, n) * S <= n * PRECISE_UNIT
           /\ n * PRECISE_UNIT < getDefaultPositionUnit(S, n) * S + S
  <1> DEFINE x == n * PRECISE_UNIT
  <1>1. x \in Nat
    BY PreciseUnitAssumption
  <1> HIDE DEF x
  <1>2. x < (x \div S) * S + S
    BY <1>1, DivFloor
  <1> QED BY <1>2, PositionUnitFloor DEF getDefaultPositionUnit, preciseDiv, x

\* A larger notional has no smaller unit.
LEMMA UnitMonotonic ==
    ASSUME NEW S \in Nat \ {0}, NEW n \in Nat, NEW k \in Nat, n <= k
    PROVE  getDefaultPositionUnit(S, n) <= getDefaultPositionUnit(S, k)
  <1> DEFINE u == getDefaultPositionUnit(S, n)
             w == getDefaultPositionUnit(S, k)
  <1>1. /\ u \in Nat /\ u * S <= n * PRECISE_UNIT
        /\ w \in Nat /\ k * PRECISE_UNIT < w * S + S
    BY UnitBounds
  <1> HIDE DEF u, w
  <1>2. n * PRECISE_UNIT <= k * PRECISE_UNIT
    BY MulMonotonic, PreciseUnitAssumption
  <1>3. (w + 1) * S = w * S + S
    BY <1>1
  <1>4. /\ u * S \in Int /\ (w + 1) * S \in Int
        /\ n * PRECISE_UNIT \in Int /\ k * PRECISE_UNIT \in Int
    BY <1>1, PreciseUnitAssumption
  <1>5. u * S < (w + 1) * S
    BY <1>1, <1>2, <1>3, <1>4
  <1>6. u < w + 1
    BY <1>1, <1>5, LessCancel
  <1> QED BY <1>1, <1>6 DEF u, w

\* The target notional has the target as its unit.
LEMMA UnitOfTarget ==
    ASSUME NEW S \in Nat, S >= PRECISE_UNIT, NEW t \in Nat
    PROVE  getDefaultPositionUnit(S, preciseMulCeil(S, t)) = t
  <1> DEFINE x == preciseMulCeil(S, t) * PRECISE_UNIT
  <1>1. /\ preciseMulCeil(S, t) \in Nat
        /\ S * t <= x /\ x < S * t + PRECISE_UNIT
    BY NotionalBounds
  <1>2. x \in Int /\ S * t = t * S /\ t * S \in Int /\ S \in Nat \ {0}
    BY <1>1, PreciseUnitAssumption
  <1> HIDE DEF x
  <1>3. t * S <= x /\ x < t * S + S
    BY <1>1, <1>2, PreciseUnitAssumption
  <1>4. x \div S = t
    BY <1>2, <1>3, DivUnique
  <1> QED BY <1>4 DEF getDefaultPositionUnit, preciseDiv, x

\* The current notional has no larger unit than the current one, and any more
\* has no smaller one.
LEMMA UnitOfCurrent ==
    ASSUME NEW S \in Nat, S >= PRECISE_UNIT, NEW u \in Nat, NEW n \in Nat
    PROVE  /\ n <= preciseMul(S, u) => getDefaultPositionUnit(S, n) <= u
           /\ n > preciseMul(S, u) => u <= getDefaultPositionUnit(S, n)
  <1> DEFINE f == preciseMul(S, u)
             w == getDefaultPositionUnit(S, n)
  <1>1. S \in Nat \ {0}
    BY PreciseUnitAssumption
  <1>2. /\ f \in Nat /\ f * PRECISE_UNIT <= S * u
        /\ S * u < f * PRECISE_UNIT + PRECISE_UNIT
    BY NotionalBounds
  <1>3. w \in Nat /\ w * S <= n * PRECISE_UNIT /\ n * PRECISE_UNIT < w * S + S
    BY <1>1, UnitBounds
  <1> HIDE DEF f, w
  <1>4. /\ f * PRECISE_UNIT \in Int /\ n * PRECISE_UNIT \in Int /\ w * S \in Int
        /\ S * u = u * S /\ u * S \in Int
    BY <1>2, <1>3, PreciseUnitAssumption
  <1>5. ASSUME n <= f PROVE w <= u
    <2>1. n * PRECISE_UNIT <= f * PRECISE_UNIT
      BY <1>2, <1>5, MulMonotonic, PreciseUnitAssumption
    <2>2. w * S <= u * S
      BY <1>2, <1>3, <1>4, <2>1
    <2> QED BY <1>1, <1>3, <2>2, MulCancel
  <1>6. ASSUME f + 1 <= n PROVE u <= w
    <2>1. (f + 1) * PRECISE_UNIT <= n * PRECISE_UNIT
      BY <1>2, <1>6, MulMonotonic, PreciseUnitAssumption
    <2>2. (f + 1) * PRECISE_UNIT = f * PRECISE_UNIT + PRECISE_UNIT
      BY <1>2, PreciseUnitAssumption
    <2>3. (w + 1) * S = w * S + S /\ (w + 1) * S \in Int
      BY <1>3
    <2>4. u * S < (w + 1) * S
      BY <1>2, <1>3, <1>4, <2>1, <2>2, <2>3, PreciseUnitAssumption
    <2>5. u < w + 1
      BY <1>3, <2>4, LessCancel
    <2> QED BY <1>3, <2>5
  <1> QED BY <1>2, <1>5, <1>6 DEF f, w

\* The notionals are ordered as the units are.
LEMMA NotionalsOrdered ==
    ASSUME NEW S \in Nat, NEW t \in Nat, NEW u \in Nat
    PROVE  /\ u <= t => preciseMul(S, u) <= preciseMulCeil(S, t)
           /\ t < u /\ S >= PRECISE_UNIT => preciseMulCeil(S, t) <= preciseMul(S, u)
  <1> DEFINE x == preciseMulCeil(S, t)
             y == preciseMul(S, u)
  <1>1. /\ x \in Nat /\ S * t <= x * PRECISE_UNIT /\ x * PRECISE_UNIT < S * t + PRECISE_UNIT
        /\ y \in Nat /\ y * PRECISE_UNIT <= S * u /\ S * u < y * PRECISE_UNIT + PRECISE_UNIT
    BY NotionalBounds
  <1> HIDE DEF x, y
  <1>2. /\ x * PRECISE_UNIT \in Int /\ y * PRECISE_UNIT \in Int
        /\ S * t = t * S /\ S * u = u * S /\ t * S \in Int /\ u * S \in Int
    BY <1>1, PreciseUnitAssumption
  <1>3. ASSUME u <= t PROVE y <= x
    <2>1. u * S <= t * S
      BY <1>3, MulMonotonic
    <2>2. y * PRECISE_UNIT <= x * PRECISE_UNIT
      BY <1>1, <1>2, <2>1
    <2> QED BY <1>1, <2>2, MulCancel, PreciseUnitAssumption
  <1>4. ASSUME t + 1 <= u, S >= PRECISE_UNIT PROVE x <= y
    <2>1. (t + 1) * S <= u * S
      BY <1>4, MulMonotonic
    <2>2. (t + 1) * S = t * S + S
      OBVIOUS
    <2>3. (y + 1) * PRECISE_UNIT = y * PRECISE_UNIT + PRECISE_UNIT
      BY <1>1, PreciseUnitAssumption
    <2>4. x * PRECISE_UNIT < (y + 1) * PRECISE_UNIT
      BY <1>1, <1>2, <1>4, <2>1, <2>2, <2>3, PreciseUnitAssumption
    <2>5. x < y + 1
      BY <1>1, <2>4, LessCancel, PreciseUnitAssumption
    <2> QED BY <1>1, <2>5
  <1> QED BY <1>3, <1>4 DEF x, y

\* Grossed up for the fee, a wanted quantity is what is left of it: exactly,
\* and of less no more.
LEMMA NetOfGrossed ==
    ASSUME NEW D \in Nat, NEW paid \in Nat,
           paid <= preciseDiv(D, PRECISE_UNIT - IndexProtocolFee)
    PROVE  /\ netReceived(paid) \in Nat
           /\ paid > 0 => netReceived(paid) > 0
           /\ netReceived(paid) <= D
           /\ paid = preciseDiv(D, PRECISE_UNIT - IndexProtocolFee) => netReceived(paid) = D
  <1> DEFINE f == IndexProtocolFee
             k == PRECISE_UNIT - f
             g == preciseMul(paid, f)
             P == preciseDiv(D, k)
             n == netReceived(paid)
  <1>1. f \in Nat /\ k \in Nat \ {0} /\ k <= PRECISE_UNIT
    BY IndexAssumption, PreciseUnitAssumption
  <1>2. /\ g \in Nat /\ g * PRECISE_UNIT <= paid * f
        /\ paid * f < g * PRECISE_UNIT + PRECISE_UNIT
    BY <1>1, NotionalBounds
  <1>3. n = paid - g
    BY DEF netReceived, getModuleFee
  <1>4. paid * k = paid * PRECISE_UNIT - paid * f
    BY <1>1, PreciseUnitAssumption
  <1>5. P \in Int /\ P * k <= D * PRECISE_UNIT /\ D * PRECISE_UNIT < P * k + k
    <2> DEFINE x == D * PRECISE_UNIT
    <2>1. x \in Int
      BY PreciseUnitAssumption
    <2>2. P = x \div k
      BY DEF preciseDiv
    <2> HIDE DEF x, P, k
    <2>3. P \in Int /\ P * k <= x /\ x < P * k + k
      BY <1>1, <2>1, <2>2, DivFloor
    <2> QED BY <2>3 DEF x
  <1>6. n * PRECISE_UNIT = paid * PRECISE_UNIT - g * PRECISE_UNIT
    BY <1>2, <1>3, PreciseUnitAssumption
  <1>7. paid <= P
    OBVIOUS
  <1>8. n \in Int
    BY <1>2, <1>3
  <1>9. /\ paid * f \in Int /\ paid * PRECISE_UNIT \in Int /\ g * PRECISE_UNIT \in Int
        /\ paid * k \in Int /\ D * PRECISE_UNIT \in Int /\ P * k \in Int
        /\ n * PRECISE_UNIT \in Int
    BY <1>1, <1>2, <1>5, <1>8, PreciseUnitAssumption
  <1> HIDE DEF f, k, g, P, n
  <1>10. paid * k <= n * PRECISE_UNIT /\ n * PRECISE_UNIT < paid * k + PRECISE_UNIT
    <2> DEFINE pk == paid * k
               pu == paid * PRECISE_UNIT
               pf == paid * f
               gu == g * PRECISE_UNIT
               nu == n * PRECISE_UNIT
    <2>1. /\ pk \in Int /\ pu \in Int /\ pf \in Int /\ gu \in Int /\ nu \in Int
          /\ gu <= pf /\ pf < gu + PRECISE_UNIT
          /\ pk = pu - pf /\ nu = pu - gu
      BY <1>2, <1>4, <1>6, <1>9
    <2> HIDE DEF pk, pu, pf, gu, nu
    <2>2. pk <= nu /\ nu < pk + PRECISE_UNIT
      BY <2>1, PreciseUnitAssumption
    <2> QED BY <2>2 DEF pk, nu
  <1>11. paid * k <= P * k
    BY <1>1, <1>5, <1>7, MulMonotonic
  <1>12. n <= D
    <2>1. n * PRECISE_UNIT < D * PRECISE_UNIT + PRECISE_UNIT
      BY <1>5, <1>9, <1>10, <1>11, PreciseUnitAssumption
    <2>2. (D + 1) * PRECISE_UNIT = D * PRECISE_UNIT + PRECISE_UNIT
      BY PreciseUnitAssumption
    <2>3. n < D + 1
      BY <1>8, <2>1, <2>2, LessCancel, PreciseUnitAssumption
    <2> QED BY <1>8, <2>3
  <1>13. ASSUME paid = P PROVE D <= n
    <2>1. D * PRECISE_UNIT < n * PRECISE_UNIT + PRECISE_UNIT
      BY <1>1, <1>5, <1>9, <1>10, <1>13, PreciseUnitAssumption
    <2>2. (n + 1) * PRECISE_UNIT = n * PRECISE_UNIT + PRECISE_UNIT
      BY <1>8, PreciseUnitAssumption
    <2>3. D < n + 1
      BY <1>8, <2>1, <2>2, LessCancel, PreciseUnitAssumption
    <2> QED BY <1>8, <2>3
  <1>14. paid * k >= 0 /\ (paid > 0 => paid * k > 0)
    BY <1>1
  <1>15. n >= 0 /\ (paid > 0 => n > 0)
    <2>1. ASSUME n <= -1 PROVE FALSE
      <3>1. n * PRECISE_UNIT <= (-1) * PRECISE_UNIT
        BY <1>8, <2>1, MulMonotonic, PreciseUnitAssumption
      <3> QED BY <1>9, <1>10, <1>14, <3>1, PreciseUnitAssumption
    <2>2. ASSUME n = 0, paid > 0 PROVE FALSE
      <3>1. n * PRECISE_UNIT = 0
        BY <2>2, PreciseUnitAssumption
      <3> QED BY <1>9, <1>10, <1>14, <2>2, <3>1
    <2> QED BY <1>8, <2>1, <2>2
  <1> QED BY <1>8, <1>12, <1>13, <1>15 DEF n, P, k, f

\* Of something received, something is left.
LEMMA NetReceivedPositive ==
    ASSUME NEW paid \in Nat
    PROVE  netReceived(paid) \in Nat /\ (paid > 0 => netReceived(paid) > 0)
  <1> DEFINE k == PRECISE_UNIT - IndexProtocolFee
             x == paid * PRECISE_UNIT
             w == x \div k
  <1>1. k \in Nat \ {0} /\ k <= PRECISE_UNIT /\ x \in Int
    BY IndexAssumption, PreciseUnitAssumption
  <1>2. k * paid <= PRECISE_UNIT * paid
    BY <1>1, MulMonotonic, PreciseUnitAssumption
  <1>3. k * paid = paid * k /\ PRECISE_UNIT * paid = x /\ paid * k \in Int
    BY <1>1, PreciseUnitAssumption
  <1>4. preciseDiv(paid, k) = w
    BY DEF preciseDiv
  <1> HIDE DEF k, x
  <1>5. w \in Int /\ x < w * k + k
    BY <1>1, DivFloor
  <1> HIDE DEF w
  <1>6. (w + 1) * k = w * k + k /\ w * k \in Int
    BY <1>1, <1>5
  <1>7. paid * k < (w + 1) * k
    BY <1>1, <1>2, <1>3, <1>5, <1>6
  <1>8. paid < w + 1
    BY <1>1, <1>5, <1>7, LessCancel
  <1>9. paid <= preciseDiv(paid, PRECISE_UNIT - IndexProtocolFee)
    BY <1>4, <1>5, <1>8 DEF k
  <1> QED BY <1>9, NetOfGrossed

-----------------------------------------------------------------------------
(***************************************************************************)
(* One swap.                                                               *)
(***************************************************************************)
\* What the swap makes of the unit of a token it moved.
FollowsBalance(d) ==
    LET notional == currentNotional(d) + balances'[d] - balances[d]
        unit == getDefaultPositionUnit(totalSupply, notional)
    IN  /\ balances'[d] = 0 => currentUnit(d)' = 0
        /\ balances'[d] > 0 => /\ notional \in Nat
                               /\ currentUnit(d)' <= unit
                               /\ unit <= currentUnit(d)' + 1
                               /\ unit > 0 => currentUnit(d)' > 0

LEMMA SwapStep ==
    ASSUME IndexFundInv,
           NEW info, info.sendToken \in Components, info.receiveToken \in Components,
           info.sendToken # info.receiveToken, info.sendQuantity \in Int,
           NEW o \in Swaps(info), NEW c, executeTrade(info, o, c)
    PROVE  /\ o.sent \in 1..info.sendQuantity /\ o.paid \in Nat \ {0}
           /\ netReceived(o.paid) \in Nat \ {0}
           /\ balances'[info.sendToken] = balances[info.sendToken] - o.sent
           /\ balances'[info.receiveToken] = balances[info.receiveToken] + netReceived(o.paid)
           /\ VaultKept' /\ totalSupply' = totalSupply
           /\ positions'.positionMultiplier = positions.positionMultiplier
           /\ \A d \in Components : balances'[d] = 0 \/ Surplus(d)' >= Surplus(d)
           /\ FollowsBalance(info.sendToken) /\ FollowsBalance(info.receiveToken)
           /\ \A d \in Components \ {info.sendToken, info.receiveToken} :
                currentUnit(d)' = currentUnit(d)
  <1> DEFINE s == info.sendToken
             t == info.receiveToken
             net == netReceived(o.paid)
  <1>1. /\ StorageOK(positions) /\ balances \in [Components -> Nat] /\ totalSupply \in Nat
        /\ positions.positionMultiplier <= PRECISE_UNIT /\ VaultKept
    BY DEF IndexFundInv, VaultKept, PositionsInv
  <1>2. o.sent \in 1..info.sendQuantity /\ o.sent \in Nat /\ o.paid \in Nat \ {0}
    BY VaultAssumption DEF Swaps
  <1>3. net \in Nat \ {0}
    BY <1>2, NetReceivedPositive
  <1>4. /\ o.sent <= balances[s]
        /\ balances' = [balances EXCEPT ![s] = @ - o.sent, ![t] = @ + net]
        /\ positions' \in positionsAfter(info)
        /\ totalSupply' = totalSupply
    BY DEF executeTrade
  <1> HIDE DEF net
  <1>5. /\ balances'[s] = balances[s] - o.sent /\ balances'[t] = balances[t] + net
        /\ \A d \in Components \ {s, t} : balances'[d] = balances[d]
        /\ balances' \in [Components -> Nat]
    BY <1>1, <1>2, <1>3, <1>4
  <1>6. PICK q : /\ q \in calculateAndEditDefaultPosition(positions, s, totalSupply,
                                                          balances[s], balances'[s])
                 /\ positions' \in calculateAndEditDefaultPosition(q, t, totalSupply,
                                                          balances[t], balances'[t])
    BY <1>4 DEF positionsAfter, Then
  <1>7. /\ VaultKept'
        /\ positions'.positionMultiplier = positions.positionMultiplier
        /\ \A d \in Components : d \notin {s, t} \/ balances'[d] > 0 =>
             Surplus(d)' >= Surplus(d)
    BY <1>1, <1>4, <1>5, <1>6, SwapKeeps
  <1>8. \A d \in Components : balances'[d] = 0 \/ Surplus(d)' >= Surplus(d)
    BY <1>5, <1>7
  <1>9. /\ StorageOK(q) /\ q.positionMultiplier = positions.positionMultiplier
        /\ \A d \in Components \ {s} : q.virtualUnit[d] = positions.virtualUnit[d]
        /\ balances'[s] = 0 => getDefaultPositionRealUnit(q, s) = 0
    BY <1>1, <1>5, <1>6, CalculateAndEditOK
  <1>10. /\ \A d \in Components \ {t} : positions'.virtualUnit[d] = q.virtualUnit[d]
         /\ balances'[t] = 0 => getDefaultPositionRealUnit(positions', t) = 0
    BY <1>1, <1>5, <1>6, <1>9, CalculateAndEditOK
  <1>11. /\ getDefaultPositionRealUnit(positions', s) = getDefaultPositionRealUnit(q, s)
         /\ getDefaultPositionRealUnit(q, t) = getDefaultPositionRealUnit(positions, t)
         /\ \A d \in Components \ {s, t} : getDefaultPositionRealUnit(positions', d)
                                             = getDefaultPositionRealUnit(positions, d)
    BY <1>7, <1>9, <1>10 DEF getDefaultPositionRealUnit, convertVirtualToRealUnit
  <1>12. currentUnit(s)' = getDefaultPositionRealUnit(positions', s)
         /\ currentUnit(t)' = getDefaultPositionRealUnit(positions', t)
         /\ \A d \in Components \ {s, t} : currentUnit(d)' = currentUnit(d)
    BY <1>11 DEF currentUnit
  <1>13. /\ getDefaultTrackedBalance(positions, totalSupply, s) = currentNotional(s)
         /\ getDefaultTrackedBalance(q, totalSupply, t) = currentNotional(t)
    BY <1>11 DEF getDefaultTrackedBalance, currentNotional, getDefaultTotalNotional, currentUnit
  <1>14. FollowsBalance(s)
    <2> DEFINE notional == currentNotional(s) + balances'[s] - balances[s]
               unit == getDefaultPositionUnit(totalSupply, notional)
    <2>1. ASSUME balances'[s] > 0
          PROVE  /\ notional \in Nat /\ currentUnit(s)' <= unit
                 /\ unit <= currentUnit(s)' + 1 /\ (unit > 0 => currentUnit(s)' > 0)
      BY <1>1, <1>5, <1>6, <1>11, <1>12, <1>13, <2>1, CalculatedUnit
    <2> QED BY <1>9, <1>11, <1>12, <2>1 DEF FollowsBalance
  <1>15. FollowsBalance(t)
    <2> DEFINE notional == currentNotional(t) + balances'[t] - balances[t]
               unit == getDefaultPositionUnit(totalSupply, notional)
    <2>1. ASSUME balances'[t] > 0
          PROVE  /\ notional \in Nat /\ currentUnit(t)' <= unit
                 /\ unit <= currentUnit(t)' + 1 /\ (unit > 0 => currentUnit(t)' > 0)
      BY <1>1, <1>5, <1>6, <1>9, <1>12, <1>13, <2>1, CalculatedUnit
    <2> QED BY <1>10, <1>12, <2>1 DEF FollowsBalance
  <1> QED BY <1>2, <1>3, <1>4, <1>5, <1>7, <1>8, <1>12, <1>14, <1>15 DEF net

-----------------------------------------------------------------------------
(***************************************************************************)
(* The steps.                                                              *)
(***************************************************************************)
\* The targets and notionals of a rebalance are natural numbers.
LEMMA TargetTypes ==
    ASSUME IndexFundInv, rebalanceInfo.positionMultiplier > 0, NEW c \in Components
    PROVE  /\ getNormalizedTargetUnit(c) \in Nat /\ targetNotional(c) \in Nat
           /\ currentUnit(c) \in Nat /\ currentNotional(c) \in Nat
           /\ totalSupply \in Nat /\ balances[c] \in Nat
           /\ executionInfo[c].maxSize \in Nat
  <1> DEFINE n == executionInfo[c].targetUnit * positions.positionMultiplier
             m == rebalanceInfo.positionMultiplier
  <1>1. /\ currentUnit(c) \in Nat /\ totalSupply \in Nat /\ balances[c] \in Nat
    BY SurplusTerms DEF IndexFundInv, currentUnit
  <1>2. /\ executionInfo[c].targetUnit \in Nat /\ executionInfo[c].maxSize \in Nat
        /\ m \in Nat
    BY DEF IndexFundInv, IndexTypeOK
  <1>3. positions.positionMultiplier \in Nat
    BY MultiplierPositive DEF IndexFundInv, VaultKept
  <1>4. n \in Nat
    BY <1>2, <1>3
  <1> HIDE DEF n, m
  <1>5. n \div m \in Nat
    BY <1>2, <1>4, DivFloor DEF m
  <1>6. getNormalizedTargetUnit(c) \in Nat
    BY <1>5 DEF getNormalizedTargetUnit, n, m
  <1>7. targetNotional(c) \in Nat /\ currentNotional(c) \in Nat
    BY <1>1, <1>6, PreciseMulFloor, PreciseMulCeilCovers
       DEF targetNotional, currentNotional, getDefaultTotalNotional
  <1> QED BY <1>1, <1>2, <1>6, <1>7

\* The wanted quantity, before the maximum size cuts it short.
Wanted(c) == IF isSendTokenFixed(c)
             THEN currentNotional(c) - targetNotional(c)
             ELSE preciseDiv(targetNotional(c) - currentNotional(c),
                             PRECISE_UNIT - IndexProtocolFee)

LEMMA QuantityBounds ==
    ASSUME IndexFundInv, rebalanceInfo.positionMultiplier > 0, NEW c \in Components
    PROVE  /\ totalFixedQuantity(c) \in Int /\ totalFixedQuantity(c) <= Wanted(c)
           /\ totalFixedQuantity(c) < executionInfo[c].maxSize =>
                totalFixedQuantity(c) = Wanted(c)
  <1>1. /\ targetNotional(c) \in Nat /\ currentNotional(c) \in Nat
        /\ executionInfo[c].maxSize \in Nat
    BY TargetTypes
  <1> DEFINE k == PRECISE_UNIT - IndexProtocolFee
             x == (targetNotional(c) - currentNotional(c)) * PRECISE_UNIT
  <1>2. k \in Nat \ {0} /\ x \in Int
    BY <1>1, IndexAssumption, PreciseUnitAssumption
  <1> HIDE DEF k, x
  <1>3. x \div k \in Int
    BY <1>2, DivFloor
  <1>4. preciseDiv(targetNotional(c) - currentNotional(c), PRECISE_UNIT - IndexProtocolFee) \in Int
    BY <1>3 DEF preciseDiv, k, x
  <1>5. Wanted(c) \in Int
    BY <1>1, <1>4 DEF Wanted
  <1>6. totalFixedQuantity(c) = Least(Wanted(c), executionInfo[c].maxSize)
    BY DEF totalFixedQuantity, Wanted
  <1> QED BY <1>1, <1>5, <1>6 DEF Least

\* The range in which a trade leaves the unit of its component.
InRange(c) ==
    IF getNormalizedTargetUnit(c) < currentUnit(c)
    THEN currentUnit(c)' \in (getNormalizedTargetUnit(c) - 1)..currentUnit(c)
    ELSE currentUnit(c)' \in (currentUnit(c) - 1)..getNormalizedTargetUnit(c)

\* The unit after a trade that its maximum size does not cut short: nothing only
\* if that is the target.
AtTarget(c) ==
    /\ currentUnit(c)' \in (getNormalizedTargetUnit(c) - 1)..getNormalizedTargetUnit(c)
    /\ getNormalizedTargetUnit(c) > 0 => currentUnit(c)' > 0

\* A sale of at most what the component has above its target.
LEMMA SaleInRange ==
    ASSUME IndexFundInv, rebalanceInfo.positionMultiplier > 0, NEW c \in Components,
           totalSupply >= PRECISE_UNIT, Surplus(c) >= 0, isSendTokenFixed(c),
           currentUnit(c)' \in Nat,
           NEW sent \in Nat, sent <= currentNotional(c) - targetNotional(c), sent <= balances[c],
           balances'[c] = balances[c] - sent, FollowsBalance(c)
    PROVE  /\ InRange(c)
           /\ sent = currentNotional(c) - targetNotional(c) => AtTarget(c)
  <1> DEFINE S == totalSupply
             t == getNormalizedTargetUnit(c)
             u == currentUnit(c)
             f == currentNotional(c)
             g == targetNotional(c)
             n == f + balances'[c] - balances[c]
             w == getDefaultPositionUnit(S, n)
             z == currentUnit(c)'
  <1>1. S \in Nat /\ t \in Nat /\ u \in Nat /\ f \in Nat /\ g \in Nat /\ balances[c] \in Nat
    BY TargetTypes
  <1>2. f = preciseMul(S, u) /\ g = preciseMulCeil(S, t)
    BY DEF targetNotional, currentNotional, getDefaultTotalNotional
  <1>3. z \in Nat /\ g < f
    BY DEF isSendTokenFixed
  <1>4. /\ balances'[c] = 0 => z = 0
        /\ balances'[c] > 0 => /\ n \in Nat /\ z <= w /\ w <= z + 1
                               /\ w > 0 => z > 0
    BY DEF FollowsBalance
  <1>5. t < u
    BY <1>1, <1>2, <1>3, NotionalsOrdered
  <1>6. S \in Nat \ {0}
    BY <1>1, PreciseUnitAssumption
  <1>7. n = f - sent /\ sent <= f - g /\ balances'[c] >= 0 /\ balances'[c] \in Int
    BY <1>1
  <1>8. Surplus(c) = balances[c] * PRECISE_UNIT - u * S
    BY DEF Surplus, currentUnit
  <1>9. InRange(c) <=> z \in (t - 1)..u
    BY <1>5 DEF InRange
  <1>10. AtTarget(c) <=> z \in (t - 1)..t /\ (t > 0 => z > 0)
    BY DEF AtTarget
  <1> HIDE DEF S, t, u, f, g, z, n, w
  <1>11. CASE balances'[c] > 0
    <2>1. n \in Nat /\ z <= w /\ w <= z + 1 /\ (w > 0 => z > 0) /\ g <= n /\ n <= f
      BY <1>1, <1>4, <1>7, <1>11
    <2>2. t <= w
      <3>1. getDefaultPositionUnit(S, g) = t
        BY <1>1, <1>2, UnitOfTarget DEF S
      <3> QED BY <1>1, <1>6, <2>1, <3>1, UnitMonotonic DEF w
    <2>3. w <= u
      BY <1>1, <1>2, <2>1, UnitOfCurrent DEF w, S
    <2>4. w \in Nat
      BY <1>6, <2>1, UnitBounds DEF w
    <2>5. sent = f - g => w = t
      <3>1. ASSUME sent = f - g PROVE n = g
        BY <1>1, <1>7, <3>1
      <3> QED BY <1>1, <1>2, <3>1, UnitOfTarget DEF w, S
    <2>6. z \in (t - 1)..u
      BY <1>1, <1>3, <2>1, <2>2, <2>3, <2>4
    <2>7. sent = f - g => z \in (t - 1)..t /\ (t > 0 => z > 0)
      BY <1>1, <1>3, <2>1, <2>4, <2>5
    <2> QED BY <1>9, <1>10, <2>6, <2>7 DEF f, g
  <1>12. CASE balances'[c] = 0
    <2>1. z = 0 /\ sent = balances[c]
      BY <1>1, <1>4, <1>12
    \* Fully held, all of it is at least its notional: none of that remains.
    <2>2. f <= balances[c]
      <3>1. f * PRECISE_UNIT <= S * u
        BY <1>1, <1>2, NotionalBounds
      <3>2. S * u = u * S /\ u * S \in Int /\ balances[c] * PRECISE_UNIT \in Int
            /\ f * PRECISE_UNIT \in Int
        BY <1>1, PreciseUnitAssumption
      <3>3. f * PRECISE_UNIT <= balances[c] * PRECISE_UNIT
        BY <1>8, <3>1, <3>2
      <3> QED BY <1>1, <3>3, MulCancel, PreciseUnitAssumption
    <2>3. g = 0
      BY <1>1, <1>7, <2>1, <2>2
    <2>4. t = 0
      <3>1. getDefaultPositionUnit(S, g) = t
        BY <1>1, <1>2, UnitOfTarget DEF S
      <3>2. 0 * PRECISE_UNIT = 0 /\ 0 \div S = 0
        BY <1>6, PreciseUnitAssumption
      <3>3. getDefaultPositionUnit(S, 0) = 0
        BY <3>2 DEF getDefaultPositionUnit, preciseDiv
      <3> QED BY <2>3, <3>1, <3>3
    <2> QED BY <1>1, <1>9, <1>10, <2>1, <2>4
  <1> QED BY <1>7, <1>11, <1>12

\* A purchase of at most what the component has below its target.
LEMMA PurchaseInRange ==
    ASSUME IndexFundInv, rebalanceInfo.positionMultiplier > 0, NEW c \in Components,
           totalSupply >= PRECISE_UNIT, ~isSendTokenFixed(c), currentUnit(c)' \in Nat,
           NEW paid \in Nat \ {0}, paid <= Wanted(c),
           balances'[c] = balances[c] + netReceived(paid), FollowsBalance(c)
    PROVE  /\ InRange(c)
           /\ paid = Wanted(c) => AtTarget(c)
  <1> DEFINE S == totalSupply
             t == getNormalizedTargetUnit(c)
             u == currentUnit(c)
             f == currentNotional(c)
             g == targetNotional(c)
             net == netReceived(paid)
             n == f + balances'[c] - balances[c]
             w == getDefaultPositionUnit(S, n)
             z == currentUnit(c)'
  <1>1. S \in Nat /\ t \in Nat /\ u \in Nat /\ f \in Nat /\ g \in Nat /\ balances[c] \in Nat
    BY TargetTypes
  <1>2. f = preciseMul(S, u) /\ g = preciseMulCeil(S, t)
    BY DEF targetNotional, currentNotional, getDefaultTotalNotional
  <1>3. z \in Nat /\ f <= g
    BY <1>1 DEF isSendTokenFixed
  <1>4. Wanted(c) = preciseDiv(g - f, PRECISE_UNIT - IndexProtocolFee)
    BY DEF Wanted
  <1>5. /\ net \in Nat \ {0} /\ net <= g - f
        /\ paid = Wanted(c) => net = g - f
    BY <1>1, <1>3, <1>4, NetOfGrossed
  <1>6. S \in Nat \ {0}
    BY <1>1, PreciseUnitAssumption
  <1> HIDE DEF net
  <1>7. n = f + net /\ balances'[c] > 0
    BY <1>1, <1>5 DEF net
  <1>8. z <= w /\ w <= z + 1 /\ (w > 0 => z > 0)
    BY <1>7 DEF FollowsBalance
  <1>9. t >= u
    <2>1. ~(t < u /\ S >= PRECISE_UNIT)
      BY <1>1, <1>2, <1>3, <1>5, NotionalsOrdered
    <2> QED BY <1>1, <2>1
  <1>10. InRange(c) <=> z \in (u - 1)..t
    BY <1>1, <1>9 DEF InRange
  <1>11. AtTarget(c) <=> z \in (t - 1)..t /\ (t > 0 => z > 0)
    BY DEF AtTarget
  <1> HIDE DEF S, t, u, f, g, n, w, z
  <1>12. n \in Nat /\ f < n /\ n <= g
    BY <1>1, <1>5, <1>7
  <1>13. getDefaultPositionUnit(S, g) = t
    BY <1>1, <1>2, UnitOfTarget DEF S
  <1>14. w \in Nat /\ w <= t
    BY <1>1, <1>6, <1>12, <1>13, UnitBounds, UnitMonotonic DEF w
  <1>15. u <= w
    BY <1>1, <1>2, <1>12, UnitOfCurrent DEF w, S
  <1>16. paid = Wanted(c) => w = t
    <2>1. ASSUME paid = Wanted(c) PROVE n = g
      BY <1>1, <1>5, <1>7, <2>1
    <2> QED BY <1>13, <2>1 DEF w
  <1>17. z \in (u - 1)..t
    BY <1>1, <1>3, <1>8, <1>14, <1>15
  <1>18. paid = Wanted(c) => z \in (t - 1)..t /\ (t > 0 => z > 0)
    BY <1>1, <1>3, <1>8, <1>14, <1>16
  <1> QED BY <1>10, <1>11, <1>17, <1>18

\* What a step owes: the invariant, the surplus of whatever is left of a
\* token, and the range of each unit that it changes.
IndexStepOK ==
    /\ IndexFundInv'
    /\ positions'.positionMultiplier = positions.positionMultiplier =>
         \A c \in Components : balances'[c] = 0 \/ Surplus(c)' >= Surplus(c)
    /\ positions'.positionMultiplier = positions.positionMultiplier
         /\ totalSupply >= PRECISE_UNIT =>
         \A c \in Components \ {weth} :
           Surplus(c) >= 0 /\ currentUnit(c)' # currentUnit(c) => InRange(c)

\* Steps that leave the positions alone and every surplus at least as it was.
LEMMA UnitsIdle ==
    ASSUME VaultStepOK, positions' = positions, IndexTypeOK', IndexFundInv
    PROVE  IndexStepOK
  <1>1. \A c \in Components : currentUnit(c)' = currentUnit(c)
    BY DEF currentUnit
  <1> QED BY <1>1 DEF IndexStepOK, VaultStepOK, IndexFundInv

\* A trade starts a cool-off period and changes no other parameter.
LEMMA TradeTypes ==
    ASSUME IndexTypeOK, NEW info, NEW o, NEW c, executeTrade(info, o, c), now' = now
    PROVE  /\ IndexTypeOK'
           /\ \A d \in Components :
                /\ executionInfo'[d].targetUnit = executionInfo[d].targetUnit
                /\ executionInfo'[d].maxSize = executionInfo[d].maxSize
  <1>1. executionInfo' = [executionInfo EXCEPT ![c].lastTradeTimestamp = now]
        /\ rebalanceInfo' = rebalanceInfo
    BY DEF executeTrade
  <1>2. now \in Nat
        /\ executionInfo \in [Components -> [targetUnit : Nat, maxSize : Nat,
                                             coolOffPeriod : Nat, lastTradeTimestamp : Nat]]
    BY DEF IndexTypeOK
  <1>3. executionInfo' \in [Components -> [targetUnit : Nat, maxSize : Nat,
                                           coolOffPeriod : Nat, lastTradeTimestamp : Nat]]
    BY <1>1, <1>2
  <1>4. \A d \in Components :
          /\ executionInfo'[d].targetUnit = executionInfo[d].targetUnit
          /\ executionInfo'[d].maxSize = executionInfo[d].maxSize
    BY <1>1, <1>2
  <1>5. IndexTypeOK'
    BY <1>1, <1>3 DEF IndexTypeOK
  <1> QED BY <1>4, <1>5

\* trade keeps the invariant and stops at the target, at which an uncut trade
\* arrives.
LEMMA TradeStep ==
    ASSUME IndexFundInv, NEW c \in Components \ {weth}, Trade(c)
    PROVE  /\ IndexStepOK
           /\ totalSupply >= PRECISE_UNIT /\ Surplus(c) >= 0
                /\ totalFixedQuantity(c) < executionInfo[c].maxSize =>
                targetMet(c)'
  <1>1. PICK trader \in Traders : trade(trader, c, NoLimit(c))
    BY DEF Trade
  <1> DEFINE info == createTradeInfo(c, NoLimit(c))
  <1>2. PICK o \in Swaps(info) : executeTrade(info, o, c)
    BY <1>1 DEF trade
  <1>3. rebalanceInfo.positionMultiplier > 0 /\ now' = now
    BY <1>1 DEF trade, Trade
  <1>4. weth \in Components /\ c # weth
    BY IndexAssumption
  <1>5. NoLimit(c) \in Nat
    BY VaultAssumption DEF NoLimit
  <1>6. balances[weth] \in Nat /\ balances[c] \in Nat
    BY <1>4 DEF IndexFundInv, VaultKept
  <1>7. /\ VaultKept' /\ currentUnit(c)' \in Nat
        /\ positions'.positionMultiplier = positions.positionMultiplier
        /\ \A d \in Components : balances'[d] = 0 \/ Surplus(d)' >= Surplus(d)
        /\ \A d \in Components \ {c, weth} : currentUnit(d)' = currentUnit(d)
        /\ totalSupply >= PRECISE_UNIT /\ Surplus(c) >= 0 =>
             /\ InRange(c)
             /\ totalFixedQuantity(c) < executionInfo[c].maxSize => AtTarget(c)
    <2>1. CASE isSendTokenFixed(c)
      <3>1. info = [sendToken |-> c, receiveToken |-> weth, isSendTokenFixed |-> TRUE,
                    sendQuantity |-> totalFixedQuantity(c),
                    floatingQuantityLimit |-> NoLimit(c)]
        BY <2>1 DEF createTradeInfo
      <3>2. totalFixedQuantity(c) \in Int /\ totalFixedQuantity(c) <= Wanted(c)
            /\ (totalFixedQuantity(c) < executionInfo[c].maxSize =>
                  totalFixedQuantity(c) = Wanted(c))
        BY <1>3, QuantityBounds
      <3>3. o.sent = totalFixedQuantity(c)
        BY <3>1 DEF Swaps
      <3> HIDE DEF info
      <3>4. /\ info.sendToken = c /\ info.receiveToken = weth
            /\ info.sendQuantity = totalFixedQuantity(c)
        BY <3>1
      <3>5. /\ o.sent \in Nat /\ o.sent >= 1
            /\ balances'[c] = balances[c] - o.sent
            /\ VaultKept' /\ totalSupply' = totalSupply
            /\ positions'.positionMultiplier = positions.positionMultiplier
            /\ \A d \in Components : balances'[d] = 0 \/ Surplus(d)' >= Surplus(d)
            /\ FollowsBalance(c)
            /\ \A d \in Components \ {c, weth} : currentUnit(d)' = currentUnit(d)
        BY <1>2, <1>4, <3>2, <3>4, SwapStep
      <3>6. currentUnit(c)' \in Nat
        BY <3>5, RealUnitNat DEF VaultKept, PositionsInv, currentUnit
      <3>7. o.sent <= balances[c]
        BY <1>2, <3>4 DEF executeTrade
      <3>8. ASSUME totalSupply >= PRECISE_UNIT, Surplus(c) >= 0
            PROVE  /\ InRange(c)
                   /\ totalFixedQuantity(c) < executionInfo[c].maxSize => AtTarget(c)
        <4>1. Wanted(c) = currentNotional(c) - targetNotional(c)
          BY <2>1 DEF Wanted
        <4>2. o.sent <= currentNotional(c) - targetNotional(c)
          BY <3>2, <3>3, <4>1
        <4>3. /\ InRange(c)
              /\ o.sent = currentNotional(c) - targetNotional(c) => AtTarget(c)
          BY <1>3, <2>1, <3>5, <3>6, <3>7, <3>8, <4>2, SaleInRange
        <4> QED BY <3>2, <3>3, <4>1, <4>3
      <3> QED BY <3>5, <3>6, <3>8
    <2>2. CASE ~isSendTokenFixed(c)
      <3>1. info = [sendToken |-> weth, receiveToken |-> c, isSendTokenFixed |-> FALSE,
                    sendQuantity |-> Least(NoLimit(c), balances[weth]),
                    floatingQuantityLimit |-> totalFixedQuantity(c)]
        BY <2>2 DEF createTradeInfo
      <3>2. totalFixedQuantity(c) \in Int /\ totalFixedQuantity(c) <= Wanted(c)
            /\ (totalFixedQuantity(c) < executionInfo[c].maxSize =>
                  totalFixedQuantity(c) = Wanted(c))
        BY <1>3, QuantityBounds
      <3>3. o.paid = totalFixedQuantity(c)
        BY <3>1 DEF Swaps
      <3>4. Least(NoLimit(c), balances[weth]) \in Int
        BY <1>5, <1>6 DEF Least
      <3> HIDE DEF info
      <3>5. /\ info.sendToken = weth /\ info.receiveToken = c
            /\ info.sendQuantity \in Int
        BY <3>1, <3>4
      <3>6. /\ o.paid \in Nat \ {0}
            /\ balances'[c] = balances[c] + netReceived(o.paid)
            /\ VaultKept' /\ totalSupply' = totalSupply
            /\ positions'.positionMultiplier = positions.positionMultiplier
            /\ \A d \in Components : balances'[d] = 0 \/ Surplus(d)' >= Surplus(d)
            /\ FollowsBalance(c)
            /\ \A d \in Components \ {c, weth} : currentUnit(d)' = currentUnit(d)
        BY <1>2, <1>4, <3>5, SwapStep
      <3>7. currentUnit(c)' \in Nat
        BY <3>6, RealUnitNat DEF VaultKept, PositionsInv, currentUnit
      <3>8. ASSUME totalSupply >= PRECISE_UNIT, Surplus(c) >= 0
            PROVE  /\ InRange(c)
                   /\ totalFixedQuantity(c) < executionInfo[c].maxSize => AtTarget(c)
        <4>1. o.paid <= Wanted(c)
          BY <3>2, <3>3
        <4>2. InRange(c) /\ (o.paid = Wanted(c) => AtTarget(c))
          BY <1>3, <2>2, <3>6, <3>7, <3>8, <4>1, PurchaseInRange
        <4> QED BY <3>2, <3>3, <4>2
      <3> QED BY <3>6, <3>7, <3>8
    <2> QED BY <2>1, <2>2
  <1>8. IndexTypeOK'
        /\ executionInfo'[c].targetUnit = executionInfo[c].targetUnit
    BY <1>2, <1>3, TradeTypes DEF IndexFundInv
  <1>9. IndexStepOK
    BY <1>7, <1>8 DEF IndexStepOK, IndexFundInv
  <1>10. getNormalizedTargetUnit(c)' = getNormalizedTargetUnit(c)
    BY <1>2, <1>7, <1>8 DEF getNormalizedTargetUnit, executeTrade
  <1>11. getNormalizedTargetUnit(c) \in Nat
    BY <1>3, TargetTypes
  <1>12. AtTarget(c) => targetMet(c)'
    BY <1>7, <1>10, <1>11 DEF AtTarget, targetMet, approximatelyEquals
  <1> QED BY <1>7, <1>9, <1>12

\* tradeRemainingWETH buys, and checks that the target is not exceeded.
LEMMA TradeRemainingStep ==
    ASSUME IndexFundInv, NEW c \in Components \ {weth}, TradeRemaining(c)
    PROVE  IndexStepOK
  <1>1. PICK trader \in Traders : tradeRemainingWETH(trader, c, 0)
    BY DEF TradeRemaining
  <1> DEFINE info == createTradeRemainingInfo(c, 0)
  <1>2. PICK o \in Swaps(info) :
          /\ executeTrade(info, o, c)
          /\ getDefaultPositionRealUnit(positions', c) <= getNormalizedTargetUnit(c)
    BY <1>1 DEF tradeRemainingWETH
  <1>3. rebalanceInfo.positionMultiplier > 0 /\ now' = now
    BY <1>1 DEF tradeRemainingWETH, mayTradeRemainingWETH, TradeRemaining
  <1>4. ~canSell(c)
    BY <1>1 DEF tradeRemainingWETH, mayTradeRemainingWETH, noTokensToSell,
                validateTradeParameters, contains, Entries
  <1>5. weth \in Components /\ c # weth
    BY IndexAssumption
  <1>6. info.sendQuantity \in Int
    BY <1>3, <1>5, TargetTypes DEF createTradeRemainingInfo
  <1>7. info.sendToken = weth /\ info.receiveToken = c
    BY DEF createTradeRemainingInfo
  <1> HIDE DEF info
  <1>8. /\ netReceived(o.paid) \in Nat \ {0}
        /\ balances'[c] = balances[c] + netReceived(o.paid)
        /\ VaultKept' /\ totalSupply' = totalSupply
        /\ positions'.positionMultiplier = positions.positionMultiplier
        /\ \A d \in Components : balances'[d] = 0 \/ Surplus(d)' >= Surplus(d)
        /\ FollowsBalance(c)
        /\ \A d \in Components \ {c, weth} : currentUnit(d)' = currentUnit(d)
    BY <1>2, <1>5, <1>6, <1>7, SwapStep
  <1>9. currentUnit(c)' \in Nat /\ currentUnit(c)' <= getNormalizedTargetUnit(c)
    BY <1>2, <1>8, RealUnitNat DEF VaultKept, PositionsInv, currentUnit
  <1>10. ASSUME totalSupply >= PRECISE_UNIT PROVE InRange(c)
    <2> DEFINE n == currentNotional(c) + balances'[c] - balances[c]
               w == getDefaultPositionUnit(totalSupply, n)
    <2>1. /\ totalSupply \in Nat /\ getNormalizedTargetUnit(c) \in Nat /\ currentUnit(c) \in Nat
          /\ currentNotional(c) \in Nat /\ balances[c] \in Nat
      BY <1>3, TargetTypes
    <2>2. balances'[c] > 0 /\ n \in Nat /\ n > currentNotional(c)
      BY <1>8, <2>1
    <2>3. w <= currentUnit(c)' + 1
      BY <2>2, <1>8 DEF FollowsBalance
    <2> HIDE DEF n
    <2>4. totalSupply \in Nat \ {0}
      BY <1>10, <2>1, PreciseUnitAssumption
    <2>5. currentUnit(c) <= w /\ w \in Nat
      BY <1>10, <2>1, <2>2, <2>4, UnitOfCurrent, UnitBounds
         DEF currentNotional, getDefaultTotalNotional
    <2> HIDE DEF w
    <2>6. ~(getNormalizedTargetUnit(c) < currentUnit(c))
      BY <1>4, <1>5 DEF canSell
    <2> QED BY <1>9, <2>1, <2>3, <2>5, <2>6 DEF InRange
  <1>11. IndexTypeOK'
    BY <1>2, <1>3, TradeTypes DEF IndexFundInv
  <1> QED BY <1>8, <1>10, <1>11 DEF IndexStepOK, IndexFundInv

\* A fee scales the positions down, which no unit is traded by.
LEMMA FeeKeeps ==
    ASSUME IndexFundInv, Fee
    PROVE  IndexStepOK
  <1>1. PICK x \in Multipliers :
          /\ x < positions.positionMultiplier
          /\ positions' \in editPositionMultiplier(positions, x)
          /\ totalSupply' \in
               totalSupply..((totalSupply * positions.positionMultiplier) \div x)
    BY DEF Fee, EditPositionMultiplier
  <1>2. x \in Int /\ StorageOK(positions) /\ totalSupply \in Nat
        /\ positions.positionMultiplier \in Nat
    BY PositionBookAssumption, MultiplierPositive DEF IndexFundInv, VaultKept, PositionsInv
  <1>3. StorageOK(positions')
    BY <1>1, <1>2, EditPositionMultiplierOK
  <1>4. positions'.positionMultiplier = x
    BY <1>1, <1>2 DEF editPositionMultiplier, require, StorageOK, StorageType
  <1>5. totalSupply' \in Nat
    <2>1. x > 0
      BY <1>3, <1>4 DEF StorageOK, PositionsVisibleIn
    <2>2. (totalSupply * positions.positionMultiplier) \div x \in Int
      <3> DEFINE n == totalSupply * positions.positionMultiplier
      <3>1. n \in Int
        BY <1>2
      <3> HIDE DEF n
      <3>2. n \div x \in Int
        BY <1>2, <2>1, <3>1, DivFloor
      <3> QED BY <3>2 DEF n
    <2> QED BY <1>1, <1>2, <2>2
  <1>6. VaultKept' /\ IndexTypeOK'
    BY <1>3, <1>5 DEF IndexFundInv, VaultKept, PositionsInv, IndexTypeOK, Fee, indexVars
  <1>7. positions'.positionMultiplier < positions.positionMultiplier
        /\ positions'.positionMultiplier <= PRECISE_UNIT
    BY <1>1, <1>2, <1>4, PreciseUnitAssumption DEF IndexFundInv
  <1>8. positions'.positionMultiplier # positions.positionMultiplier
    BY <1>2, <1>7
  <1> QED BY <1>6, <1>7, <1>8 DEF IndexStepOK, IndexFundInv

\* The manager's calls and raiseAssetTargets keep the types of the parameters.
LEMMA ParametersKept ==
    ASSUME IndexFundInv, Raise \/ Rebalance \/ Settings \/ Initialization
    PROVE  IndexStepOK
  <1>1. VaultKept /\ IndexTypeOK
    BY DEF IndexFundInv
  <1>2. ASSUME UNCHANGED vaultVars, IndexTypeOK' PROVE IndexStepOK
    BY <1>1, <1>2, VaultIdle, UnitsIdle DEF vaultVars
  <1>3. positions.positionMultiplier \in Nat
    BY <1>1, MultiplierPositive DEF VaultKept
  <1>4. CASE Raise
    <2> DEFINE n == rebalanceInfo.positionMultiplier * PRECISE_UNIT
               d == PRECISE_UNIT + rebalanceInfo.raiseTargetPercentage
    <2>1. n \in Nat /\ d \in Nat \ {0}
      BY <1>1, PreciseUnitAssumption DEF IndexTypeOK
    <2>2. UNCHANGED <<vaultVars, executionInfo, now>>
          /\ rebalanceInfo' = [rebalanceInfo EXCEPT !.positionMultiplier = n \div d]
      BY <1>4 DEF Raise, raiseAssetTargets, preciseDiv
    <2> HIDE DEF n, d
    <2>3. n \div d \in Nat
      BY <2>1, DivFloor
    <2>4. IndexTypeOK'
      BY <1>1, <2>2, <2>3 DEF IndexTypeOK
    <2> QED BY <1>2, <2>2, <2>4
  <1>5. CASE Rebalance
    <2>1. PICK new \in {<<>>} \cup {<<c>> : c \in Components},
               targets \in [Components -> TargetUnits],
               x \in positions.positionMultiplier..PRECISE_UNIT :
                 startRebalance(new, targets, x)
      BY <1>5 DEF Rebalance
    <2> DEFINE all == getAggregateComponents(new)
    <2>2. x \in Nat /\ all \in Seq(Components)
      <3>1. positions.components \in Seq(Components)
        BY <1>1 DEF VaultKept, PositionsInv, StorageOK, StorageType
      <3>2. new \in Seq(Components)
        <4>1. new = <<>> \/ \E c \in Components : new = <<c>>
          BY Zenon
        <4>2. ASSUME NEW c \in Components PROVE <<c>> \in Seq(Components)
          OBVIOUS
        <4>3. <<>> \in Seq(Components)
          OBVIOUS
        <4> QED BY <4>1, <4>2, <4>3, Zenon
      <3>3. all \in Seq(Components)
        BY <3>1, <3>2 DEF getAggregateComponents
      <3> QED BY <1>3, <3>3, PreciseUnitAssumption
    <2>3. \A c \in Components : targets[c] \in Nat
      BY IndexAssumption
    <2>4. /\ UNCHANGED vaultVars /\ now' = now
          /\ executionInfo' = [c \in Components |->
               IF contains(all, c)
               THEN [executionInfo[c] EXCEPT !.targetUnit = targets[c]]
               ELSE executionInfo[c]]
          /\ rebalanceInfo' = [rebalanceInfo EXCEPT
               !.rebalanceComponents = all, !.positionMultiplier = x]
      BY <1>5, <2>1 DEF Rebalance, ManagerCall, startRebalance
    <2> HIDE DEF all
    <2>5. IndexTypeOK'
      BY <1>1, <2>2, <2>3, <2>4 DEF IndexTypeOK
    <2> QED BY <1>2, <2>4, <2>5
  <1>6. CASE Settings
    <2>1. ASSUME NEW c \in Components, NEW x \in TradeSizes, setTradeMaximums(c, x), now' = now
          PROVE  IndexStepOK
      <3>1. x \in Nat
        BY IndexAssumption
      <3>2. IndexTypeOK' /\ UNCHANGED vaultVars
        BY <1>1, <2>1, <3>1 DEF setTradeMaximums, IndexTypeOK
      <3> QED BY <1>2, <3>2
    <2>2. ASSUME NEW c \in Components, NEW x \in CoolOffPeriods, setCoolOffPeriods(c, x), now' = now
          PROVE  IndexStepOK
      <3>1. x \in Nat
        BY IndexAssumption
      <3>2. IndexTypeOK' /\ UNCHANGED vaultVars
        BY <1>1, <2>2, <3>1 DEF setCoolOffPeriods, IndexTypeOK
      <3> QED BY <1>2, <3>2
    <2>3. ASSUME NEW x \in RaisePercentages, setRaiseTargetPercentage(x), now' = now
          PROVE  IndexStepOK
      <3>1. x \in Nat
        BY IndexAssumption
      <3>2. IndexTypeOK' /\ UNCHANGED vaultVars
        BY <1>1, <2>3, <3>1 DEF setRaiseTargetPercentage, IndexTypeOK
      <3> QED BY <1>2, <3>2
    <2>4. ASSUME NEW t \in Traders, NEW status \in BOOLEAN, setTraderStatus(t, status),
                 now' = now
          PROVE  IndexStepOK
      BY <1>1, <1>2, <2>4 DEF setTraderStatus, IndexTypeOK
    <2>5. ASSUME NEW status \in BOOLEAN, setAnyoneTrade(status), now' = now
          PROVE  IndexStepOK
      BY <1>1, <1>2, <2>5 DEF setAnyoneTrade, IndexTypeOK
    <2>6. ASSUME removeIndex, now' = now PROVE IndexStepOK
      <3>1. NoRebalanceInfo \in [positionMultiplier : Nat, raiseTargetPercentage : Nat,
                                 rebalanceComponents : Seq(Components)]
        BY DEF NoRebalanceInfo
      <3>2. IndexTypeOK' /\ UNCHANGED vaultVars
        BY <1>1, <2>6, <3>1 DEF removeIndex, IndexTypeOK
      <3> QED BY <1>2, <3>2
    <2> QED BY <1>6, <2>1, <2>2, <2>3, <2>4, <2>5, <2>6 DEF Settings, ManagerCall
  <1>7. CASE Initialization
    <2>1. \A c \in Components : currentUnit(c) \in Nat
      BY <1>1, SurplusTerms DEF currentUnit
    <2>2. /\ UNCHANGED vaultVars /\ now' = now
          /\ executionInfo' = [c \in Components |->
               IF isComponent(positions, c)
               THEN [executionInfo[c] EXCEPT !.targetUnit = currentUnit(c),
                                             !.lastTradeTimestamp = 0]
               ELSE executionInfo[c]]
          /\ rebalanceInfo' = [rebalanceInfo EXCEPT
               !.positionMultiplier = positions.positionMultiplier]
      BY <1>7 DEF Initialization, initializeIndex
    <2>3. IndexTypeOK'
      BY <1>1, <1>3, <2>1, <2>2 DEF IndexTypeOK
    <2> QED BY <1>2, <2>2, <2>3
  <1> QED BY <1>4, <1>5, <1>6, <1>7

LEMMA IndexFundStep == IndexFundInv /\ [Next]_vars => IndexStepOK
  <1> SUFFICES ASSUME IndexFundInv, [Next]_vars PROVE IndexStepOK
    OBVIOUS
  <1>1. VaultKept /\ IndexTypeOK
    BY DEF IndexFundInv
  <1>2. CASE Issuance
    <2>1. PICK k \in 1..MaxSupply : issue(k) \/ redeem(k)
      BY <1>2 DEF Issuance
    <2>2. k \in Nat /\ UNCHANGED <<indexVars, now>>
      BY <1>2, VaultAssumption DEF Issuance
    <2>3. VaultStepOK /\ positions' = positions
      BY <1>1, <2>1, <2>2, IssueKeeps, RedeemKeeps DEF issue, redeem
    <2>4. IndexTypeOK'
      BY <1>1, <2>2 DEF IndexTypeOK, indexVars
    <2> QED BY <2>3, <2>4, UnitsIdle
  <1>3. CASE Time \/ UNCHANGED vars
    <2>1. UNCHANGED vaultVars /\ UNCHANGED indexVars /\ (now' = now + 1 \/ now' = now)
      BY <1>3 DEF Time, vars
    <2>2. VaultStepOK /\ positions' = positions
      BY <1>1, <2>1, VaultIdle DEF vaultVars
    <2>3. IndexTypeOK'
      BY <1>1, <2>1 DEF IndexTypeOK, indexVars
    <2> QED BY <2>2, <2>3, UnitsIdle
  <1>4. CASE Fee
    BY <1>4, FeeKeeps
  <1>5. CASE \E c \in Components \ {weth} : Trade(c) \/ TradeRemaining(c)
    BY <1>5, TradeStep, TradeRemainingStep
  <1>6. CASE Raise \/ Rebalance \/ Settings \/ Initialization
    BY <1>6, ParametersKept
  <1>7. CASE Donation
    <2>1. PICK c \in Components : donate(c, 1)
      BY <1>7 DEF Donation
    <2>2. UNCHANGED <<indexVars, now>>
      BY <1>7 DEF Donation
    <2>3. VaultStepOK /\ positions' = positions
      BY <1>1, <2>1, DonateKeeps DEF donate
    <2>4. IndexTypeOK'
      BY <1>1, <2>2 DEF IndexTypeOK, indexVars
    <2> QED BY <2>3, <2>4, UnitsIdle
  <1> QED BY <1>2, <1>3, <1>4, <1>5, <1>6, <1>7 DEF Next

-----------------------------------------------------------------------------
\* The types of the SetToken's state, the positions' invariant and a multiplier
\* of at most one whole unit, whatever is traded, issued or charged.
THEOREM IndexFundInvariant == Spec => []IndexFundInv
  <1>1. IndexFundInv /\ [Next]_vars => IndexFundInv'
    BY IndexFundStep DEF IndexStepOK
  <1> QED BY <1>1, IndexFundInvInit, PTL DEF Spec

\* For every set of components, every PRECISE_UNIT and every exchange rate, a
\* trade of GeneralIndexModule that leaves any of a token spends none that the
\* positions do not track.
THEOREM IndexSurplusKept == Spec => SurplusKept
  <1>1. IndexFundInv /\ [Next]_vars =>
          [positions'.positionMultiplier = positions.positionMultiplier =>
             \A c \in Components : balances'[c] = 0 \/ Surplus(c)' >= Surplus(c)]_vars
    BY IndexFundStep DEF IndexStepOK
  <1> QED BY <1>1, IndexFundInvariant, PTL DEF Spec, SurplusKept

\* For every protocol fee, trade size and target, trade and tradeRemainingWETH
\* move a component towards its target and, but for the wei that is lost when
\* a unit is stored, not past it.
THEOREM IndexNoOvershoot == Spec => NoOvershoot
  <1> DEFINE Range ==
        \A c \in Components \ {weth} :
          currentUnit(c)' # currentUnit(c)
            /\ positions'.positionMultiplier = positions.positionMultiplier
            /\ totalSupply >= PRECISE_UNIT /\ Surplus(c) >= 0 =>
              IF getNormalizedTargetUnit(c) < currentUnit(c)
              THEN currentUnit(c)' \in (getNormalizedTargetUnit(c) - 1)..currentUnit(c)
              ELSE currentUnit(c)' \in (currentUnit(c) - 1)..getNormalizedTargetUnit(c)
  <1>1. IndexFundInv /\ [Next]_vars => [Range]_vars
    BY IndexFundStep DEF IndexStepOK, InRange
  <1> QED BY <1>1, IndexFundInvariant, PTL DEF Spec, NoOvershoot

\* The fee on a purchase is grossed up so that what is left of it matches the
\* target unit, for every fee below one whole unit: the contract's own check
\* then finds the target met, and its subtraction does not underflow.
THEOREM IndexFullTrade == Spec => FullTradeMeetsTarget
  <1> DEFINE Met == \A c \in Components \ {weth} : FullTrade(c) => targetMet(c)'
  <1>1. IndexFundInv => Met
    BY TradeStep DEF FullTrade
  <1>2. IndexFundInv /\ [Next]_vars => [Met]_vars
    BY <1>1
  <1> QED BY <1>2, IndexFundInvariant, PTL DEF Spec, FullTradeMeetsTarget

=============================================================================
