------------------------------- MODULE NAVFund -------------------------------
(***************************************************************************)
(* One SetToken that is issued and redeemed both for its components         *)
(* (BasicIssuanceModule) and for a reserve asset at net asset value, at     *)
(* any prices, while tokens are donated and the manager edits the settings. *)
(***************************************************************************)
EXTENDS BasicIssuanceModule, NAVIssuanceModule

Expected == INSTANCE NAVExpectations

navFundVars == <<vaultVars, navVars>>

NAVFundInit == VaultInit /\ NAVInit

InKind ==
    /\ \E q \in 1..MaxSupply : issue(q) \/ redeem(q)
    /\ UNCHANGED navVars

AtNAV ==
    \E prices \in Quotes, r \in Components :
        \/ \E q \in 1..MaxBalance : navIssue(r, q, prices)
        \/ \E q \in 1..MaxSupply : navRedeem(r, q, prices)

NAVDonation ==
    /\ \E c \in Components, q \in 1..MaxBalance : donate(c, q)
    /\ UNCHANGED navVars

Managing ==
    \/ \E c \in Components : addReserveAsset(c) \/ removeReserveAsset(c)
    \/ \E p \in Premiums : editPremium(p)
    \/ \E f \in NAVFees, i \in FeeIndex : editManagerFee(f, i)
    \/ \E A \in ReserveLists, fees \in [FeeIndex -> NAVFees], f \in NAVFees,
          p, x \in Premiums, s \in MinSupplies : initializeNAV(A, fees, f, p, x, s)
    \/ removeNAV

NAVFundNext == InKind \/ AtNAV \/ NAVDonation \/ Managing

NAVFundSpec == NAVFundInit /\ [][NAVFundNext]_navFundVars

-----------------------------------------------------------------------------
\* Whoever enters or leaves at net asset value, the others lose nothing to the
\* rounding: the claim of the whole supply on every component whose balance
\* does not move (multiplier times supply) never grows, and the balance of the
\* reserve that does move covers its position at least as far as before.
BackingKept ==
    [][/\ positions'.positionMultiplier # positions.positionMultiplier =>
            positions'.positionMultiplier * totalSupply'
                <= positions.positionMultiplier * totalSupply
       /\ \A c \in Components : balances'[c] # balances[c] =>
            Surplus(c)' >= Surplus(c)]_navFundVars

-----------------------------------------------------------------------------
(***************************************************************************)
(* The contract against what the tests compute on their own, with the fees  *)
(* as the tests pass them.                                                 *)
(***************************************************************************)
distance(a, b) == abs(a - b)

managerFees == navIssuanceSettings.managerFees

ceilingDiv(a, b) == (a + b - 1) \div b

\* How far two units may differ that are computed from reserves "apart" from
\* each other, divided by the supply and rounded to a multiple of the multiplier
\* once from virtual to real and once from real to virtual.
unitTolerance(apart, newSupply, multiplier) ==
    preciseDivCeil(apart, newSupply) + ceilingDiv(PRECISE_UNIT, multiplier)
        + ceilingDiv(multiplier, PRECISE_UNIT)

MultiplierExpected(expected, newSupply) ==
    /\ expected <= getNewPositionMultiplier(newSupply)
    /\ distance(expected, getNewPositionMultiplier(newSupply))
         <= 1 + positions.positionMultiplier \div PRECISE_UNIT

\* The unit that the SetToken reports once newUnit is stored under the new
\* multiplier.
UnitExpected(expected, reserve, newUnit, newSupply, apart) ==
    LET edit(p) == editDefaultPosition(p, reserve, newUnit) IN
    \A p \in Then(rescaled(newSupply), edit) :
        distance(expected, getDefaultPositionRealUnit(p, reserve))
            <= unitTolerance(apart, newSupply, p.positionMultiplier)

\* With the protocol's share the contract cuts off two fees, the test one.
NetExpected(quantity, index) ==
    Expected!getExpectedPostFeeQuantity(quantity, managerFees[index], ProtocolDirectFee)

\* What an issuance mints, and how it rescales the other positions.
MintAsExpected(r, q, prices) ==
    \A valuation \in calculateSetTokenValuation(r, prices) :
    \A f \in getFees(q, "issue") :
    \A minted \in getSetTokenMintQuantity(r, f.net, prices) :
        /\ distance(f.net, NetExpected(q, "issue")) <= 1
        /\ f.net = NetExpected(q, "issue") =>
            minted = Expected!getExpectedSetTokenIssueQuantity(valuation, totalSupply,
                       baseUnits[r], q, managerFees["issue"], ProtocolDirectFee, premium)
        /\ MultiplierExpected(Expected!getExpectedIssuePositionMultiplier(
                       positions.positionMultiplier, totalSupply, totalSupply + minted),
                       totalSupply + minted)

\* How a redemption rescales the other positions.
BurnAsExpected(r, q, prices) ==
    \A info \in RedeemInfos(r, q, prices) :
        MultiplierExpected(Expected!getExpectedRedeemPositionMultiplier(
                       positions.positionMultiplier, totalSupply, info.newSupply),
                       info.newSupply)

\* The unit of the reserve after an issuance.
IssueAsExpected(r, q, prices) ==
    \A info \in IssueInfos(r, q, prices) :
        LET multiplier == getNewPositionMultiplier(info.newSupply)
        IN  multiplier > 0 =>
                UnitExpected(Expected!getExpectedIssuePositionUnit(
                       getDefaultPositionRealUnit(positions, r), q, totalSupply,
                       info.newSupply, multiplier, managerFees["issue"], ProtocolDirectFee),
                       r, getIssuePositionUnit(r, info.net, info.newSupply), info.newSupply,
                       distance(info.net, NetExpected(q, "issue")))

\* What a redemption pays, and the unit of the reserve after it.  For a reserve
\* of fewer decimals the contract converts the quantity before the premium and
\* the fees are rounded, the test after it.
RedeemAsExpected(r, q, prices) ==
    \A valuation \in calculateSetTokenValuation(r, prices) :
    \A info \in RedeemInfos(r, q, prices) :
        LET multiplier == getNewPositionMultiplier(info.newSupply)
            net == Expected!getExpectedReserveRedeemQuantity(q, valuation, baseUnits[r],
                     managerFees["redeem"], ProtocolDirectFee, premium)
        IN  /\ distance(info.net, net) <= 3
            /\ baseUnits[r] = PRECISE_UNIT
                 /\ info.net = NetExpected(info.outflow, "redeem") => info.net = net
            /\ UnitExpected(Expected!getExpectedRedeemPositionUnit(
                           getDefaultPositionRealUnit(positions, r), q, valuation,
                           baseUnits[r], totalSupply, info.newSupply, multiplier, premium),
                           r, info.newUnit, info.newSupply,
                           IF baseUnits[r] = PRECISE_UNIT THEN 0 ELSE 2)

\* Whatever the prices and the history of the SetToken, the contract mints what
\* the arithmetic of the tests expects whenever the fees agree, and they never
\* differ by more than one base unit; the expected multiplier, which is rounded
\* twice, is never above the contract's, nor below it by more than the second
\* rounding explains.
SupplyAsExpected ==
    isNAVModule /\ totalSupply > 0 =>
        \A r \in Entries(navIssuanceSettings.reserveAssets), prices \in Quotes :
            /\ \A q \in 1..MaxBalance : MintAsExpected(r, q, prices)
            /\ \A q \in 1..MaxSupply : BurnAsExpected(r, q, prices)

\* The reserve's side: what a redemption pays and the units that either leaves
\* stay within the roundings of what the tests expect, for every quantity, at
\* every price, after any history of the SetToken; for a reserve with 18
\* decimals the same amount is redeemed whenever the fees agree.
ExpectationsWithinRounding ==
    isNAVModule /\ totalSupply > 0 =>
        \A r \in Entries(navIssuanceSettings.reserveAssets), prices \in Quotes :
            /\ \A q \in 1..MaxBalance : IssueAsExpected(r, q, prices)
            /\ \A q \in 1..MaxSupply : RedeemAsExpected(r, q, prices)

=============================================================================
