--------------------------- MODULE NAVExpectations ---------------------------
(***************************************************************************)
(* What the tests expect of an issuance or redemption at net asset value:   *)
(* utils/common/navIssuanceModuleUtils.ts.  It was written beside the       *)
(* contract and rounds at other places.  The SetToken's valuation and       *)
(* supply, which one of the functions reads from the chain, are arguments.  *)
(***************************************************************************)
EXTENDS MathUtils

getExpectedPostFeeQuantity(quantity, managerFee, directFee) ==
  quantity - preciseMul(quantity, managerFee) - preciseMul(quantity, directFee)

getExpectedIssuePositionMultiplier(multiplier, previousSupply, currentSupply) ==
  LET inflation == preciseDivCeil(currentSupply - previousSupply, currentSupply)
  IN  preciseMul(multiplier, PRECISE_UNIT - inflation)

getExpectedSetTokenIssueQuantity(valuation, supply, baseUnits, quantity, managerFee, directFee, premium) ==
  LET subFees           == getExpectedPostFeeQuantity(quantity, managerFee, directFee)
      subFeesAndPremium == subFees - preciseMul(subFees, premium)
      normalized        == preciseDiv(subFees, baseUnits)
      normalizedPremium == preciseDiv(subFeesAndPremium, baseUnits)
      denominator == preciseMul(supply, valuation) + normalized - normalizedPremium
  IN  preciseDiv(preciseMul(normalizedPremium, supply), denominator)

\* A unit as the contracts would return it after storing it.
roundedToVirtual(unit, multiplier) ==
  preciseDiv(preciseMul(unit, multiplier), multiplier)

getExpectedIssuePositionUnit(previousUnits, quantity, previousSupply, currentSupply, multiplier, managerFee, directFee) ==
  LET numerator == preciseMul(previousSupply, previousUnits)
                   + getExpectedPostFeeQuantity(quantity, managerFee, directFee)
  IN  roundedToVirtual(preciseDiv(numerator, currentSupply), multiplier)

getExpectedReserveRedeemQuantity(quantity, valuation, baseUnits, managerFee, directFee, premium) ==
  LET total == preciseMul(valuation, quantity)
      subFees == getExpectedPostFeeQuantity(total - preciseMulCeil(total, premium),
                                            managerFee, directFee)
  IN  preciseMul(subFees, baseUnits)

getExpectedRedeemPositionMultiplier(multiplier, previousSupply, currentSupply) ==
  LET deflation == preciseDiv(previousSupply - currentSupply, currentSupply)
  IN  preciseMul(multiplier, PRECISE_UNIT + deflation)

getExpectedRedeemPositionUnit(previousUnits, quantity, valuation, baseUnits, previousSupply, currentSupply, multiplier, premium) ==
  LET total     == preciseMul(valuation, quantity)
      outflow   == preciseMul(total - preciseMulCeil(total, premium), baseUnits)
      numerator == preciseMul(previousSupply, previousUnits) - outflow
  IN  roundedToVirtual(preciseDiv(numerator, currentSupply), multiplier)

=============================================================================
