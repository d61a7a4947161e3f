-------------------------- MODULE PreciseUnitMath --------------------------
(***************************************************************************)
(* The fixed-point library contracts/lib/PreciseUnitMath.sol.  A precise   *)
(* number n stands for n / PRECISE_UNIT.  In the contracts PRECISE_UNIT is *)
(* 10^18; here it is a parameter, so that TLC can use a small one and the  *)
(* proofs cover every one.  SafeMath turns overflow into a revert, so      *)
(* plain integers are what a call that returns computes with.              *)
(***************************************************************************)
EXTENDS Integers

CONSTANT PRECISE_UNIT

ASSUME PreciseUnitAssumption == PRECISE_UNIT \in Nat \ {0}

(***************************************************************************)
(* Unsigned operations: the arguments are naturals.                        *)
(***************************************************************************)
preciseMul(a, b) == (a * b) \div PRECISE_UNIT

preciseMulCeil(a, b) ==
    IF a = 0 \/ b = 0 THEN 0 ELSE ((a * b - 1) \div PRECISE_UNIT) + 1

\* Reverts when b = 0; every use states b > 0 as a guard.
preciseDiv(a, b) == (a * PRECISE_UNIT) \div b

preciseDivCeil(a, b) ==
    IF a > 0 THEN ((a * PRECISE_UNIT - 1) \div b) + 1 ELSE 0

\* Whether the call returns true: where a is within the range above b and
\* b < range, it reverts, because SafeMath computes b - range.
approximatelyEquals(a, b, range) ==
    a <= b + range /\ b >= range /\ a >= b - range

(***************************************************************************)
(* Signed operations.  sdiv is the division of the EVM, which truncates    *)
(* towards zero.                                                           *)
(***************************************************************************)
abs(a) == IF a >= 0 THEN a ELSE -a

sdiv(a, b) ==
    LET quotient == abs(a) \div abs(b)
    IN  IF (a < 0) = (b < 0) THEN quotient ELSE -quotient

\* Rounds towards the lesser number: a truncated quotient of operands of
\* different signs is decremented when the division leaves a remainder.
divDown(a, b) ==
    LET result == sdiv(a, b)
    IN  IF (a < 0) # (b < 0) /\ a # result * b THEN result - 1 ELSE result

conservativePreciseMul(a, b) == divDown(a * b, PRECISE_UNIT)

conservativePreciseDiv(a, b) == divDown(a * PRECISE_UNIT, b)

=============================================================================
