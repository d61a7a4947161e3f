------------------------------ MODULE MathUtils ------------------------------
(***************************************************************************)
(* The arithmetic of the test code, utils/common/mathUtils.ts.  It states   *)
(* what the tests expect of contracts/lib/PreciseUnitMath.sol and is an     *)
(* implementation of its own: of BigNumbers, which do not overflow and      *)
(* divide towards zero.                                                    *)
(***************************************************************************)
EXTENDS Integers

CONSTANT PRECISE_UNIT

magnitude(a) == IF a < 0 THEN -a ELSE a

\* BigNumber.div; throws when b = 0.
div(a, b) ==
  IF (a < 0) = (b < 0) THEN magnitude(a) \div magnitude(b)
                       ELSE -(magnitude(a) \div magnitude(b))

\* BigNumber.mod, of a positive modulus.
mod(a, b) == a % b

preciseMul(a, b) == div(a * b, PRECISE_UNIT)

preciseMulCeil(a, b) ==
  IF a = 0 \/ b = 0 THEN 0 ELSE div(a * b - 1, PRECISE_UNIT) + 1

preciseMulCeilInt(a, b) ==
  IF a = 0 \/ b = 0 THEN 0
  ELSE IF (a > 0) = (b > 0) THEN div(a * b - 1, PRECISE_UNIT) + 1
  ELSE div(a * b + 1, PRECISE_UNIT) - 1

preciseDiv(a, b) == div(a * PRECISE_UNIT, b)

preciseDivCeil(a, b) ==
  IF a = 0 \/ b = 0 THEN 0 ELSE div(a * PRECISE_UNIT - 1, b) + 1

preciseDivCeilInt(a, b) ==
  LET result == div(a * PRECISE_UNIT, b)
  IN  IF result * b = a * PRECISE_UNIT THEN result
      ELSE IF (a > 0 /\ b > 0) \/ (a < 0 /\ b < 0) THEN result + 1
      ELSE result - 1

divDown(a, b) ==
  LET result == div(a, b)
  IN  IF \/ a < 0 /\ b > 0 /\ mod(a, b) # 0
         \/ a > 0 /\ b < 0 /\ mod(a, -b) # 0
      THEN result - 1 ELSE result

=============================================================================
