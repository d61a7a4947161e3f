------------------------- MODULE LibraryProofs ----------------------------
(***************************************************************************)
(* What the fixed-point operators compute, for every PRECISE_UNIT: the     *)
(* facts about rounding on which the proofs of the components rest.        *)
(***************************************************************************)
EXTENDS PreciseUnitMath, AddressArrayUtils, TLAPS

\* Integer division by a positive number is the floor.
LEMMA DivFloor ==
    ASSUME NEW a \in Int, NEW b \in Nat \ {0}
    PROVE  /\ a \div b \in Int
           /\ (a \div b) * b <= a
           /\ a < (a \div b) * b + b
  OBVIOUS

\* Multiplication by a natural number is monotonic.
LEMMA MulMonotonic ==
    ASSUME NEW a \in Int, NEW b \in Int, NEW k \in Nat, a <= b
    PROVE  a * k <= b * k
  OBVIOUS

\* The floor is the only integer between those bounds.
LEMMA DivUnique ==
    ASSUME NEW a \in Int, NEW b \in Nat \ {0}, NEW q \in Int,
           q * b <= a, a < q * b + b
    PROVE  a \div b = q
  <1> DEFINE d == a \div b
  <1>1. d \in Int /\ d * b <= a /\ a < d * b + b
    BY DivFloor
  <1>2. ~(d < q)
    <2>1. ASSUME d < q PROVE FALSE
      <3>1. (d + 1) * b <= q * b
        BY <1>1, <2>1, MulMonotonic
      <3>2. (d + 1) * b = d * b + b
        BY <1>1
      <3> QED BY <1>1, <3>1, <3>2
    <2> QED BY <2>1
  <1>3. ~(q < d)
    <2>1. ASSUME q < d PROVE FALSE
      <3>1. (q + 1) * b <= d * b
        BY <1>1, <2>1, MulMonotonic
      <3>2. (q + 1) * b = q * b + b
        OBVIOUS
      <3> QED BY <1>1, <3>1, <3>2
    <2> QED BY <2>1
  <1> QED BY <1>1, <1>2, <1>3

\* divDown corrects the truncated division of the EVM to the floor.
LEMMA DivDownFloor ==
    ASSUME NEW a \in Int, NEW b \in Nat \ {0}
    PROVE  divDown(a, b) = a \div b
  <1>1. CASE a >= 0
    <2>1. sdiv(a, b) = a \div b
      BY <1>1 DEF sdiv, abs
    <2> QED BY <1>1, <2>1 DEF divDown
  <1>2. CASE a < 0
    <2> DEFINE q == (-a) \div b
    <2>1. q \in Int /\ q * b <= -a /\ -a < q * b + b
      BY DivFloor
    <2>2. sdiv(a, b) = -q
      BY <1>2 DEF sdiv, abs
    <2>3. (-q) * b = -(q * b) /\ (-q - 1) * b = -(q * b) - b
      BY <2>1
    <2>4. CASE a = (-q) * b
      <3>1. divDown(a, b) = -q
        BY <2>2, <2>4 DEF divDown
      <3> QED BY <2>1, <2>3, <2>4, <3>1, DivUnique
    <2>5. CASE a # (-q) * b
      <3>1. divDown(a, b) = -q - 1
        BY <1>2, <2>2, <2>5 DEF divDown
      <3> QED BY <2>1, <2>3, <2>5, <3>1, DivUnique
    <2> QED BY <2>4, <2>5
  <1> QED BY <1>1, <1>2

\* A conservative product is positive exactly from one PRECISE_UNIT on, and
\* negative exactly when the exact product is.
LEMMA ConservativeMulSign ==
    ASSUME NEW a \in Int, NEW b \in Int
    PROVE  /\ conservativePreciseMul(a, b) \in Int
           /\ conservativePreciseMul(a, b) > 0 <=> a * b >= PRECISE_UNIT
           /\ conservativePreciseMul(a, b) < 0 <=> a * b < 0
  <1> DEFINE q == (a * b) \div PRECISE_UNIT
  <1>1. a * b \in Int /\ PRECISE_UNIT \in Nat \ {0}
    BY PreciseUnitAssumption
  <1>2. conservativePreciseMul(a, b) = q
    BY <1>1, DivDownFloor DEF conservativePreciseMul
  <1>3. q \in Int /\ q * PRECISE_UNIT <= a * b
                  /\ a * b < q * PRECISE_UNIT + PRECISE_UNIT
    BY <1>1, DivFloor
  <1> HIDE DEF q
  <1>4. q > 0 <=> a * b >= PRECISE_UNIT
    <2>1. ASSUME q > 0 PROVE a * b >= PRECISE_UNIT
      <3>1. 1 * PRECISE_UNIT <= q * PRECISE_UNIT
        BY <1>1, <1>3, <2>1, MulMonotonic
      <3> QED BY <1>1, <1>3, <3>1
    <2>2. ASSUME ~(q > 0) PROVE a * b < PRECISE_UNIT
      <3>1. q * PRECISE_UNIT <= 0 * PRECISE_UNIT
        BY <1>1, <1>3, <2>2, MulMonotonic
      <3> QED BY <1>1, <1>3, <3>1
    <2> QED BY <1>1, <1>3, <2>1, <2>2
  <1>5. q < 0 <=> a * b < 0
    <2>1. ASSUME q < 0 PROVE a * b < 0
      <3>1. (q + 1) * PRECISE_UNIT <= 0 * PRECISE_UNIT
        BY <1>1, <1>3, <2>1, MulMonotonic
      <3>2. (q + 1) * PRECISE_UNIT = q * PRECISE_UNIT + PRECISE_UNIT
        BY <1>1, <1>3
      <3> QED BY <1>1, <1>3, <3>1, <3>2
    <2>2. ASSUME ~(q < 0) PROVE ~(a * b < 0)
      <3>1. 0 * PRECISE_UNIT <= q * PRECISE_UNIT
        BY <1>1, <1>3, <2>2, MulMonotonic
      <3> QED BY <1>1, <1>3, <3>1
    <2> QED BY <1>1, <1>3, <2>1, <2>2
  <1> QED BY <1>2, <1>3, <1>4, <1>5

\* A conservative quotient by a positive divisor has the sign of its
\* dividend, except that a positive one may become zero.
LEMMA ConservativeDivSign ==
    ASSUME NEW a \in Int, NEW b \in Nat \ {0}
    PROVE  /\ conservativePreciseDiv(a, b) \in Int
           /\ a = 0 => conservativePreciseDiv(a, b) = 0
           /\ a > 0 => conservativePreciseDiv(a, b) >= 0
           /\ a < 0 => conservativePreciseDiv(a, b) < 0
  <1> DEFINE x == a * PRECISE_UNIT
             q == x \div b
  <1>1. PRECISE_UNIT \in Nat \ {0} /\ x \in Int
    BY PreciseUnitAssumption
  <1>2. conservativePreciseDiv(a, b) = q
    BY <1>1, DivDownFloor DEF conservativePreciseDiv
  <1>3. q \in Int /\ q * b <= x /\ x < q * b + b
    BY <1>1, DivFloor
  <1>4. a = 0 => x = 0
    BY <1>1
  <1>5. a > 0 => x > 0
    BY <1>1
  <1>6. a < 0 => x < 0
    BY <1>1
  <1> HIDE DEF q, x
  <1>7. ASSUME x >= 0 PROVE q >= 0
    <2>1. ASSUME q < 0 PROVE FALSE
      <3>1. (q + 1) * b <= 0 * b
        BY <1>3, <2>1, MulMonotonic
      <3>2. (q + 1) * b = q * b + b
        BY <1>3
      <3> QED BY <1>1, <1>3, <1>7, <3>1, <3>2
    <2> QED BY <1>3, <2>1
  <1>8. ASSUME x <= 0 PROVE q <= 0
    <2>1. ASSUME q > 0 PROVE FALSE
      <3>1. 1 * b <= q * b
        BY <1>3, <2>1, MulMonotonic
      <3> QED BY <1>1, <1>3, <1>8, <3>1
    <2> QED BY <1>3, <2>1
  <1>9. x < 0 => q # 0
    BY <1>1, <1>3
  <1> QED BY <1>1, <1>2, <1>3, <1>4, <1>5, <1>6, <1>7, <1>8, <1>9

-----------------------------------------------------------------------------
\* Appending an absent element keeps an array free of duplicates.
LEMMA AppendAbsent ==
    ASSUME NEW S, NEW A \in Seq(S), NEW a \in S,
           ~hasDuplicate(A), ~contains(A, a)
    PROVE  /\ Append(A, a) \in Seq(S)
           /\ ~hasDuplicate(Append(A, a))
           /\ \A x : contains(Append(A, a), x) <=> contains(A, x) \/ x = a
           /\ Len(Append(A, a)) = Len(A) + 1
  <1> DEFINE B == Append(A, a)
  <1>1. B \in Seq(S) /\ Len(B) = Len(A) + 1 /\ DOMAIN B = 1..(Len(A) + 1)
    OBVIOUS
  <1>2. \A i \in 1..Len(A) : B[i] = A[i]
    OBVIOUS
  <1>3. B[Len(A) + 1] = a
    OBVIOUS
  <1>4. DOMAIN A = 1..Len(A) /\ Len(A) \in Nat
    OBVIOUS
  <1> HIDE DEF B
  <1>5. ~hasDuplicate(B)
    BY <1>1, <1>2, <1>3, <1>4 DEF hasDuplicate, contains
  <1>6. ASSUME NEW x PROVE contains(B, x) <=> contains(A, x) \/ x = a
    BY <1>1, <1>2, <1>3, <1>4 DEF contains
  <1> QED BY <1>1, <1>5, <1>6 DEF B

\* In an array without duplicates indexOf is the position of the element.
LEMMA IndexOfUnique ==
    ASSUME NEW S, NEW A \in Seq(S), NEW a, ~hasDuplicate(A), contains(A, a)
    PROVE  /\ indexOf(A, a) \in 1..Len(A)
           /\ A[indexOf(A, a)] = a
           /\ \A j \in 1..Len(A) : A[j] = a => j = indexOf(A, a)
  <1>1. DOMAIN A = 1..Len(A) /\ Len(A) \in Nat
    OBVIOUS
  <1>2. PICK i \in 1..Len(A) : A[i] = a
    BY <1>1 DEF contains
  <1>3. \A j \in 1..Len(A) : A[j] = a => j = i
    BY <1>1, <1>2 DEF hasDuplicate
  <1>4. \A j \in 1..(i - 1) : A[j] # a
    BY <1>1, <1>2, <1>3
  <1>5. \E k \in DOMAIN A : A[k] = a /\ \A j \in 1..(k - 1) : A[j] # a
    BY <1>1, <1>2, <1>4
  <1>6. indexOf(A, a) \in DOMAIN A /\ A[indexOf(A, a)] = a
    BY <1>5 DEF indexOf
  <1> QED BY <1>1, <1>3, <1>6

\* removeStorage removes exactly the element and brings in no duplicate,
\* although it moves the last element.
LEMMA RemoveStorageExact ==
    ASSUME NEW S, NEW A \in Seq(S), NEW a, ~hasDuplicate(A), contains(A, a)
    PROVE  /\ removeStorage(A, a) \in Seq(S)
           /\ ~hasDuplicate(removeStorage(A, a))
           /\ \A x : contains(removeStorage(A, a), x) <=> contains(A, x) /\ x # a
           /\ Len(removeStorage(A, a)) = Len(A) - 1
  <1> DEFINE i == indexOf(A, a)
             n == Len(A)
             B == removeStorage(A, a)
  <1>1. DOMAIN A = 1..n /\ n \in Nat /\ \A k \in 1..n : A[k] \in S
    OBVIOUS
  <1>2. i \in 1..n /\ A[i] = a /\ \A j \in 1..n : A[j] = a => j = i
    BY IndexOfUnique
  <1>3. n - 1 \in Nat
    BY <1>1, <1>2
  <1>4. B = [k \in 1..(n - 1) |-> IF k = i THEN A[n] ELSE A[k]]
    BY DEF removeStorage
  <1>5. B \in Seq(S) /\ Len(B) = n - 1 /\ DOMAIN B = 1..(n - 1)
    BY <1>1, <1>2, <1>3, <1>4
  <1>6. \A k \in 1..(n - 1) : B[k] = IF k = i THEN A[n] ELSE A[k]
    BY <1>4
  <1> HIDE DEF i, n, B
  <1>7. \A j, k \in 1..n : j # k => A[j] # A[k]
    <2>1. DOMAIN A = 1..n /\ ~hasDuplicate(A)
      BY <1>1
    <2> QED BY <1>1, <2>1 DEF hasDuplicate
  <1>8. ~hasDuplicate(B)
    BY <1>1, <1>2, <1>3, <1>5, <1>6, <1>7 DEF hasDuplicate
  <1>9. ASSUME NEW x PROVE contains(B, x) <=> contains(A, x) /\ x # a
    <2>1. ASSUME contains(B, x) PROVE contains(A, x) /\ x # a
      <3>1. PICK k \in 1..(n - 1) : B[k] = x
        BY <1>5, <2>1 DEF contains
      <3> QED BY <1>1, <1>2, <1>3, <1>6, <3>1 DEF contains
    <2>2. ASSUME contains(A, x), x # a PROVE contains(B, x)
      <3>1. PICK k \in 1..n : A[k] = x
        BY <1>1, <2>2 DEF contains
      <3>2. k # i
        BY <1>2, <2>2, <3>1
      <3>3. CASE k = n
        <4>1. i \in 1..(n - 1)
          BY <1>1, <1>2, <3>2, <3>3
        <4> QED BY <1>5, <1>6, <3>1, <3>3, <4>1 DEF contains
      <3>4. CASE k # n
        <4>1. k \in 1..(n - 1)
          BY <1>1, <3>1, <3>4
        <4> QED BY <1>5, <1>6, <3>1, <3>2, <4>1 DEF contains
      <3> QED BY <3>3, <3>4
    <2> QED BY <2>1, <2>2
  <1> QED BY <1>5, <1>8, <1>9 DEF B, n

\* The order-preserving remove does the same.
LEMMA RemoveExact ==
    ASSUME NEW S, NEW A \in Seq(S), NEW a, ~hasDuplicate(A), contains(A, a)
    PROVE  /\ remove(A, a) \in Seq(S)
           /\ ~hasDuplicate(remove(A, a))
           /\ \A x : contains(remove(A, a), x) <=> contains(A, x) /\ x # a
  <1> DEFINE i == indexOf(A, a)
             n == Len(A)
             B == remove(A, a)
  <1>1. DOMAIN A = 1..n /\ n \in Nat /\ \A k \in 1..n : A[k] \in S
    OBVIOUS
  <1>2. i \in 1..n /\ A[i] = a /\ \A j \in 1..n : A[j] = a => j = i
    BY IndexOfUnique
  <1>3. n - 1 \in Nat
    BY <1>1, <1>2
  <1>4. B = [k \in 1..(n - 1) |-> IF k < i THEN A[k] ELSE A[k + 1]]
    BY DEF remove, pop
  <1>5. B \in Seq(S) /\ DOMAIN B = 1..(n - 1)
    BY <1>1, <1>2, <1>3, <1>4
  <1>6. \A k \in 1..(n - 1) : B[k] = IF k < i THEN A[k] ELSE A[k + 1]
    BY <1>4
  <1> HIDE DEF i, n, B
  <1>7. \A j, k \in 1..n : j # k => A[j] # A[k]
    <2>1. DOMAIN A = 1..n /\ ~hasDuplicate(A)
      BY <1>1
    <2> QED BY <1>1, <2>1 DEF hasDuplicate
  <1>8. ~hasDuplicate(B)
    <2> SUFFICES ASSUME NEW j \in 1..(n - 1), NEW k \in 1..(n - 1), j < k
                 PROVE  B[j] # B[k]
      BY <1>5 DEF hasDuplicate
    <2> QED BY <1>1, <1>2, <1>3, <1>6, <1>7
  <1>9. ASSUME NEW x PROVE contains(B, x) <=> contains(A, x) /\ x # a
    <2>1. ASSUME contains(B, x) PROVE contains(A, x) /\ x # a
      <3>1. PICK k \in 1..(n - 1) : B[k] = x
        BY <1>5, <2>1 DEF contains
      <3> QED BY <1>1, <1>2, <1>3, <1>6, <3>1 DEF contains
    <2>2. ASSUME contains(A, x), x # a PROVE contains(B, x)
      <3>1. PICK k \in 1..n : A[k] = x
        BY <1>1, <2>2 DEF contains
      <3>2. k # i
        BY <1>2, <2>2, <3>1
      <3>3. CASE k < i
        <4>1. k \in 1..(n - 1) /\ B[k] = x
          BY <1>1, <1>2, <1>6, <3>1, <3>3
        <4> QED BY <1>5, <4>1 DEF contains
      <3>4. CASE k > i
        <4>1. k - 1 \in 1..(n - 1) /\ B[k - 1] = x
          BY <1>1, <1>2, <1>6, <3>1, <3>4
        <4> QED BY <1>5, <4>1 DEF contains
      <3> QED BY <1>1, <1>2, <3>1, <3>2, <3>3, <3>4
    <2> QED BY <2>1, <2>2
  <1> QED BY <1>5, <1>8, <1>9 DEF B

=============================================================================
