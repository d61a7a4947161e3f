-------------------------- MODULE StakedFundProofs --------------------------
(***************************************************************************)
(* The two records of a stake agree, and tokens and stakes back positions, *)
(* while no streaming fee is charged: for every set of components and of   *)
(* staking contracts, every rounding and every order of calls.             *)
(***************************************************************************)
EXTENDS StakedFund, PositionBookProofs, FiniteSetTheorems

\* An element of a non-empty set, the one a sum takes first.
Pick(s) == CHOOSE x \in s : TRUE

\* One step of the recursion a sum is defined by.
SumStep(h, f, s) == IF s = {} THEN 0 ELSE f[Pick(s)] + h[s \ {Pick(s)}]

\* The sums of f over the subsets of D.
Sums(f, D) == CHOOSE h : h = [s \in SUBSET D |-> SumStep(h, f, s)]

LEMMA SumAmongSums ==
    ASSUME NEW f
    PROVE  SumFunction(f) = Sums(f, DOMAIN f)[DOMAIN f]
  BY DEF SumFunction, SumFunctionOnSet, FoldFunctionOnSet, MapThenFoldSet, Pick, SumStep, Sums

\* Taking the first element leaves one element less.
LEMMA PickRemoved ==
    ASSUME NEW D, IsFiniteSet(D), NEW s \in SUBSET D
    PROVE  /\ Cardinality(s) \in Nat
           /\ s # {} => /\ Pick(s) \in s
                        /\ s \ {Pick(s)} \in SUBSET D
                        /\ Cardinality(s \ {Pick(s)}) = Cardinality(s) - 1
  <1>1. IsFiniteSet(s)
    BY FS_Subset
  <1>2. s # {} => Pick(s) \in s
    BY DEF Pick
  <1>3. Cardinality(s) \in Nat
    BY <1>1, FS_CardinalityType
  <1>4. s # {} => Cardinality(s \ {Pick(s)}) = Cardinality(s) - 1
    BY <1>1, <1>2, FS_RemoveElement
  <1> QED BY <1>2, <1>3, <1>4

\* What holds of the empty set, and of a set when it holds without its first
\* element, holds of all subsets of a finite set.
LEMMA SubsetInduction ==
    ASSUME NEW D, IsFiniteSet(D), NEW P \in SUBSET SUBSET D, {} \in P,
           \A s \in SUBSET D : s # {} /\ s \ {Pick(s)} \in P => s \in P
    PROVE  SUBSET D = P
  <1> DEFINE Sizes == {n \in Nat : \E s \in SUBSET D : s \notin P /\ Cardinality(s) = n}
  <1>1. ASSUME Sizes # {} PROVE FALSE
    <2>1. PICK n \in Sizes : \A m \in Sizes : n <= m
      BY <1>1, LeastNatural
    <2>2. PICK s \in SUBSET D : s \notin P /\ Cardinality(s) = n
      BY <2>1
    <2>3. s # {}
      BY <2>2
    <2>4. s \ {Pick(s)} \in SUBSET D /\ s \ {Pick(s)} \notin P
      BY <2>2, <2>3
    <2>5. Cardinality(s \ {Pick(s)}) = n - 1
      BY <2>2, <2>3, PickRemoved
    <2>6. Cardinality(s \ {Pick(s)}) \in Nat
      <3>1. IsFiniteSet(s \ {Pick(s)})
        BY <2>4, FS_Subset
      <3> QED BY <3>1, FS_CardinalityType
    <2>7. n - 1 \in Sizes
      BY <2>4, <2>5, <2>6
    <2> QED BY <2>1, <2>7
  <1>2. ASSUME NEW s \in SUBSET D PROVE s \in P
    <2>1. Cardinality(s) \in Nat
      BY PickRemoved
    <2> QED BY <1>1, <2>1
  <1> QED BY <1>2

\* The recursion is well founded.
LEMMA SumsDefined ==
    ASSUME NEW D, IsFiniteSet(D), NEW f
    PROVE  Sums(f, D) = [s \in SUBSET D |-> SumStep(Sums(f, D), f, s)]
  <1> DEFINE Small(n) == {s \in SUBSET D : Cardinality(s) <= n}
             Summing(h, n) == [s \in Small(n) |-> SumStep(h, f, s)]
             Undefined == {n \in Nat : \A h : h # Summing(h, n)}
  <1>1. ASSUME NEW g, NEW h, NEW s,
               s # {} => g[s \ {Pick(s)}] = h[s \ {Pick(s)}]
        PROVE  SumStep(g, f, s) = SumStep(h, f, s)
    BY <1>1 DEF SumStep
  <1>2. ASSUME NEW n \in Nat, NEW h, h = Summing(h, n)
        PROVE  \E g : g = Summing(g, n + 1)
    <2> DEFINE g == [s \in Small(n + 1) |-> SumStep(h, f, s)]
    <2>1. ASSUME NEW s \in Small(n + 1)
          PROVE  g[s] = SumStep(g, f, s)
      <3>1. s # {} => s \ {Pick(s)} \in Small(n) /\ s \ {Pick(s)} \in Small(n + 1)
        BY PickRemoved
      <3>2. ASSUME NEW t \in Small(n), t \in Small(n + 1) PROVE g[t] = h[t]
        BY <1>2, <3>2
      <3>3. SumStep(g, f, s) = SumStep(h, f, s)
        <4> HIDE DEF g, Small, Summing
        <4> QED BY <1>1, <3>1, <3>2
      <3> QED BY <3>3
    <2> QED BY <2>1
  <1>3. Undefined = {}
    <2> SUFFICES ASSUME Undefined # {} PROVE FALSE
      OBVIOUS
    <2>1. PICK m \in Undefined : \A k \in Undefined : m <= k
      BY LeastNatural
    <2>2. m \in Nat /\ \A h : h # Summing(h, m)
      BY <2>1
    <2>3. CASE m = 0
      <3> DEFINE g == [s \in Small(m) |-> 0]
      <3>1. ASSUME NEW s \in Small(m) PROVE s = {}
        <4>1. s \in SUBSET D /\ IsFiniteSet(s)
          BY FS_Subset
        <4>2. Cardinality(s) = 0
          BY <2>3, <4>1, FS_CardinalityType
        <4> QED BY <4>1, <4>2, FS_EmptySet
      <3>2. g = Summing(g, m)
        BY <3>1 DEF SumStep
      <3> QED BY <2>2, <3>2
    <2>4. CASE m # 0
      <3>1. m - 1 \in Nat /\ ~(m <= m - 1) /\ (m - 1) + 1 = m
        BY <2>2, <2>4
      <3>2. PICK h : h = Summing(h, m - 1)
        <4> HIDE DEF Summing
        <4> QED BY <2>1, <3>1
      <3> HIDE DEF Summing
      <3> QED BY <1>2, <2>2, <3>1, <3>2
    <2> QED BY <2>3, <2>4
  <1>4. Cardinality(D) \in Nat
    BY FS_CardinalityType
  <1>5. Small(Cardinality(D)) = SUBSET D
    BY FS_Subset
  <1>6. PICK h : h = Summing(h, Cardinality(D))
    BY <1>3, <1>4
  <1>7. h = [s \in SUBSET D |-> SumStep(h, f, s)]
    BY <1>5, <1>6
  <1> QED BY <1>7 DEF Sums

\* A sum over nothing is zero; a sum over something is its first summand and
\* the sum over the rest.
LEMMA SumsUnfold ==
    ASSUME NEW D, IsFiniteSet(D), NEW f, NEW s \in SUBSET D
    PROVE  /\ s = {} => Sums(f, D)[s] = 0
           /\ s # {} => Sums(f, D)[s] = f[Pick(s)] + Sums(f, D)[s \ {Pick(s)}]
  <1>1. Sums(f, D)[s] = SumStep(Sums(f, D), f, s)
    <2> DEFINE h == Sums(f, D)
    <2>1. h = [t \in SUBSET D |-> SumStep(h, f, t)]
      BY SumsDefined
    <2> HIDE DEF h
    <2>2. h[s] = SumStep(h, f, s)
      BY <2>1
    <2> QED BY <2>2 DEF h
  <1> QED BY <1>1 DEF SumStep

LEMMA SumsEmpty ==
    ASSUME NEW D, IsFiniteSet(D), NEW f
    PROVE  Sums(f, D)[{}] = 0
  <1>1. {} \in SUBSET D
    OBVIOUS
  <1> QED BY <1>1, SumsUnfold

LEMMA SumsPick ==
    ASSUME NEW D, IsFiniteSet(D), NEW f, NEW s \in SUBSET D, s # {}
    PROVE  Sums(f, D)[s] = f[Pick(s)] + Sums(f, D)[s \ {Pick(s)}]
  BY SumsUnfold

\* The sums of integers are integers.
LEMMA SumsInt ==
    ASSUME NEW D, IsFiniteSet(D), NEW f \in [D -> Int], NEW s \in SUBSET D
    PROVE  Sums(f, D)[s] \in Int
  <1> DEFINE P == {t \in SUBSET D : Sums(f, D)[t] \in Int}
  <1>1. {} \in P
    BY SumsEmpty
  <1>2. ASSUME NEW t \in SUBSET D, t # {}, t \ {Pick(t)} \in P PROVE t \in P
    <2>1. f[Pick(t)] \in Int
      BY <1>2 DEF Pick
    <2>2. Sums(f, D)[t] = f[Pick(t)] + Sums(f, D)[t \ {Pick(t)}]
      BY <1>2, SumsPick
    <2> QED BY <1>2, <2>1, <2>2
  <1> HIDE DEF P
  <1>3. P \in SUBSET SUBSET D
    BY DEF P
  <1>4. SUBSET D = P
    BY <1>1, <1>2, <1>3, SubsetInduction
  <1> QED BY <1>4 DEF P

LEMMA SumInt ==
    ASSUME NEW D, IsFiniteSet(D), NEW f \in [D -> Int]
    PROVE  SumFunction(f) \in Int
  <1>1. DOMAIN f = D
    OBVIOUS
  <1> QED BY <1>1, SumAmongSums, SumsInt

\* A sum is linear in its summands.
LEMMA SumLinear ==
    ASSUME NEW D, IsFiniteSet(D), NEW a \in Int,
           NEW f \in [D -> Int], NEW g \in [D -> Int], NEW h \in [D -> Int],
           \A x \in D : h[x] = a * f[x] + g[x]
    PROVE  SumFunction(h) = a * SumFunction(f) + SumFunction(g)
  <1> DEFINE F == Sums(f, D)
             G == Sums(g, D)
             H == Sums(h, D)
             P == {s \in SUBSET D : H[s] = a * F[s] + G[s]}
  <1>1. {} \in P
    BY SumsEmpty
  <1>2. ASSUME NEW s \in SUBSET D, s # {}, s \ {Pick(s)} \in P PROVE s \in P
    <2> DEFINE x == Pick(s)
               t == s \ {x}
    <2>1. x \in D /\ t \in SUBSET D
      BY <1>2 DEF Pick
    <2>2. F[s] = f[x] + F[t]
      BY <1>2, SumsPick
    <2>3. G[s] = g[x] + G[t]
      BY <1>2, SumsPick
    <2>4. H[s] = h[x] + H[t]
      BY <1>2, SumsPick
    <2>5. H[t] = a * F[t] + G[t]
      BY <1>2
    <2>6. F[t] \in Int /\ G[t] \in Int
      BY <2>1, SumsInt
    <2>7. f[x] \in Int /\ g[x] \in Int /\ h[x] = a * f[x] + g[x]
      BY <2>1
    <2> HIDE DEF x, t, F, G, H
    <2>8. a * (f[x] + F[t]) = a * f[x] + a * F[t]
      BY <2>6, <2>7
    <2>9. a * f[x] \in Int /\ a * F[t] \in Int
      BY <2>6, <2>7
    <2>10. H[s] = a * F[s] + G[s]
      BY <2>2, <2>3, <2>4, <2>5, <2>6, <2>7, <2>8, <2>9
    <2> QED BY <2>10
  <1> HIDE DEF P, F, G, H
  <1>3. P \in SUBSET SUBSET D
    BY DEF P
  <1>4. \A s \in SUBSET D : s # {} /\ s \ {Pick(s)} \in P => s \in P
    BY <1>2
  <1>5. SUBSET D = P
    BY <1>1, <1>3, <1>4, SubsetInduction, ZenonT(30)
  <1>6. H[D] = a * F[D] + G[D]
    BY <1>5 DEF P
  <1>7. DOMAIN f = D /\ DOMAIN g = D /\ DOMAIN h = D
    OBVIOUS
  <1> QED BY <1>6, <1>7, SumAmongSums DEF F, G, H

\* A sum is monotonic in its summands.
LEMMA SumMonotonic ==
    ASSUME NEW D, IsFiniteSet(D), NEW f \in [D -> Int], NEW g \in [D -> Int],
           \A x \in D : f[x] <= g[x]
    PROVE  SumFunction(f) <= SumFunction(g)
  <1> DEFINE F == Sums(f, D)
             G == Sums(g, D)
             P == {s \in SUBSET D : F[s] <= G[s]}
  <1>1. {} \in P
    BY SumsEmpty
  <1>2. ASSUME NEW s \in SUBSET D, s # {}, s \ {Pick(s)} \in P PROVE s \in P
    <2> DEFINE x == Pick(s)
               t == s \ {x}
    <2>1. x \in D /\ t \in SUBSET D
      BY <1>2 DEF Pick
    <2>2. F[s] = f[x] + F[t]
      BY <1>2, SumsPick
    <2>3. G[s] = g[x] + G[t]
      BY <1>2, SumsPick
    <2>4. F[t] <= G[t] /\ F[t] \in Int /\ G[t] \in Int
      BY <1>2, <2>1, SumsInt
    <2>5. f[x] \in Int /\ g[x] \in Int /\ f[x] <= g[x]
      BY <2>1
    <2> HIDE DEF x, t, F, G
    <2> QED BY <2>2, <2>3, <2>4, <2>5
  <1> HIDE DEF P
  <1>3. P \in SUBSET SUBSET D
    BY DEF P
  <1>4. SUBSET D = P
    BY <1>1, <1>2, <1>3, SubsetInduction
  <1>5. F[D] <= G[D]
    BY <1>4 DEF P
  <1>6. DOMAIN f = D /\ DOMAIN g = D
    OBVIOUS
  <1> QED BY <1>5, <1>6, SumAmongSums

\* With one summand that is not zero the sum is that one.
LEMMA SumSingle ==
    ASSUME NEW D, IsFiniteSet(D), NEW x \in D, NEW v \in Int,
           NEW f \in [D -> Int], \A y \in D : f[y] = IF y = x THEN v ELSE 0
    PROVE  SumFunction(f) = v
  <1> DEFINE F == Sums(f, D)
             P == {s \in SUBSET D : F[s] = IF x \in s THEN v ELSE 0}
  <1>1. {} \in P
    BY SumsEmpty
  <1>2. ASSUME NEW s \in SUBSET D, s # {}, s \ {Pick(s)} \in P PROVE s \in P
    <2> DEFINE y == Pick(s)
               t == s \ {y}
    <2>1. y \in s
      BY <1>2 DEF Pick
    <2>2. F[s] = f[y] + F[t]
      BY <1>2, SumsPick
    <2>3. F[t] = IF x \in t THEN v ELSE 0
      BY <1>2
    <2>4. f[y] = IF y = x THEN v ELSE 0
      BY <2>1
    <2>5. x \in t <=> x \in s /\ x # y
      OBVIOUS
    <2> HIDE DEF y, t, F
    <2>6. F[s] = IF x \in s THEN v ELSE 0
      BY <2>1, <2>2, <2>3, <2>4, <2>5
    <2> QED BY <2>6
  <1> HIDE DEF P
  <1>3. P \in SUBSET SUBSET D
    BY DEF P
  <1>4. SUBSET D = P
    BY <1>1, <1>2, <1>3, SubsetInduction
  <1>5. F[D] = v
    BY <1>4 DEF P
  <1>6. DOMAIN f = D
    OBVIOUS
  <1> QED BY <1>5, <1>6, SumAmongSums

\* Changing one summand moves the sum by as much.
LEMMA SumChange ==
    ASSUME NEW D, IsFiniteSet(D), NEW f \in [D -> Int], NEW g \in [D -> Int],
           NEW x \in D, \A y \in D \ {x} : g[y] = f[y]
    PROVE  SumFunction(g) = SumFunction(f) + (g[x] - f[x])
  <1> DEFINE d == g[x] - f[x]
             e == [y \in D |-> IF y = x THEN d ELSE 0]
  <1>1. d \in Int /\ f[x] \in Int /\ g[x] = f[x] + d
    OBVIOUS
  <1>2. e \in [D -> Int] /\ \A y \in D : e[y] = IF y = x THEN d ELSE 0
    OBVIOUS
  <1> HIDE DEF d, e
  <1>3. SumFunction(e) = d
    BY <1>1, <1>2, SumSingle
  <1>4. \A y \in D : g[y] = 1 * e[y] + f[y]
    BY <1>1, <1>2
  <1>5. SumFunction(g) = 1 * SumFunction(e) + SumFunction(f)
    BY <1>2, <1>4, SumLinear
  <1>6. SumFunction(f) \in Int
    BY SumInt
  <1>7. SumFunction(g) = SumFunction(f) + d
    BY <1>1, <1>3, <1>5, <1>6
  <1> QED BY <1>7 DEF d

\* A sum of zeros is zero.
LEMMA SumZero ==
    ASSUME NEW D, IsFiniteSet(D), NEW f \in [D -> Int], \A x \in D : f[x] = 0
    PROVE  SumFunction(f) = 0
  <1> DEFINE sum == SumFunction(f)
  <1>1. sum \in Int
    BY SumInt
  <1>2. sum = 1 * sum + sum
    BY SumLinear
  <1> HIDE DEF sum
  <1>3. sum = 0
    BY <1>1, <1>2
  <1> QED BY <1>3 DEF sum

\* A sum of natural numbers is at least each of them.
LEMMA SumNat ==
    ASSUME NEW D, IsFiniteSet(D), NEW f \in [D -> Nat]
    PROVE  /\ SumFunction(f) \in Nat
           /\ \A x \in D : f[x] <= SumFunction(f)
  <1> DEFINE zero == [y \in D |-> 0]
  <1>1. f \in [D -> Int] /\ zero \in [D -> Int]
    OBVIOUS
  <1>2. SumFunction(f) \in Int
    BY <1>1, SumInt
  <1>3. SumFunction(zero) = 0
    BY <1>1, SumZero
  <1>4. SumFunction(zero) <= SumFunction(f)
    BY <1>1, SumMonotonic
  <1>5. ASSUME NEW x \in D PROVE f[x] <= SumFunction(f)
    <2> DEFINE one == [y \in D |-> IF y = x THEN f[x] ELSE 0]
    <2>1. one \in [D -> Int] /\ \A y \in D : one[y] = IF y = x THEN f[x] ELSE 0
      OBVIOUS
    <2>2. \A y \in D : one[y] <= f[y]
      BY <2>1
    <2> HIDE DEF one
    <2>3. f[x] \in Int
      OBVIOUS
    <2>4. SumFunction(one) = f[x]
      BY <2>1, <2>3, SumSingle
    <2>5. SumFunction(one) <= SumFunction(f)
      BY <1>1, <2>1, <2>2, SumMonotonic
    <2> QED BY <2>4, <2>5
  <1> QED BY <1>2, <1>3, <1>4, <1>5

-----------------------------------------------------------------------------
\* While the multiplier is one, virtual units are real units.
AtParity(p) == p.positionMultiplier = PRECISE_UNIT

LEMMA ParityUnits ==
    ASSUME NEW p, AtParity(p), NEW u \in Int
    PROVE  /\ convertVirtualToRealUnit(p, u) = u
           /\ convertRealToVirtualUnit(p, u) = {u}
  <1>1. PRECISE_UNIT \in Nat \ {0} /\ u * PRECISE_UNIT \in Int
    BY PreciseUnitAssumption
  <1>2. (u * PRECISE_UNIT) \div PRECISE_UNIT = u
    BY <1>1, DivUnique
  <1>3. divDown(u * PRECISE_UNIT, PRECISE_UNIT) = u
    BY <1>1, <1>2, DivDownFloor
  <1>4. convertVirtualToRealUnit(p, u) = u
    BY <1>3 DEF AtParity, convertVirtualToRealUnit, conservativePreciseMul
  <1>5. conservativePreciseDiv(u, p.positionMultiplier) = u
    BY <1>3 DEF AtParity, conservativePreciseDiv
  <1> QED BY <1>4, <1>5 DEF convertRealToVirtualUnit, require

\* The types of a storage's fields, taken apart.
LEMMA StorageFields ==
    ASSUME NEW p, StorageOK(p), NEW c \in Components, NEW m \in Modules
    PROVE  /\ p.virtualUnit[c] \in Int
           /\ p.externalPositions[c][m].virtualUnit \in Int
           /\ p.externalPositionModules[c] \in Seq(Modules)
           /\ ~hasDuplicate(p.externalPositionModules[c])
  <1>1. p \in StorageType
    BY DEF StorageOK
  <1>2. /\ p.virtualUnit \in [Components -> Int]
        /\ p.externalPositions \in [Components -> [Modules -> [virtualUnit : Int, data : Data]]]
        /\ p.externalPositionModules \in [Components -> Seq(Modules)]
    BY <1>1 DEF StorageType
  <1>3. ~hasDuplicate(p.externalPositionModules[c])
    BY DEF StorageOK, ComponentsTrackedIn
  <1> QED BY <1>2, <1>3

LEMMA ParityPositions ==
    ASSUME NEW p, StorageOK(p), AtParity(p), NEW c \in Components, NEW m \in Modules
    PROVE  /\ getDefaultPositionRealUnit(p, c) = p.virtualUnit[c]
           /\ getExternalPositionRealUnit(p, c, m) = p.externalPositions[c][m].virtualUnit
  <1>1. /\ p.virtualUnit[c] \in Int
        /\ p.externalPositions[c][m].virtualUnit \in Int
    BY StorageFields
  <1> QED BY <1>1, ParityUnits DEF getDefaultPositionRealUnit, getExternalPositionRealUnit

\* The edit of a default position changes this unit alone.
LEMMA DefaultEdited ==
    ASSUME NEW p, StorageOK(p), AtParity(p), NEW c \in Components,
           NEW u \in Nat, NEW q \in editDefaultPosition(p, c, u)
    PROVE  /\ AtParity(q)
           /\ q.virtualUnit = [p.virtualUnit EXCEPT ![c] = u]
           /\ q.externalPositions = p.externalPositions
           /\ q.externalPositionModules = p.externalPositionModules
  <1>1. p \in StorageType
    BY DEF StorageOK
  <1>2. PICK t : /\ q \in editDefaultPositionUnit(t, c, u)
                 /\ t \in addComponent(p, c) \/ t \in removeComponent(p, c) \/ t = p
    BY DEF editDefaultPosition, Then
  <1>3. \E A : t = [p EXCEPT !.components = A]
    BY <1>1, <1>2 DEF addComponent, removeComponent, require, StorageType
  <1>4. /\ t.virtualUnit = p.virtualUnit
        /\ t.externalPositions = p.externalPositions
        /\ t.externalPositionModules = p.externalPositionModules
        /\ t.positionMultiplier = p.positionMultiplier
        /\ \E A : t = [p EXCEPT !.components = A]
    BY <1>1, <1>3 DEF StorageType
  <1>5. AtParity(t)
    BY <1>4 DEF AtParity
  <1>6. q = [t EXCEPT !.virtualUnit[c] = u]
    BY <1>2, <1>5, ParityUnits DEF editDefaultPositionUnit
  <1>7. /\ q.positionMultiplier = p.positionMultiplier
        /\ q.virtualUnit = [p.virtualUnit EXCEPT ![c] = u]
        /\ q.externalPositions = p.externalPositions
        /\ q.externalPositionModules = p.externalPositionModules
    BY <1>1, <1>4, <1>6 DEF StorageType
  <1> QED BY <1>7 DEF AtParity

\* What the edit of an external position changes: its unit, and whether its
\* module is listed.
ExternalChanged(p, q, c, m, u) ==
    /\ AtParity(q)
    /\ q.virtualUnit = p.virtualUnit
    /\ \A d \in Components, n \in Modules :
         /\ q.externalPositions[d][n].virtualUnit =
              IF d = c /\ n = m THEN u ELSE p.externalPositions[d][n].virtualUnit
         /\ isExternalPositionModule(q, d, n) =>
              isExternalPositionModule(p, d, n) \/ (d = c /\ n = m)

LEMMA ExternalSet ==
    ASSUME NEW p, StorageOK(p), AtParity(p), NEW c \in Components, NEW m \in Modules,
           NEW u \in Int, NEW e \in Data, NEW q \in setExternalPosition(p, c, m, u, e)
    PROVE  ExternalChanged(p, q, c, m, u)
  <1> DEFINE tracked ==
                IF ~isComponent(p, c)
                THEN UNION {addExternalPositionModule(r, c, m) : r \in addComponent(p, c)}
                ELSE IF ~isExternalPositionModule(p, c, m)
                     THEN addExternalPositionModule(p, c, m)
                     ELSE {p}
  <1>1. PICK t \in tracked : \E s \in editExternalPositionUnit(t, c, m, u) :
                                q \in editExternalPositionData(s, c, m, e)
    <2>1. q \in UNION {editExternalPositionData(s, c, m, e) :
                s \in UNION {editExternalPositionUnit(t, c, m, u) : t \in tracked}}
      BY DEF setExternalPosition, Then
    <2> HIDE DEF tracked
    <2> QED BY <2>1
  <1>2. p \in StorageType
    BY DEF StorageOK
  <1>3. \/ \E A : t = [p EXCEPT !.components = A,
                                !.externalPositionModules[c] = Append(@, m)]
        \/ t = p
    <2>1. CASE ~isComponent(p, c)
      <3>1. PICK r \in addComponent(p, c) : t \in addExternalPositionModule(r, c, m)
        BY <1>1, <2>1
      <3>2. r = [p EXCEPT !.components = Append(p.components, c)]
        BY <3>1 DEF addComponent, require
      <3>3. t = [r EXCEPT !.externalPositionModules[c] = Append(@, m)]
        BY <3>1 DEF addExternalPositionModule, require
      <3>4. t = [p EXCEPT !.components = Append(p.components, c),
                          !.externalPositionModules[c] = Append(@, m)]
        BY <1>2, <3>2, <3>3 DEF StorageType
      <3> QED BY <3>4
    <2>2. CASE isComponent(p, c) /\ ~isExternalPositionModule(p, c, m)
      <3>1. t = [p EXCEPT !.externalPositionModules[c] = Append(@, m)]
        BY <1>1, <2>2 DEF addExternalPositionModule, require
      <3>2. t = [p EXCEPT !.components = p.components,
                          !.externalPositionModules[c] = Append(@, m)]
        BY <1>2, <3>1 DEF StorageType
      <3> QED BY <3>2
    <2>3. CASE isComponent(p, c) /\ isExternalPositionModule(p, c, m)
      BY <1>1, <2>3
    <2> QED BY <2>1, <2>2, <2>3
  <1>4. PICK A, X : /\ t = [p EXCEPT !.components = A, !.externalPositionModules = X]
                    /\ \/ X = [p.externalPositionModules EXCEPT ![c] = Append(@, m)]
                       \/ X = p.externalPositionModules
    <2>1. CASE t = p
      <3>1. t = [p EXCEPT !.components = p.components,
                          !.externalPositionModules = p.externalPositionModules]
        BY <1>2, <2>1 DEF StorageType
      <3> QED BY <3>1
    <2>2. CASE \E A : t = [p EXCEPT !.components = A,
                                    !.externalPositionModules[c] = Append(@, m)]
      <3> DEFINE X == [p.externalPositionModules EXCEPT ![c] = Append(@, m)]
      <3>1. PICK A : t = [p EXCEPT !.components = A, !.externalPositionModules = X]
        BY <2>2
      <3>2. X = [p.externalPositionModules EXCEPT ![c] = Append(@, m)]
        OBVIOUS
      <3> HIDE DEF X
      <3> QED BY <3>1, <3>2
    <2> QED BY <1>3, <2>1, <2>2
  <1>5. /\ t.virtualUnit = p.virtualUnit
        /\ t.externalPositions = p.externalPositions
        /\ t.externalPositionModules = X
        /\ AtParity(t)
    BY <1>2, <1>4 DEF StorageType, AtParity
  <1>6. PICK s \in editExternalPositionUnit(t, c, m, u) :
            q \in editExternalPositionData(s, c, m, e)
    BY <1>1
  <1>7. s = [t EXCEPT !.externalPositions[c][m].virtualUnit = u]
    BY <1>5, <1>6, ParityUnits DEF editExternalPositionUnit
  <1>8. q = [s EXCEPT !.externalPositions[c][m].data = e]
    BY <1>6 DEF editExternalPositionData
  <1>9. p.externalPositions \in [Components -> [Modules -> [virtualUnit : Int, data : Data]]]
    BY <1>2 DEF StorageType
  <1>10. /\ s.virtualUnit = p.virtualUnit
         /\ s.positionMultiplier = p.positionMultiplier
         /\ s.externalPositionModules = t.externalPositionModules
         /\ s.externalPositions =
              [p.externalPositions EXCEPT ![c][m].virtualUnit = u]
         /\ \E Y : s = [p EXCEPT !.components = A, !.externalPositionModules = X,
                                 !.externalPositions = Y]
    BY <1>2, <1>4, <1>5, <1>7 DEF StorageType
  <1>11. /\ q.virtualUnit = p.virtualUnit
         /\ q.positionMultiplier = p.positionMultiplier
         /\ q.externalPositionModules = t.externalPositionModules
         /\ q.externalPositions = [s.externalPositions EXCEPT ![c][m].data = e]
    BY <1>2, <1>8, <1>10 DEF StorageType
  <1>12. ASSUME NEW d \in Components, NEW n \in Modules
         PROVE  q.externalPositions[d][n].virtualUnit =
                  IF d = c /\ n = m THEN u ELSE p.externalPositions[d][n].virtualUnit
    BY <1>9, <1>10, <1>11
  <1>13. ASSUME NEW d \in Components, NEW n \in Modules, isExternalPositionModule(q, d, n)
         PROVE  isExternalPositionModule(p, d, n) \/ (d = c /\ n = m)
    <2>1. p.externalPositionModules \in [Components -> Seq(Modules)]
      BY <1>2 DEF StorageType
    <2>2. \/ q.externalPositionModules[d] = p.externalPositionModules[d]
          \/ d = c /\ q.externalPositionModules[d] = Append(p.externalPositionModules[d], m)
      BY <1>4, <1>5, <1>11, <2>1
    <2>3. CASE q.externalPositionModules[d] = p.externalPositionModules[d]
      BY <1>13, <2>3 DEF isExternalPositionModule
    <2>4. CASE d = c /\ q.externalPositionModules[d] = Append(p.externalPositionModules[d], m)
      <3> DEFINE before == p.externalPositionModules[d]
      <3>1. before \in Seq(Modules)
        BY <2>1
      <3> HIDE DEF before
      <3>2. PICK i \in DOMAIN Append(before, m) : Append(before, m)[i] = n
        BY <1>13, <2>4 DEF isExternalPositionModule, contains, before
      <3>3. (i \in DOMAIN before /\ before[i] = n) \/ n = m
        BY <3>1, <3>2
      <3> QED BY <2>4, <3>3 DEF isExternalPositionModule, contains, before
    <2> QED BY <2>2, <2>3, <2>4
  <1> QED BY <1>11, <1>12, <1>13 DEF ExternalChanged, AtParity

LEMMA ExternalClosed ==
    ASSUME NEW p, StorageOK(p), AtParity(p), NEW c \in Components, NEW m \in Modules,
           NEW q \in closeExternalPosition(p, c, m)
    PROVE  ExternalChanged(p, q, c, m, 0)
  <1>1. p \in StorageType
    BY DEF StorageOK
  <1>2. CASE getExternalPositionRealUnit(p, c, m) = 0
    <2>1. q = p
      BY <1>2 DEF closeExternalPosition
    <2>2. p.externalPositions[c][m].virtualUnit = 0
      BY <1>2, ParityPositions
    <2> QED BY <2>1, <2>2 DEF ExternalChanged
  <1>3. CASE getExternalPositionRealUnit(p, c, m) # 0
    <2>1. PICK r : /\ q \in removeExternalPositionModule(r, c, m)
                   /\ r = p \/ r \in removeComponent(p, c)
      BY <1>3 DEF closeExternalPosition, require, Then
    <2>2. PICK A : r = [p EXCEPT !.components = A]
      <3>1. p = [p EXCEPT !.components = p.components]
        BY <1>1 DEF StorageType
      <3> QED BY <2>1, <3>1 DEF removeComponent, require
    <2>3. /\ isExternalPositionModule(r, c, m)
          /\ q = [r EXCEPT !.externalPositionModules[c] = removeStorage(@, m),
                           !.externalPositions[c][m] = NoExternalPosition]
      BY <2>1 DEF removeExternalPositionModule, require
    <2>4. /\ q.virtualUnit = p.virtualUnit
          /\ q.positionMultiplier = p.positionMultiplier
          /\ q.externalPositionModules =
               [p.externalPositionModules EXCEPT ![c] = removeStorage(@, m)]
          /\ q.externalPositions =
               [p.externalPositions EXCEPT ![c][m] = NoExternalPosition]
          /\ r.externalPositionModules = p.externalPositionModules
      BY <1>1, <2>2, <2>3 DEF StorageType
    <2>5. /\ p.externalPositions \in
               [Components -> [Modules -> [virtualUnit : Int, data : Data]]]
          /\ p.externalPositionModules \in [Components -> Seq(Modules)]
      BY <1>1 DEF StorageType
    <2>6. ASSUME NEW d \in Components, NEW n \in Modules
          PROVE  q.externalPositions[d][n].virtualUnit =
                   IF d = c /\ n = m THEN 0 ELSE p.externalPositions[d][n].virtualUnit
      <3>1. NoExternalPosition.virtualUnit = 0
        BY DEF NoExternalPosition
      <3>2. q.externalPositions[d][n] = IF d = c /\ n = m THEN NoExternalPosition
                                        ELSE p.externalPositions[d][n]
        BY <2>4, <2>5
      <3> QED BY <3>1, <3>2
    <2>7. ASSUME NEW d \in Components, NEW n \in Modules, isExternalPositionModule(q, d, n)
          PROVE  isExternalPositionModule(p, d, n)
      <3>1. CASE d # c
        BY <2>4, <2>5, <2>7, <3>1 DEF isExternalPositionModule
      <3>2. CASE d = c
        <4> DEFINE B == p.externalPositionModules[c]
        <4>1. q.externalPositionModules[d] = removeStorage(B, m)
          BY <2>4, <2>5, <3>2
        <4>2. B \in Seq(Modules) /\ ~hasDuplicate(B) /\ contains(B, m)
          BY <2>3, <2>4, StorageFields DEF isExternalPositionModule
        <4> HIDE DEF B
        <4>3. contains(removeStorage(B, m), n)
          BY <2>7, <4>1 DEF isExternalPositionModule
        <4>4. contains(B, n)
          BY <4>2, <4>3, RemoveStorageExact
        <4> QED BY <3>2, <4>4 DEF isExternalPositionModule, B
      <3> QED BY <3>1, <3>2
    <2> QED BY <2>4, <2>6, <2>7 DEF ExternalChanged, AtParity
  <1> QED BY <1>2, <1>3

\* Positions at parity with no external position but the StakingModule's.
PositionsStaked ==
    /\ PositionsInv
    /\ AtParity(positions)
    /\ \A c \in Components, m \in Modules :
         isExternalPositionModule(positions, c, m) => m = Staking

DefaultUnit(c) == getDefaultPositionRealUnit(positions, c)

StakedUnit(c) == getExternalPositionRealUnit(positions, c, Staking)

\* Staking and unstaking move units between the default and the external
\* position of one component.
LEMMA ShiftedEffect ==
    ASSUME PositionsStaked, NEW c \in Components, NEW u \in Int,
           positions' \in Shifted(c, u)
    PROVE  /\ PositionsStaked'
           /\ \A d \in Components :
                /\ DefaultUnit(d)' = IF d = c THEN DefaultUnit(c) - u ELSE DefaultUnit(d)
                /\ StakedUnit(d)' = IF d = c THEN StakedUnit(c) + u ELSE StakedUnit(d)
  <1> DEFINE default == getDefaultPositionRealUnit(positions, c) - u
  <1>1. StorageOK(positions) /\ AtParity(positions) /\ Staking \in Modules
    BY StakingAssumption DEF PositionsStaked, PositionsInv
  <1>2. PICK q : /\ default >= 0
                 /\ q \in editDefaultPosition(positions, c, default)
                 /\ positions' \in editExternalPosition(q, c, Staking,
                        getExternalPositionRealUnit(q, c, Staking) + u, NoData)
    BY DEF Shifted, require, Then
  <1>3. getDefaultPositionRealUnit(positions, c) \in Nat
    BY <1>1, RealUnitNat
  <1>4. default \in Nat
    BY <1>2, <1>3
  <1> HIDE DEF default
  <1>5. StorageOK(q)
    BY <1>1, <1>2, <1>4, EditDefaultPositionOK
  <1>6. /\ AtParity(q)
        /\ q.virtualUnit = [positions.virtualUnit EXCEPT ![c] = default]
        /\ q.externalPositions = positions.externalPositions
        /\ q.externalPositionModules = positions.externalPositionModules
    BY <1>1, <1>2, <1>4, DefaultEdited
  <1> DEFINE v == getExternalPositionRealUnit(q, c, Staking) + u
  <1>7. /\ v \in Int
        /\ v = q.externalPositions[c][Staking].virtualUnit + u
    <2>1. q.externalPositions[c][Staking].virtualUnit \in Int
      BY <1>1, <1>5, StorageFields
    <2>2. getExternalPositionRealUnit(q, c, Staking) =
            q.externalPositions[c][Staking].virtualUnit
      BY <1>1, <1>5, <1>6, ParityPositions
    <2> QED BY <2>1, <2>2
  <1>8. NoData \in Data
    BY NoDataAssumption
  <1> HIDE DEF v
  <1>9. /\ StorageOK(positions')
        /\ ExternalChanged(q, positions', c, Staking, v)
    <2>1. positions' \in editExternalPosition(q, c, Staking, v, NoData)
      BY <1>2 DEF v
    <2>2. CASE v # 0
      <3>1. positions' \in setExternalPosition(q, c, Staking, v, NoData)
        BY <2>1, <2>2 DEF editExternalPosition
      <3> QED BY <1>1, <1>5, <1>6, <1>7, <1>8, <2>2, <3>1, SetExternalPositionOK, ExternalSet
    <2>3. CASE v = 0
      <3>1. positions' \in closeExternalPosition(q, c, Staking)
        BY <2>1, <2>3 DEF editExternalPosition, require
      <3> QED BY <1>1, <1>5, <1>6, <2>3, <3>1, CloseExternalPositionOK, ExternalClosed
    <2> QED BY <2>2, <2>3
  <1>10. PositionsStaked'
    <2>1. AtParity(positions')
      BY <1>9 DEF ExternalChanged
    <2>2. ASSUME NEW d \in Components, NEW m \in Modules,
                 isExternalPositionModule(positions', d, m)
          PROVE  m = Staking
      <3>1. isExternalPositionModule(q, d, m) \/ m = Staking
        BY <1>9, <2>2 DEF ExternalChanged
      <3>2. isExternalPositionModule(q, d, m) => isExternalPositionModule(positions, d, m)
        BY <1>6 DEF isExternalPositionModule
      <3> QED BY <3>1, <3>2 DEF PositionsStaked
    <2> QED BY <1>9, <2>1, <2>2 DEF PositionsStaked, PositionsInv
  <1>11. ASSUME NEW d \in Components
         PROVE  /\ DefaultUnit(d)' = IF d = c THEN DefaultUnit(c) - u ELSE DefaultUnit(d)
                /\ StakedUnit(d)' = IF d = c THEN StakedUnit(c) + u ELSE StakedUnit(d)
    <2>1. /\ DefaultUnit(d) = positions.virtualUnit[d]
          /\ StakedUnit(d) = positions.externalPositions[d][Staking].virtualUnit
      BY <1>1, ParityPositions DEF DefaultUnit, StakedUnit
    <2>2. /\ DefaultUnit(d)' = positions'.virtualUnit[d]
          /\ StakedUnit(d)' = positions'.externalPositions[d][Staking].virtualUnit
      BY <1>1, <1>9, ParityPositions DEF DefaultUnit, StakedUnit, ExternalChanged
    <2>3. positions'.virtualUnit = q.virtualUnit
      BY <1>9 DEF ExternalChanged
    <2>4. positions.virtualUnit \in [Components -> Int]
      BY <1>1 DEF StorageOK, StorageType
    <2>5. positions'.virtualUnit[d] = IF d = c THEN default ELSE positions.virtualUnit[d]
      BY <1>6, <2>3, <2>4
    <2>6. default = DefaultUnit(c) - u
      BY DEF default, DefaultUnit
    <2>7. positions'.externalPositions[d][Staking].virtualUnit =
            IF d = c THEN v ELSE positions.externalPositions[d][Staking].virtualUnit
      BY <1>1, <1>6, <1>9 DEF ExternalChanged
    <2>8. d = c => v = StakedUnit(c) + u
      BY <1>6, <1>7, <2>1
    <2> QED BY <2>1, <2>2, <2>5, <2>6, <2>7, <2>8
  <1> QED BY <1>10, <1>11

-----------------------------------------------------------------------------
\* The invariant: the records agree, and what may be short is bounded before
\* it is rounded.
StakesTypeOK ==
    /\ balances \in [Components -> Nat]
    /\ totalSupply \in Nat
    /\ staked \in [Components -> [StakingContracts -> Nat]]
    /\ stakingPositions \in
         [Components -> [stakingContracts : Seq(StakingContracts),
                         units : [StakingContracts -> Nat]]]
    /\ issuanceSettings \in
         [maxManagerFee : Nat, managerIssueFee : Nat, managerRedeemFee : Nat]
    /\ roundings \in Nat

ShortfallInUnits ==
    \A c \in Components, k \in StakingContracts :
        totalSupply * getStakingPositionUnit(c, k)
            <= (staked[c][k] + roundings) * PRECISE_UNIT

StakedInv ==
    /\ StakesTypeOK
    /\ PositionsStaked
    /\ StakingUnitsMatch
    /\ ShortfallInUnits
    /\ StakeAndDefaultBacked
    /\ RemovedWhenClosed

UnitsOf(c) == [k \in StakingContracts |-> getStakingPositionUnit(c, k)]

\* What the two records of a stake have to do with each other.
LEMMA StakeTerms ==
    ASSUME StakesTypeOK, PositionsStaked, StakingUnitsMatch, NEW c \in Components
    PROVE  /\ DefaultUnit(c) \in Nat
           /\ StakedUnit(c) \in Nat
           /\ UnitsOf(c) \in [StakingContracts -> Nat]
           /\ SumFunction(UnitsOf(c)) = StakedUnit(c)
           /\ \A k \in StakingContracts :
                /\ getStakingPositionUnit(c, k) \in Nat
                /\ getStakingPositionUnit(c, k) <= StakedUnit(c)
           /\ ~isComponent(positions, c) => DefaultUnit(c) = 0 /\ StakedUnit(c) = 0
           /\ isExternalPositionModule(positions, c, Staking) <=> StakedUnit(c) # 0
  <1>1. /\ StorageOK(positions) /\ AtParity(positions)
        /\ Staking \in Modules /\ Staking \notin PerpModules
        /\ IsFiniteSet(StakingContracts)
    BY StakingAssumption DEF PositionsStaked, PositionsInv
  <1>2. UnitsOf(c) \in [StakingContracts -> Nat]
    BY DEF UnitsOf, StakesTypeOK, getStakingPositionUnit
  <1>3. SumFunction(UnitsOf(c)) = StakedUnit(c)
    BY DEF StakingUnitsMatch, StakingUnits, UnitsOf, StakedUnit
  <1>4. /\ StakedUnit(c) \in Nat
        /\ \A k \in StakingContracts : UnitsOf(c)[k] <= StakedUnit(c)
    BY <1>1, <1>2, <1>3, SumNat
  <1>5. ASSUME NEW k \in StakingContracts
        PROVE  /\ getStakingPositionUnit(c, k) \in Nat
               /\ getStakingPositionUnit(c, k) <= StakedUnit(c)
    <2>1. getStakingPositionUnit(c, k) = UnitsOf(c)[k]
      BY DEF UnitsOf
    <2> QED BY <1>2, <1>4, <2>1
  <1>6. /\ DefaultUnit(c) \in Nat
        /\ ~isComponent(positions, c) => DefaultUnit(c) = 0
    BY <1>1, RealUnitNat DEF DefaultUnit
  <1>7. isExternalPositionModule(positions, c, Staking) <=> StakedUnit(c) # 0
    <2>1. StakedUnit(c) = positions.externalPositions[c][Staking].virtualUnit
      BY <1>1, ParityPositions DEF StakedUnit
    <2>2. isExternalPositionModule(positions, c, Staking) <=>
            positions.externalPositions[c][Staking].virtualUnit # 0
      BY <1>1 DEF StorageOK, ExternalPositionsTrackedIn
    <2> QED BY <2>1, <2>2
  <1>8. ~isComponent(positions, c) => ~isExternalPositionModule(positions, c, Staking)
    <2>1. ~isComponent(positions, c) => ~(Len(positions.externalPositionModules[c]) > 0)
      BY <1>1 DEF StorageOK, ComponentsTrackedIn, hasExternalPosition
    <2>2. positions.externalPositionModules[c] \in Seq(Modules)
      BY <1>1, StorageFields
    <2>3. isExternalPositionModule(positions, c, Staking) =>
            Len(positions.externalPositionModules[c]) > 0
      BY <2>2 DEF isExternalPositionModule, contains
    <2> QED BY <2>1, <2>3
  <1> QED BY <1>2, <1>3, <1>4, <1>5, <1>6, <1>7, <1>8

\* Equity is what default and staked units make up, and there is no debt.
LEMMA EquityAndDebt ==
    ASSUME StakesTypeOK, PositionsStaked, StakingUnitsMatch, NEW c \in Components
    PROVE  /\ EquityUnit(c) = DefaultUnit(c) + StakedUnit(c)
           /\ DebtUnit(c) = 0
  <1> DEFINE E == Entries(positions.externalPositionModules[c])
             equity == [m \in E |-> IF ExternalUnit(c, m) > 0 THEN ExternalUnit(c, m) ELSE 0]
             debt == [m \in E |-> IF ExternalUnit(c, m) > 0 THEN 0 ELSE -ExternalUnit(c, m)]
  <1>1. /\ StakedUnit(c) \in Nat /\ DefaultUnit(c) \in Nat
        /\ isExternalPositionModule(positions, c, Staking) <=> StakedUnit(c) # 0
    BY StakeTerms
  <1>2. StakedUnit(c) = ExternalUnit(c, Staking)
    BY DEF StakedUnit, ExternalUnit
  <1>3. E = IF StakedUnit(c) # 0 THEN {Staking} ELSE {}
    <2>1. \A m : m \in E <=> isExternalPositionModule(positions, c, m)
      BY DEF Entries, isExternalPositionModule, contains
    <2>2. \A m : m \in E => m \in Modules
      <3>1. positions.externalPositionModules[c] \in Seq(Modules)
        BY StakingAssumption, StorageFields DEF PositionsStaked, PositionsInv
      <3> QED BY <3>1 DEF Entries
    <2>3. \A m : m \in E => m = Staking
      BY <2>1, <2>2 DEF PositionsStaked
    <2> QED BY <1>1, <2>1, <2>3
  <1>4. IsFiniteSet(E)
    BY <1>3, FS_Singleton, FS_EmptySet
  <1> HIDE DEF E
  <1>5. \A m \in E : m = Staking /\ ExternalUnit(c, m) > 0
    BY <1>1, <1>2, <1>3
  <1>6. /\ equity \in [E -> Int]
        /\ \A m \in E : equity[m] = ExternalUnit(c, m)
        /\ debt \in [E -> Int]
        /\ \A m \in E : debt[m] = 0
    BY <1>1, <1>2, <1>5
  <1> HIDE DEF equity, debt
  <1>7. SumFunction(debt) = 0
    BY <1>4, <1>6, SumZero
  <1>8. SumFunction(equity) = StakedUnit(c)
    <2>1. CASE StakedUnit(c) # 0
      <3>1. Staking \in E
        BY <1>3, <2>1
      <3>2. \A m \in E : equity[m] = IF m = Staking THEN StakedUnit(c) ELSE 0
        BY <1>2, <1>5, <1>6
      <3> QED BY <1>1, <1>4, <1>6, <3>1, <3>2, SumSingle
    <2>2. CASE StakedUnit(c) = 0
      <3>1. \A m \in E : equity[m] = 0
        BY <1>3, <2>2
      <3> QED BY <1>4, <1>6, <2>2, <3>1, SumZero
    <2> QED BY <2>1, <2>2
  <1>9. DebtUnit(c) = SumFunction(debt)
    BY DEF DebtUnit, debt, E
  <1>10. EquityUnit(c) = DefaultUnit(c) + SumFunction(equity)
    BY DEF EquityUnit, DefaultUnit, equity, E
  <1> QED BY <1>7, <1>8, <1>9, <1>10

\* What an issuance or redemption of t SetTokens moves in each component, and
\* what its hooks move.
LEMMA QuantityTerms ==
    ASSUME StakesTypeOK, PositionsStaked, StakingUnitsMatch,
           NEW c \in Components, NEW t \in Nat
    PROVE  /\ EquityIn(c, t) = preciseMulCeil(DefaultUnit(c) + StakedUnit(c), t)
           /\ EquityOut(c, t) = preciseMul(DefaultUnit(c) + StakedUnit(c), t)
           /\ DebtIn(c, t) = 0 /\ DebtOut(c, t) = 0
           /\ \A k \in StakingContracts :
                HookNotional(c, k, t) = preciseMul(t, getStakingPositionUnit(c, k))
  <1>1. /\ DefaultUnit(c) \in Nat /\ StakedUnit(c) \in Nat
        /\ ~isComponent(positions, c) => DefaultUnit(c) = 0 /\ StakedUnit(c) = 0
        /\ isExternalPositionModule(positions, c, Staking) <=> StakedUnit(c) # 0
        /\ \A k \in StakingContracts :
             /\ getStakingPositionUnit(c, k) \in Nat
             /\ getStakingPositionUnit(c, k) <= StakedUnit(c)
    BY StakeTerms
  <1>2. \A n \in Nat : 0 * n = 0 /\ n * 0 = 0 /\ 0 \div PRECISE_UNIT = 0
    BY PreciseUnitAssumption
  <1>3. ~isComponent(positions, c) =>
          /\ preciseMulCeil(DefaultUnit(c) + StakedUnit(c), t) = 0
          /\ preciseMul(DefaultUnit(c) + StakedUnit(c), t) = 0
    BY <1>1, <1>2 DEF preciseMul, preciseMulCeil
  <1>4. /\ EquityUnit(c) = DefaultUnit(c) + StakedUnit(c)
        /\ DebtUnit(c) = 0
    BY EquityAndDebt
  <1>5. DebtIn(c, t) = 0 /\ DebtOut(c, t) = 0
    BY <1>2, <1>4 DEF DebtIn, DebtOut, preciseMul, preciseMulCeil
  <1>6. ASSUME NEW k \in StakingContracts
        PROVE  HookNotional(c, k, t) = preciseMul(t, getStakingPositionUnit(c, k))
    <2>1. CASE isExternalPositionModule(positions, c, Staking) /\ hasStakingPosition(c, k)
      BY <2>1 DEF HookNotional, getDefaultTotalNotional
    <2>2. CASE ~(isExternalPositionModule(positions, c, Staking) /\ hasStakingPosition(c, k))
      <3>1. ~hasStakingPosition(c, k) => ~(getStakingPositionUnit(c, k) > 0)
        BY DEF StakingUnitsMatch
      <3>2. getStakingPositionUnit(c, k) = 0
        BY <1>1, <2>2, <3>1
      <3> QED BY <1>2, <2>2, <3>2 DEF HookNotional, preciseMul
    <2> QED BY <2>1, <2>2
  <1> QED BY <1>3, <1>4, <1>5, <1>6 DEF EquityIn, EquityOut

\* The hooks of a component move at most their share of its staked units.
LEMMA HookTerms ==
    ASSUME StakesTypeOK, PositionsStaked, StakingUnitsMatch,
           NEW c \in Components, NEW t \in Nat
    PROVE  /\ componentHook(c, t) =
                SumFunction([k \in StakingContracts |-> HookNotional(c, k, t)])
           /\ [k \in StakingContracts |-> HookNotional(c, k, t)] \in [StakingContracts -> Nat]
           /\ componentHook(c, t) \in Nat
           /\ componentHook(c, t) * PRECISE_UNIT <= StakedUnit(c) * t
  <1> DEFINE K == StakingContracts
             hook == [k \in K |-> HookNotional(c, k, t)]
             owed == [k \in K |-> t * UnitsOf(c)[k]]
             moved == [k \in K |-> PRECISE_UNIT * hook[k]]
             zero == [k \in K |-> 0]
  <1>1. IsFiniteSet(K) /\ PRECISE_UNIT \in Nat
    BY StakingAssumption, PreciseUnitAssumption
  <1>2. /\ UnitsOf(c) \in [K -> Nat]
        /\ SumFunction(UnitsOf(c)) = StakedUnit(c)
        /\ StakedUnit(c) \in Nat
    BY StakeTerms
  <1>3. ASSUME NEW k \in K
        PROVE  /\ HookNotional(c, k, t) \in Nat
               /\ PRECISE_UNIT * HookNotional(c, k, t) <= t * UnitsOf(c)[k]
    <2>1. HookNotional(c, k, t) = preciseMul(t, UnitsOf(c)[k])
      BY QuantityTerms DEF UnitsOf
    <2>2. UnitsOf(c)[k] \in Nat
      BY <1>2
    <2>3. /\ preciseMul(t, UnitsOf(c)[k]) \in Nat
          /\ preciseMul(t, UnitsOf(c)[k]) * PRECISE_UNIT <= t * UnitsOf(c)[k]
      BY <2>2, PreciseMulFloor
    <2> QED BY <1>1, <2>1, <2>3
  <1>4. hook \in [K -> Nat] /\ \A k \in K : hook[k] = HookNotional(c, k, t)
    BY <1>3
  <1>5. componentHook(c, t) = SumFunction(hook)
    BY DEF componentHook
  <1>6. [k \in StakingContracts |-> HookNotional(c, k, t)] = hook
    OBVIOUS
  <1>7. zero \in [K -> Int] /\ \A k \in K : zero[k] = 0
    OBVIOUS
  <1> HIDE DEF hook, zero
  <1>8. /\ owed \in [K -> Int] /\ moved \in [K -> Int]
        /\ \A k \in K : owed[k] = t * UnitsOf(c)[k] + zero[k]
        /\ \A k \in K : moved[k] = PRECISE_UNIT * hook[k] + zero[k]
    BY <1>1, <1>2, <1>4, <1>7
  <1>9. \A k \in K : moved[k] <= owed[k]
    BY <1>3, <1>4
  <1>10. SumFunction(zero) = 0
    BY <1>1, <1>7, SumZero
  <1>11. SumFunction(hook) \in Nat
    BY <1>1, <1>4, SumNat
  <1>12. UnitsOf(c) \in [K -> Int] /\ hook \in [K -> Int]
    BY <1>2, <1>4
  <1> HIDE DEF owed, moved, K
  <1>13. SumFunction(owed) = t * StakedUnit(c) + 0
    <2>1. SumFunction(owed) = t * SumFunction(UnitsOf(c)) + SumFunction(zero)
      BY <1>1, <1>7, <1>8, <1>12, SumLinear
    <2> QED BY <1>2, <1>10, <2>1
  <1>14. SumFunction(moved) = PRECISE_UNIT * SumFunction(hook) + 0
    BY <1>1, <1>7, <1>8, <1>10, <1>12, SumLinear
  <1>15. SumFunction(moved) <= SumFunction(owed)
    BY <1>1, <1>8, <1>9, SumMonotonic
  <1>16. SumFunction(hook) * PRECISE_UNIT <= StakedUnit(c) * t
    BY <1>1, <1>2, <1>11, <1>13, <1>14, <1>15
  <1> QED BY <1>4, <1>5, <1>6, <1>11, <1>16 DEF K

\* A product rounded down misses less than one.
LEMMA PreciseMulAbove ==
    ASSUME NEW a \in Nat, NEW b \in Nat
    PROVE  a * b < preciseMul(a, b) * PRECISE_UNIT + PRECISE_UNIT
  <1> DEFINE x == a * b
  <1>1. x \in Nat
    OBVIOUS
  <1> HIDE DEF x
  <1>2. x < (x \div PRECISE_UNIT) * PRECISE_UNIT + PRECISE_UNIT
    BY <1>1, DivFloor, PreciseUnitAssumption
  <1> QED BY <1>2 DEF preciseMul, x

\* A number of tokens worth less than one token is none.
LEMMA LessThanOne ==
    ASSUME NEW n \in Nat, n * PRECISE_UNIT < PRECISE_UNIT
    PROVE  n = 0
  <1>1. PRECISE_UNIT \in Nat \ {0}
    BY PreciseUnitAssumption
  <1>2. ASSUME n >= 1 PROVE FALSE
    <2>1. 1 * PRECISE_UNIT <= n * PRECISE_UNIT
      BY <1>1, <1>2, MulMonotonic
    <2>2. n * PRECISE_UNIT \in Int
      BY <1>1
    <2> QED BY <1>1, <2>1, <2>2
  <1> QED BY <1>2

\* Nothing is hooked where no equity moves: the hooks of a component may as
\* well be said to run in every issuance and every redemption.
LEMMA HooksWithoutEquity ==
    ASSUME StakesTypeOK, PositionsStaked, StakingUnitsMatch,
           NEW c \in Components, NEW t \in Nat
    PROVE  /\ EquityIn(c, t) \in Nat /\ EquityOut(c, t) \in Nat
           /\ EquityIn(c, t) * PRECISE_UNIT >= (DefaultUnit(c) + StakedUnit(c)) * t
           /\ EquityOut(c, t) * PRECISE_UNIT <= (DefaultUnit(c) + StakedUnit(c)) * t
           /\ EquityIn(c, t) = 0 \/ EquityOut(c, t) = 0 =>
                /\ componentHook(c, t) = 0
                /\ \A k \in StakingContracts : HookNotional(c, k, t) = 0
  <1> DEFINE e == DefaultUnit(c) + StakedUnit(c)
  <1>1. PRECISE_UNIT \in Nat \ {0} /\ IsFiniteSet(StakingContracts)
    BY PreciseUnitAssumption, StakingAssumption
  <1>2. DefaultUnit(c) \in Nat /\ StakedUnit(c) \in Nat /\ e \in Nat
    BY StakeTerms
  <1>3. StakedUnit(c) * t <= e * t
    BY <1>2, MulMonotonic
  <1>4. /\ componentHook(c, t) = SumFunction([k \in StakingContracts |-> HookNotional(c, k, t)])
        /\ [k \in StakingContracts |-> HookNotional(c, k, t)] \in [StakingContracts -> Nat]
        /\ componentHook(c, t) \in Nat
        /\ componentHook(c, t) * PRECISE_UNIT <= StakedUnit(c) * t
    BY HookTerms
  <1>5. EquityIn(c, t) = preciseMulCeil(e, t) /\ EquityOut(c, t) = preciseMul(e, t)
    BY QuantityTerms
  <1> HIDE DEF e
  <1>6. /\ EquityIn(c, t) \in Nat /\ EquityOut(c, t) \in Nat
        /\ EquityIn(c, t) * PRECISE_UNIT >= e * t
        /\ EquityOut(c, t) * PRECISE_UNIT <= e * t
    BY <1>2, <1>5, PreciseMulCeilCovers, PreciseMulFloor
  <1>7. ASSUME EquityIn(c, t) = 0 \/ EquityOut(c, t) = 0
        PROVE  componentHook(c, t) = 0
    <2>1. e * t \in Nat /\ StakedUnit(c) * t \in Nat
      BY <1>2
    <2>2. e * t < PRECISE_UNIT
      <3>1. CASE EquityIn(c, t) = 0
        BY <1>1, <1>6, <2>1, <3>1
      <3>2. CASE EquityOut(c, t) = 0
        <4>1. e * t < preciseMul(e, t) * PRECISE_UNIT + PRECISE_UNIT
          BY <1>2, PreciseMulAbove
        <4> QED BY <1>1, <1>5, <3>2, <4>1
      <3> QED BY <1>7, <3>1, <3>2
    <2>3. componentHook(c, t) * PRECISE_UNIT \in Int
      BY <1>1, <1>4
    <2>4. componentHook(c, t) * PRECISE_UNIT < PRECISE_UNIT
      BY <1>1, <1>3, <1>4, <2>1, <2>2, <2>3
    <2> QED BY <1>4, <2>4, LessThanOne
  <1>8. ASSUME componentHook(c, t) = 0, NEW k \in StakingContracts
        PROVE  HookNotional(c, k, t) = 0
    <2> DEFINE hook == [j \in StakingContracts |-> HookNotional(c, j, t)]
    <2>1. hook \in [StakingContracts -> Nat] /\ SumFunction(hook) = 0
      BY <1>4, <1>8
    <2>2. hook[k] = HookNotional(c, k, t)
      OBVIOUS
    <2> HIDE DEF hook
    <2>3. hook[k] <= SumFunction(hook)
      BY <1>1, <2>1, SumNat
    <2>4. hook[k] \in Nat
      BY <2>1
    <2> QED BY <2>1, <2>2, <2>3, <2>4
  <1> QED BY <1>6, <1>7, <1>8 DEF e

\* What the fees of an issuance or redemption add up to.
LEMMA FeeTerms ==
    ASSUME NEW rate \in Nat, NEW q \in Nat
    PROVE  /\ totalFee(rate, q) \in Nat
           /\ MintedFees(rate, q) \in Nat
           /\ MintedFees(rate, q) <= totalFee(rate, q)
  <1>1. totalFee(rate, q) \in Nat
    BY PreciseMulFloor DEF totalFee
  <1> QED BY <1>1 DEF MintedFees

\* What an issuance of either module does to the stakes and the supply.
LEMMA IssuanceEffect ==
    ASSUME StakedInv, NEW q \in Nat, q > 0, Issuance(q)
    PROVE  /\ QuantityWithFees(q) \in Nat /\ QuantityWithFees(q) > 0
           /\ UNCHANGED <<positions, stakingPositions, isStakingModule,
                          issuanceSettings, version>>
           /\ roundings' = roundings + 1
           /\ totalSupply' \in Nat
           /\ totalSupply' <= totalSupply + QuantityWithFees(q)
           /\ balances' \in [Components -> Nat]
           /\ staked' = [c \in Components |-> [k \in StakingContracts |->
                           staked[c][k] + HookNotional(c, k, QuantityWithFees(q))]]
           /\ version = 1 => \A c \in Components :
                balances'[c] = balances[c] + EquityIn(c, QuantityWithFees(q))
                                 - componentHook(c, QuantityWithFees(q))
  <1> DEFINE t == QuantityWithFees(q)
             rate == issuanceSettings.managerIssueFee
  <1>1. StakesTypeOK /\ PositionsStaked /\ StakingUnitsMatch
    BY DEF StakedInv
  <1>2. totalSupply \in Nat /\ rate \in Nat /\ balances \in [Components -> Nat]
    BY <1>1 DEF StakesTypeOK
  <1>3. /\ t = q + totalFee(rate, q)
        /\ totalFee(rate, q) \in Nat
        /\ MintedFees(rate, q) \in Nat
        /\ MintedFees(rate, q) <= totalFee(rate, q)
    BY <1>2, FeeTerms DEF QuantityWithFees
  <1>4. /\ UNCHANGED <<positions, stakingPositions, isStakingModule,
                       issuanceSettings, version>>
        /\ roundings' = roundings + 1
        /\ totalSupply' = totalSupply + q + MintedFees(rate, q)
        /\ staked' = StakedOnIssue(t)
    BY DEF Issuance, issue, issueV2, issuanceVars
  <1>5. balances' \in [Components -> Nat]
    <2>1. PICK after : /\ \A c \in Components : after[c] \in 0..MaxBalance
                       /\ balances' = [c \in Components |-> after[c]]
      <3>1. CASE version = 1
        <4> DEFINE to(c) == balances[c] + EquityIn(c, t) - DebtOut(c, t)
                - Rounds(EquityIn(c, t), DebtOut(c, t)) * Hooks(t)[c]
                   after == [c \in Components |-> to(c)]
        <4>1. /\ \A c \in Components : to(c) \in 0..MaxBalance
              /\ balances' = [c \in Components |-> to(c)]
          BY <3>1 DEF Issuance, issue
        <4> HIDE DEF to
        <4>2. /\ \A c \in Components : after[c] \in 0..MaxBalance
              /\ balances' = [c \in Components |-> after[c]]
          BY <4>1
        <4> QED BY <4>2
      <3>2. CASE version # 1
        <4>1. PICK in \in Errors, out \in Errors : issueV2(q, Hooks(t), in, out)
          BY <3>2 DEF Issuance
        <4> DEFINE equity(c) == EquityIn(c, t)
                   debt(c) == DebtOut(c, t)
                   received(c) == balances[c] + Moved(equity(c), in[c])
                   hooked(c) == received(c) - Rounds(equity(c), 0) * Hooks(t)[c]
                   to(c) == hooked(c) - Rounds(0, debt(c)) * Hooks(t)[c]
                                - Moved(debt(c), out[c])
                   after == [c \in Components |-> to(c)]
        <4>2. /\ \A c \in Components : to(c) \in 0..MaxBalance
              /\ balances' = [c \in Components |-> to(c)]
          BY <4>1 DEF issueV2
        <4> HIDE DEF to
        <4>3. /\ \A c \in Components : after[c] \in 0..MaxBalance
              /\ balances' = [c \in Components |-> after[c]]
          BY <4>2
        <4> QED BY <4>3
      <3> QED BY <3>1, <3>2
    <2>2. \A c \in Components : after[c] \in Nat
      BY <2>1, VaultAssumption
    <2> QED BY <2>1, <2>2
  <1>6. t \in Nat /\ t > 0
    BY <1>3
  <1>7. totalSupply' \in Nat /\ totalSupply' <= totalSupply + t
    BY <1>2, <1>3, <1>4
  <1> HIDE DEF t
  <1>8. ASSUME NEW c \in Components
        PROVE  /\ DebtOut(c, t) = 0
               /\ EquityIn(c, t) = 0 => componentHook(c, t) = 0
               /\ EquityIn(c, t) \in Nat /\ componentHook(c, t) \in Nat
               /\ \A k \in StakingContracts :
                    /\ EquityIn(c, t) = 0 => HookNotional(c, k, t) = 0
                    /\ HookNotional(c, k, t) \in Nat
    <2>1. DebtOut(c, t) = 0
      BY <1>1, <1>6, QuantityTerms
    <2>2. /\ EquityIn(c, t) \in Nat
          /\ EquityIn(c, t) = 0 => componentHook(c, t) = 0
          /\ \A k \in StakingContracts : EquityIn(c, t) = 0 => HookNotional(c, k, t) = 0
      BY <1>1, <1>6, HooksWithoutEquity
    <2>3. /\ componentHook(c, t) \in Nat
          /\ [k \in StakingContracts |-> HookNotional(c, k, t)] \in [StakingContracts -> Nat]
      BY <1>1, <1>6, HookTerms
    <2> QED BY <2>1, <2>2, <2>3
  <1>9. ASSUME NEW c \in Components, NEW k \in StakingContracts
        PROVE  staked[c][k] + Rounds(EquityIn(c, t), DebtOut(c, t)) * HookNotional(c, k, t)
                 = staked[c][k] + HookNotional(c, k, t)
    <2>1. Rounds(EquityIn(c, t), DebtOut(c, t)) * HookNotional(c, k, t)
            = HookNotional(c, k, t)
      BY <1>8 DEF Rounds
    <2> QED BY <2>1
  <1>10. staked' = [c \in Components |-> [k \in StakingContracts |->
                      staked[c][k] + HookNotional(c, k, t)]]
    BY <1>4, <1>9 DEF StakedOnIssue
  <1>11. ASSUME version = 1, NEW c \in Components
         PROVE  balances'[c] = balances[c] + EquityIn(c, t) - componentHook(c, t)
    <2>1. issue(q, Hooks(t))
      BY <1>11 DEF Issuance, t
    <2>2. Hooks(t)[c] = componentHook(c, t)
      BY DEF Hooks
    <2>3. balances'[c] = balances[c] + EquityIn(c, t) - DebtOut(c, t)
            - Rounds(EquityIn(c, t), DebtOut(c, t)) * Hooks(t)[c]
      BY <2>1 DEF issue, t
    <2>4. Rounds(EquityIn(c, t), DebtOut(c, t)) * componentHook(c, t) = componentHook(c, t)
      BY <1>8 DEF Rounds
    <2>5. balances[c] \in Nat
      BY <1>2
    <2> QED BY <1>8, <2>2, <2>3, <2>4, <2>5
  <1> QED BY <1>4, <1>5, <1>6, <1>7, <1>10, <1>11 DEF t

\* What a redemption of either module does to the stakes and the supply.
LEMMA RedemptionEffect ==
    ASSUME StakedInv, NEW q \in Nat, q > 0, Redemption(q)
    PROVE  /\ QuantityNetFees(q) \in Nat
           /\ UNCHANGED <<positions, stakingPositions, isStakingModule,
                          issuanceSettings, version, roundings>>
           /\ totalSupply' \in Nat
           /\ totalSupply' <= totalSupply - QuantityNetFees(q)
           /\ balances' \in [Components -> Nat]
           /\ staked' = [c \in Components |-> [k \in StakingContracts |->
                           staked[c][k] - HookNotional(c, k, QuantityNetFees(q))]]
           /\ \A c \in Components, k \in StakingContracts :
                staked[c][k] - HookNotional(c, k, QuantityNetFees(q)) \in Nat
           /\ version = 1 => \A c \in Components :
                balances'[c] = balances[c] - EquityOut(c, QuantityNetFees(q))
                                 + componentHook(c, QuantityNetFees(q))
  <1> DEFINE t == QuantityNetFees(q)
             rate == issuanceSettings.managerRedeemFee
  <1>1. StakesTypeOK /\ PositionsStaked /\ StakingUnitsMatch
    BY DEF StakedInv
  <1>2. totalSupply \in Nat /\ rate \in Nat /\ balances \in [Components -> Nat]
    BY <1>1 DEF StakesTypeOK
  <1>3. /\ t = q - totalFee(rate, q)
        /\ totalFee(rate, q) \in Nat
        /\ MintedFees(rate, q) \in Nat
        /\ MintedFees(rate, q) <= totalFee(rate, q)
    BY <1>2, FeeTerms DEF QuantityNetFees
  <1>4. /\ UNCHANGED <<positions, stakingPositions, isStakingModule,
                       issuanceSettings, version, roundings>>
        /\ q <= totalSupply /\ t >= 0
        /\ totalSupply' = totalSupply - q + MintedFees(rate, q)
        /\ staked' = StakedOnRedeem(t)
        /\ \A c \in Components, k \in StakingContracts : staked'[c][k] >= 0
    BY DEF Redemption, redeem, redeemV2, issuanceVars
  <1>5. balances' \in [Components -> Nat]
    <2>1. PICK after : /\ \A c \in Components : after[c] \in 0..MaxBalance
                       /\ balances' = [c \in Components |-> after[c]]
      <3>1. CASE version = 1
        <4> DEFINE to(c) == balances[c] + DebtIn(c, t) - EquityOut(c, t)
                + Rounds(EquityOut(c, t), DebtIn(c, t)) * Hooks(t)[c]
                   after == [c \in Components |-> to(c)]
        <4>1. /\ \A c \in Components : to(c) \in 0..MaxBalance
              /\ balances' = [c \in Components |-> to(c)]
          BY <3>1 DEF Redemption, redeem
        <4> HIDE DEF to
        <4>2. /\ \A c \in Components : after[c] \in 0..MaxBalance
              /\ balances' = [c \in Components |-> after[c]]
          BY <4>1
        <4> QED BY <4>2
      <3>2. CASE version # 1
        <4>1. PICK in \in Errors, out \in Errors : redeemV2(q, Hooks(t), in, out)
          BY <3>2 DEF Redemption
        <4> DEFINE equity(c) == EquityOut(c, t)
                   debt(c) == DebtIn(c, t)
                   received(c) == balances[c] + Moved(debt(c), in[c])
                   to(c) == received(c) + Rounds(equity(c), debt(c)) * Hooks(t)[c]
                                - Moved(equity(c), out[c])
                   after == [c \in Components |-> to(c)]
        <4>2. /\ \A c \in Components : to(c) \in 0..MaxBalance
              /\ balances' = [c \in Components |-> to(c)]
          BY <4>1 DEF redeemV2
        <4> HIDE DEF to
        <4>3. /\ \A c \in Components : after[c] \in 0..MaxBalance
              /\ balances' = [c \in Components |-> after[c]]
          BY <4>2
        <4> QED BY <4>3
      <3> QED BY <3>1, <3>2
    <2>2. \A c \in Components : after[c] \in Nat
      BY <2>1, VaultAssumption
    <2> QED BY <2>1, <2>2
  <1>6. t \in Nat
    BY <1>3, <1>4
  <1>7. totalSupply' \in Nat /\ totalSupply' <= totalSupply - t
    BY <1>2, <1>3, <1>4
  <1> HIDE DEF t
  <1>8. ASSUME NEW c \in Components
        PROVE  /\ DebtIn(c, t) = 0
               /\ EquityOut(c, t) = 0 => componentHook(c, t) = 0
               /\ EquityOut(c, t) \in Nat /\ componentHook(c, t) \in Nat
               /\ \A k \in StakingContracts :
                    /\ EquityOut(c, t) = 0 => HookNotional(c, k, t) = 0
                    /\ HookNotional(c, k, t) \in Nat
    <2>1. DebtIn(c, t) = 0
      BY <1>1, <1>6, QuantityTerms
    <2>2. /\ EquityOut(c, t) \in Nat
          /\ EquityOut(c, t) = 0 => componentHook(c, t) = 0
          /\ \A k \in StakingContracts : EquityOut(c, t) = 0 => HookNotional(c, k, t) = 0
      BY <1>1, <1>6, HooksWithoutEquity
    <2>3. /\ componentHook(c, t) \in Nat
          /\ [k \in StakingContracts |-> HookNotional(c, k, t)] \in [StakingContracts -> Nat]
      BY <1>1, <1>6, HookTerms
    <2> QED BY <2>1, <2>2, <2>3
  <1>9. ASSUME NEW c \in Components, NEW k \in StakingContracts
        PROVE  staked[c][k] - Rounds(EquityOut(c, t), DebtIn(c, t)) * HookNotional(c, k, t)
                 = staked[c][k] - HookNotional(c, k, t)
    <2>1. Rounds(EquityOut(c, t), DebtIn(c, t)) * HookNotional(c, k, t)
            = HookNotional(c, k, t)
      BY <1>8 DEF Rounds
    <2> QED BY <2>1
  <1>10. staked' = [c \in Components |-> [k \in StakingContracts |->
                      staked[c][k] - HookNotional(c, k, t)]]
    BY <1>4, <1>9 DEF StakedOnRedeem
  <1>11. ASSUME version = 1, NEW c \in Components
         PROVE  balances'[c] = balances[c] - EquityOut(c, t) + componentHook(c, t)
    <2>1. redeem(q, Hooks(t))
      BY <1>11 DEF Redemption, t
    <2>2. Hooks(t)[c] = componentHook(c, t)
      BY DEF Hooks
    <2>3. balances'[c] = balances[c] + DebtIn(c, t) - EquityOut(c, t)
            + Rounds(EquityOut(c, t), DebtIn(c, t)) * Hooks(t)[c]
      BY <2>1 DEF redeem, t
    <2>4. Rounds(EquityOut(c, t), DebtIn(c, t)) * componentHook(c, t) = componentHook(c, t)
      BY <1>8 DEF Rounds
    <2>5. balances[c] \in Nat
      BY <1>2
    <2> QED BY <1>8, <2>2, <2>3, <2>4, <2>5
  <1>12. ASSUME NEW c \in Components, NEW k \in StakingContracts
         PROVE  staked[c][k] - HookNotional(c, k, t) \in Nat
    <2>1. staked[c][k] \in Nat
      BY <1>1 DEF StakesTypeOK
    <2>2. staked'[c][k] = staked[c][k] - HookNotional(c, k, t)
      BY <1>10
    <2> QED BY <1>4, <1>8, <2>1, <2>2
  <1> QED BY <1>4, <1>5, <1>6, <1>7, <1>10, <1>11, <1>12 DEF t

-----------------------------------------------------------------------------
\* How far a contract may fall short of the supply times the units staked in
\* it: n is what it holds, r counts the roundings so far.
LEMMA ShortfallOnIssue ==
    ASSUME NEW s \in Nat, NEW t \in Nat, NEW u \in Nat, NEW n \in Nat, NEW r \in Nat,
           NEW z \in Nat, z <= s + t, s * u <= (n + r) * PRECISE_UNIT
    PROVE  z * u <= (n + preciseMul(t, u) + (r + 1)) * PRECISE_UNIT
  <1> DEFINE h == preciseMul(t, u)
  <1>1. PRECISE_UNIT \in Nat
    BY PreciseUnitAssumption
  <1>2. h \in Nat /\ t * u < h * PRECISE_UNIT + PRECISE_UNIT
    BY PreciseMulFloor, PreciseMulAbove
  <1> HIDE DEF h
  <1>3. z * u <= (s + t) * u
    BY MulMonotonic
  <1>4. (s + t) * u = s * u + t * u
    OBVIOUS
  <1>5. (n + h + (r + 1)) * PRECISE_UNIT
          = (n + r) * PRECISE_UNIT + h * PRECISE_UNIT + PRECISE_UNIT
    BY <1>1, <1>2
  <1>6. /\ s * u \in Int /\ t * u \in Int /\ z * u \in Int
        /\ (n + r) * PRECISE_UNIT \in Int /\ h * PRECISE_UNIT \in Int
    BY <1>1, <1>2
  <1>7. z * u <= (n + h + (r + 1)) * PRECISE_UNIT
    BY <1>1, <1>2, <1>3, <1>4, <1>5, <1>6
  <1> QED BY <1>7 DEF h

LEMMA ShortfallOnRedeem ==
    ASSUME NEW s \in Nat, NEW t \in Nat, NEW u \in Nat, NEW n \in Nat, NEW r \in Nat,
           NEW z \in Nat, z <= s - t, s * u <= (n + r) * PRECISE_UNIT
    PROVE  z * u <= (n - preciseMul(t, u) + r) * PRECISE_UNIT
  <1> DEFINE h == preciseMul(t, u)
  <1>1. PRECISE_UNIT \in Nat
    BY PreciseUnitAssumption
  <1>2. h \in Nat /\ h * PRECISE_UNIT <= t * u
    BY PreciseMulFloor
  <1> HIDE DEF h
  <1>3. (z + t) * u <= s * u
    BY MulMonotonic
  <1>4. (z + t) * u = z * u + t * u
    OBVIOUS
  <1>5. (n - h + r) * PRECISE_UNIT = (n + r) * PRECISE_UNIT - h * PRECISE_UNIT
    BY <1>1, <1>2
  <1>6. /\ s * u \in Int /\ t * u \in Int /\ z * u \in Int
        /\ (n + r) * PRECISE_UNIT \in Int /\ h * PRECISE_UNIT \in Int
    BY <1>1, <1>2
  <1>7. z * u <= (n - h + r) * PRECISE_UNIT
    BY <1>2, <1>3, <1>4, <1>5, <1>6
  <1> QED BY <1>7 DEF h

LEMMA ShortfallOnStake ==
    ASSUME NEW s \in Nat, NEW v \in Nat, NEW u \in Nat, NEW n \in Nat, NEW r \in Nat,
           s * u <= (n + r) * PRECISE_UNIT
    PROVE  s * (u + v) <= (n + preciseMul(s, v) + (r + 1)) * PRECISE_UNIT
  <1> DEFINE h == preciseMul(s, v)
  <1>1. PRECISE_UNIT \in Nat
    BY PreciseUnitAssumption
  <1>2. h \in Nat /\ s * v < h * PRECISE_UNIT + PRECISE_UNIT
    BY PreciseMulFloor, PreciseMulAbove
  <1> HIDE DEF h
  <1>3. s * (u + v) = s * u + s * v
    OBVIOUS
  <1>4. (n + h + (r + 1)) * PRECISE_UNIT
          = (n + r) * PRECISE_UNIT + h * PRECISE_UNIT + PRECISE_UNIT
    BY <1>1, <1>2
  <1>5. /\ s * u \in Int /\ s * v \in Int
        /\ (n + r) * PRECISE_UNIT \in Int /\ h * PRECISE_UNIT \in Int
    BY <1>1, <1>2
  <1>6. s * (u + v) <= (n + h + (r + 1)) * PRECISE_UNIT
    BY <1>1, <1>2, <1>3, <1>4, <1>5
  <1> QED BY <1>6 DEF h

LEMMA ShortfallOnUnstake ==
    ASSUME NEW s \in Nat, NEW v \in Nat, NEW u \in Nat, NEW n \in Nat, NEW r \in Nat,
           v <= u, s * u <= (n + r) * PRECISE_UNIT
    PROVE  s * (u - v) <= (n - preciseMul(s, v) + r) * PRECISE_UNIT
  <1> DEFINE h == preciseMul(s, v)
  <1>1. PRECISE_UNIT \in Nat
    BY PreciseUnitAssumption
  <1>2. h \in Nat /\ h * PRECISE_UNIT <= s * v
    BY PreciseMulFloor
  <1> HIDE DEF h
  <1>3. s * (u - v) = s * u - s * v
    OBVIOUS
  <1>4. (n - h + r) * PRECISE_UNIT = (n + r) * PRECISE_UNIT - h * PRECISE_UNIT
    BY <1>1, <1>2
  <1>5. /\ s * u \in Int /\ s * v \in Int
        /\ (n + r) * PRECISE_UNIT \in Int /\ h * PRECISE_UNIT \in Int
    BY <1>1, <1>2
  <1>6. s * (u - v) <= (n - h + r) * PRECISE_UNIT
    BY <1>2, <1>3, <1>4, <1>5
  <1> QED BY <1>6 DEF h

\* Tokens and stakes back an equity of e units per SetToken: n tokens backed
\* a supply of s, and an issuance or redemption pays for what it mints.
LEMMA BackedOnIssue ==
    ASSUME NEW n \in Int, NEW e \in Nat, NEW s \in Nat, NEW t \in Nat, NEW z \in Nat,
           NEW i \in Nat, z <= s + t, i * PRECISE_UNIT >= e * t,
           n * PRECISE_UNIT >= s * e
    PROVE  (n + i) * PRECISE_UNIT >= z * e
  <1>1. PRECISE_UNIT \in Nat
    BY PreciseUnitAssumption
  <1>2. z * e <= (s + t) * e
    BY MulMonotonic
  <1>3. (s + t) * e = s * e + e * t
    OBVIOUS
  <1>4. (n + i) * PRECISE_UNIT = n * PRECISE_UNIT + i * PRECISE_UNIT
    BY <1>1
  <1>5. /\ z * e \in Int /\ s * e \in Int /\ e * t \in Int
        /\ n * PRECISE_UNIT \in Int /\ i * PRECISE_UNIT \in Int
    BY <1>1
  <1> QED BY <1>2, <1>3, <1>4, <1>5

LEMMA BackedOnRedeem ==
    ASSUME NEW n \in Int, NEW e \in Nat, NEW s \in Nat, NEW t \in Nat, NEW z \in Nat,
           NEW o \in Nat, z <= s - t, o * PRECISE_UNIT <= e * t,
           n * PRECISE_UNIT >= s * e
    PROVE  (n - o) * PRECISE_UNIT >= z * e
  <1>1. PRECISE_UNIT \in Nat
    BY PreciseUnitAssumption
  <1>2. (z + t) * e <= s * e
    BY MulMonotonic
  <1>3. (z + t) * e = z * e + e * t
    OBVIOUS
  <1>4. (n - o) * PRECISE_UNIT = n * PRECISE_UNIT - o * PRECISE_UNIT
    BY <1>1
  <1>5. /\ z * e \in Int /\ s * e \in Int /\ e * t \in Int
        /\ n * PRECISE_UNIT \in Int /\ o * PRECISE_UNIT \in Int
    BY <1>1
  <1> QED BY <1>2, <1>3, <1>4, <1>5

-----------------------------------------------------------------------------
\* Hooks that run for t SetTokens move the stakes of a component together.
LEMMA HooksMove ==
    ASSUME StakesTypeOK, PositionsStaked, StakingUnitsMatch,
           NEW c \in Components, NEW t \in Nat, NEW a \in Int,
           NEW row \in [StakingContracts -> Int],
           \A k \in StakingContracts : row[k] = staked[c][k] + a * HookNotional(c, k, t)
    PROVE  /\ AllStaked(c) \in Int
           /\ SumFunction(row) = AllStaked(c) + a * componentHook(c, t)
  <1> DEFINE f == [k \in StakingContracts |-> staked[c][k]]
             g == [k \in StakingContracts |-> HookNotional(c, k, t)]
  <1>1. IsFiniteSet(StakingContracts)
    BY StakingAssumption
  <1>2. /\ f \in [StakingContracts -> Int]
        /\ \A k \in StakingContracts : f[k] = staked[c][k]
    BY DEF StakesTypeOK
  <1>3. /\ g \in [StakingContracts -> Nat]
        /\ componentHook(c, t) = SumFunction(g)
        /\ componentHook(c, t) \in Nat
    BY HookTerms
  <1>4. \A k \in StakingContracts : g[k] = HookNotional(c, k, t)
    OBVIOUS
  <1>5. AllStaked(c) = SumFunction(f)
    BY DEF AllStaked
  <1> HIDE DEF f, g
  <1>6. g \in [StakingContracts -> Int]
    BY <1>3
  <1>7. ASSUME NEW k \in StakingContracts
        PROVE  row[k] = a * g[k] + f[k]
    <2>1. row[k] = staked[c][k] + a * g[k]
      BY <1>4
    <2>2. staked[c][k] = f[k] /\ f[k] \in Int /\ g[k] \in Int
      BY <1>2, <1>6
    <2>3. a * g[k] \in Int
      BY <2>2
    <2> QED BY <2>1, <2>2, <2>3
  <1>8. SumFunction(row) = a * SumFunction(g) + SumFunction(f)
    BY <1>1, <1>2, <1>6, <1>7, SumLinear
  <1>9. SumFunction(f) \in Int
    BY <1>1, <1>2, SumInt
  <1>10. a * componentHook(c, t) \in Int
    BY <1>3
  <1> QED BY <1>3, <1>5, <1>8, <1>9, <1>10

LEMMA IssuanceKeeps ==
    ASSUME StakedInv, NEW q \in Nat, q > 0, Issuance(q)
    PROVE  StakedInv'
  <1> DEFINE t == QuantityWithFees(q)
             e(c) == DefaultUnit(c) + StakedUnit(c)
             row(c) == [k \in StakingContracts |-> staked[c][k] + HookNotional(c, k, t)]
  <1>1. /\ StakesTypeOK /\ PositionsStaked /\ StakingUnitsMatch /\ ShortfallInUnits
        /\ StakeAndDefaultBacked /\ RemovedWhenClosed
    BY DEF StakedInv
  <1>2. /\ t \in Nat /\ t > 0
        /\ UNCHANGED <<positions, stakingPositions, isStakingModule,
                       issuanceSettings, version>>
        /\ roundings' = roundings + 1
        /\ totalSupply' \in Nat
        /\ totalSupply' <= totalSupply + t
        /\ balances' \in [Components -> Nat]
        /\ staked' = [c \in Components |-> row(c)]
        /\ version = 1 => \A c \in Components :
             balances'[c] = balances[c] + EquityIn(c, t) - componentHook(c, t)
    BY IssuanceEffect
  <1>3. /\ totalSupply \in Nat /\ roundings \in Nat
        /\ balances \in [Components -> Nat]
        /\ staked \in [Components -> [StakingContracts -> Nat]]
    BY <1>1 DEF StakesTypeOK
  <1> HIDE DEF t
  <1>4. ASSUME NEW c \in Components, NEW k \in StakingContracts
        PROVE  /\ HookNotional(c, k, t) = preciseMul(t, getStakingPositionUnit(c, k))
               /\ HookNotional(c, k, t) \in Nat
               /\ getStakingPositionUnit(c, k) \in Nat
               /\ staked[c][k] \in Nat
               /\ staked'[c][k] = staked[c][k] + HookNotional(c, k, t)
    <2>1. HookNotional(c, k, t) = preciseMul(t, getStakingPositionUnit(c, k))
      BY <1>1, <1>2, QuantityTerms
    <2>2. getStakingPositionUnit(c, k) \in Nat
      BY <1>1, StakeTerms
    <2>3. HookNotional(c, k, t) \in Nat
      BY <1>2, <2>1, <2>2, PreciseMulFloor
    <2> QED BY <1>2, <1>3, <2>1, <2>2, <2>3
  <1>5. StakesTypeOK'
    <2>1. staked' \in [Components -> [StakingContracts -> Nat]]
      <3>1. ASSUME NEW c \in Components PROVE row(c) \in [StakingContracts -> Nat]
        BY <1>4
      <3> HIDE DEF row
      <3> QED BY <1>2, <3>1
    <2> QED BY <1>1, <1>2, <1>3, <2>1 DEF StakesTypeOK
  <1>6. PositionsStaked'
    BY <1>1, <1>2 DEF PositionsStaked, PositionsInv
  <1>7. StakingUnitsMatch'
    BY <1>1, <1>2 DEF StakingUnitsMatch, StakingUnits, getStakingPositionUnit,
                      hasStakingPosition
  <1>8. ShortfallInUnits'
    <2>1. ASSUME NEW c \in Components, NEW k \in StakingContracts
          PROVE  totalSupply' * getStakingPositionUnit(c, k)
                   <= (staked'[c][k] + roundings') * PRECISE_UNIT
      <3> DEFINE u == getStakingPositionUnit(c, k)
                 n == staked[c][k]
      <3>1. totalSupply * u <= (n + roundings) * PRECISE_UNIT
        BY <1>1 DEF ShortfallInUnits
      <3>2. /\ u \in Nat /\ n \in Nat
            /\ staked'[c][k] = n + preciseMul(t, u)
        BY <1>4
      <3> HIDE DEF u, n
      <3>3. totalSupply' * u <= (n + preciseMul(t, u) + (roundings + 1)) * PRECISE_UNIT
        BY <1>2, <1>3, <3>1, <3>2, ShortfallOnIssue
      <3> QED BY <1>2, <3>2, <3>3 DEF u, n
    <2>2. \A c \in Components, k \in StakingContracts :
             getStakingPositionUnit(c, k)' = getStakingPositionUnit(c, k)
      BY <1>2 DEF getStakingPositionUnit
    <2> QED BY <2>1, <2>2 DEF ShortfallInUnits
  <1>9. StakeAndDefaultBacked'
    <2>1. ASSUME version' = 1, NEW c \in Components
          PROVE  (balances'[c] + AllStaked(c)') * PRECISE_UNIT >= totalSupply' * e(c)
      <3> DEFINE n == balances[c] + AllStaked(c)
      <3>1. /\ EquityIn(c, t) \in Nat
            /\ EquityIn(c, t) * PRECISE_UNIT >= e(c) * t
        BY <1>1, <1>2, HooksWithoutEquity
      <3>2. e(c) \in Nat
        BY <1>1, StakeTerms
      <3>3. row(c) \in [StakingContracts -> Int]
            /\ \A k \in StakingContracts :
                 row(c)[k] = staked[c][k] + 1 * HookNotional(c, k, t)
        BY <1>4
      <3>4. componentHook(c, t) \in Nat
        BY <1>1, <1>2, HookTerms
      <3>5. AllStaked(c)' = SumFunction(row(c))
        <4>1. [k \in StakingContracts |-> staked'[c][k]] = row(c)
          BY <1>2
        <4> QED BY <4>1 DEF AllStaked
      <3> HIDE DEF row
      <3>6. /\ AllStaked(c) \in Int
            /\ AllStaked(c)' = AllStaked(c) + componentHook(c, t)
        <4>1. /\ AllStaked(c) \in Int
              /\ SumFunction(row(c)) = AllStaked(c) + 1 * componentHook(c, t)
          BY <1>1, <1>2, <3>3, HooksMove
        <4> QED BY <3>4, <3>5, <4>1
      <3>7. balances'[c] = balances[c] + EquityIn(c, t) - componentHook(c, t)
        BY <1>2, <2>1
      <3>8. n * PRECISE_UNIT >= totalSupply * e(c)
        BY <1>1, <1>2, <2>1 DEF StakeAndDefaultBacked, DefaultUnit, StakedUnit
      <3>9. n \in Int
        BY <1>3, <3>6
      <3>10. balances'[c] + AllStaked(c)' = n + EquityIn(c, t)
        BY <1>3, <3>1, <3>4, <3>6, <3>7
      <3> HIDE DEF n, e
      <3> QED BY <1>2, <1>3, <3>1, <3>2, <3>8, <3>9, <3>10, BackedOnIssue
    <2>2. \A c \in Components :
            e(c) = getDefaultPositionRealUnit(positions', c)
                     + getExternalPositionRealUnit(positions', c, Staking)
      BY <1>2 DEF DefaultUnit, StakedUnit
    <2> HIDE DEF e
    <2> QED BY <2>1, <2>2 DEF StakeAndDefaultBacked
  <1>10. RemovedWhenClosed'
    BY <1>1, <1>2 DEF RemovedWhenClosed
  <1> QED BY <1>5, <1>6, <1>7, <1>8, <1>9, <1>10 DEF StakedInv

LEMMA RedemptionKeeps ==
    ASSUME StakedInv, NEW q \in Nat, q > 0, Redemption(q)
    PROVE  StakedInv'
  <1> DEFINE t == QuantityNetFees(q)
             e(c) == DefaultUnit(c) + StakedUnit(c)
             row(c) == [k \in StakingContracts |-> staked[c][k] - HookNotional(c, k, t)]
  <1>1. /\ StakesTypeOK /\ PositionsStaked /\ StakingUnitsMatch /\ ShortfallInUnits
        /\ StakeAndDefaultBacked /\ RemovedWhenClosed
    BY DEF StakedInv
  <1>2. /\ t \in Nat
        /\ UNCHANGED <<positions, stakingPositions, isStakingModule,
                       issuanceSettings, version, roundings>>
        /\ totalSupply' \in Nat
        /\ totalSupply' <= totalSupply - t
        /\ balances' \in [Components -> Nat]
        /\ staked' = [c \in Components |-> row(c)]
        /\ \A c \in Components, k \in StakingContracts :
             staked[c][k] - HookNotional(c, k, t) \in Nat
        /\ version = 1 => \A c \in Components :
             balances'[c] = balances[c] - EquityOut(c, t) + componentHook(c, t)
    BY RedemptionEffect
  <1>3. /\ totalSupply \in Nat /\ roundings \in Nat
        /\ balances \in [Components -> Nat]
        /\ staked \in [Components -> [StakingContracts -> Nat]]
    BY <1>1 DEF StakesTypeOK
  <1> HIDE DEF t
  <1>4. ASSUME NEW c \in Components, NEW k \in StakingContracts
        PROVE  /\ HookNotional(c, k, t) = preciseMul(t, getStakingPositionUnit(c, k))
               /\ HookNotional(c, k, t) \in Nat
               /\ getStakingPositionUnit(c, k) \in Nat
               /\ staked[c][k] \in Nat
               /\ staked'[c][k] = staked[c][k] - HookNotional(c, k, t)
    <2>1. HookNotional(c, k, t) = preciseMul(t, getStakingPositionUnit(c, k))
      BY <1>1, <1>2, QuantityTerms
    <2>2. getStakingPositionUnit(c, k) \in Nat
      BY <1>1, StakeTerms
    <2>3. HookNotional(c, k, t) \in Nat
      BY <1>2, <2>1, <2>2, PreciseMulFloor
    <2> QED BY <1>2, <1>3, <2>1, <2>2, <2>3
  <1>5. StakesTypeOK'
    <2>1. staked' \in [Components -> [StakingContracts -> Nat]]
      <3>1. ASSUME NEW c \in Components PROVE row(c) \in [StakingContracts -> Nat]
        BY <1>2
      <3> HIDE DEF row
      <3> QED BY <1>2, <3>1
    <2> QED BY <1>1, <1>2, <1>3, <2>1 DEF StakesTypeOK
  <1>6. PositionsStaked'
    BY <1>1, <1>2 DEF PositionsStaked, PositionsInv
  <1>7. StakingUnitsMatch'
    BY <1>1, <1>2 DEF StakingUnitsMatch, StakingUnits, getStakingPositionUnit,
                      hasStakingPosition
  <1>8. ShortfallInUnits'
    <2>1. ASSUME NEW c \in Components, NEW k \in StakingContracts
          PROVE  totalSupply' * getStakingPositionUnit(c, k)
                   <= (staked'[c][k] + roundings') * PRECISE_UNIT
      <3> DEFINE u == getStakingPositionUnit(c, k)
                 n == staked[c][k]
      <3>1. totalSupply * u <= (n + roundings) * PRECISE_UNIT
        BY <1>1 DEF ShortfallInUnits
      <3>2. /\ u \in Nat /\ n \in Nat
            /\ staked'[c][k] = n - preciseMul(t, u)
        BY <1>4
      <3> HIDE DEF u, n
      <3>3. totalSupply' * u <= (n - preciseMul(t, u) + roundings) * PRECISE_UNIT
        BY <1>2, <1>3, <3>1, <3>2, ShortfallOnRedeem
      <3> QED BY <1>2, <3>2, <3>3 DEF u, n
    <2>2. \A c \in Components, k \in StakingContracts :
             getStakingPositionUnit(c, k)' = getStakingPositionUnit(c, k)
      BY <1>2 DEF getStakingPositionUnit
    <2> QED BY <2>1, <2>2 DEF ShortfallInUnits
  <1>9. StakeAndDefaultBacked'
    <2>1. ASSUME version' = 1, NEW c \in Components
          PROVE  (balances'[c] + AllStaked(c)') * PRECISE_UNIT >= totalSupply' * e(c)
      <3> DEFINE n == balances[c] + AllStaked(c)
      <3>1. /\ EquityOut(c, t) \in Nat
            /\ EquityOut(c, t) * PRECISE_UNIT <= e(c) * t
        BY <1>1, <1>2, HooksWithoutEquity
      <3>2. e(c) \in Nat
        BY <1>1, StakeTerms
      <3>3. row(c) \in [StakingContracts -> Int]
            /\ \A k \in StakingContracts :
                 row(c)[k] = staked[c][k] + (-1) * HookNotional(c, k, t)
        BY <1>4
      <3>4. componentHook(c, t) \in Nat
        BY <1>1, <1>2, HookTerms
      <3>5. AllStaked(c)' = SumFunction(row(c))
        <4>1. [k \in StakingContracts |-> staked'[c][k]] = row(c)
          BY <1>2
        <4> QED BY <4>1 DEF AllStaked
      <3> HIDE DEF row
      <3>6. /\ AllStaked(c) \in Int
            /\ AllStaked(c)' = AllStaked(c) - componentHook(c, t)
        <4>1. /\ AllStaked(c) \in Int
              /\ SumFunction(row(c)) = AllStaked(c) + (-1) * componentHook(c, t)
          BY <1>1, <1>2, <3>3, HooksMove
        <4> QED BY <3>4, <3>5, <4>1
      <3>7. balances'[c] = balances[c] - EquityOut(c, t) + componentHook(c, t)
        BY <1>2, <2>1
      <3>8. n * PRECISE_UNIT >= totalSupply * e(c)
        BY <1>1, <1>2, <2>1 DEF StakeAndDefaultBacked, DefaultUnit, StakedUnit
      <3>9. n \in Int
        BY <1>3, <3>6
      <3>10. balances'[c] + AllStaked(c)' = n - EquityOut(c, t)
        BY <1>3, <3>1, <3>4, <3>6, <3>7
      <3> HIDE DEF n, e
      <3> QED BY <1>2, <1>3, <3>1, <3>2, <3>8, <3>9, <3>10, BackedOnRedeem
    <2>2. \A c \in Components :
            e(c) = getDefaultPositionRealUnit(positions', c)
                     + getExternalPositionRealUnit(positions', c, Staking)
      BY <1>2 DEF DefaultUnit, StakedUnit
    <2> HIDE DEF e
    <2> QED BY <2>1, <2>2 DEF StakeAndDefaultBacked
  <1>10. RemovedWhenClosed'
    BY <1>1, <1>2 DEF RemovedWhenClosed
  <1> QED BY <1>5, <1>6, <1>7, <1>8, <1>9, <1>10 DEF StakedInv

\* A component's entry with one of its units replaced.
LEMMA UnitReplaced ==
    ASSUME NEW K, NEW L, NEW V, NEW r \in [stakingContracts : L, units : [K -> V]],
           NEW k, NEW v
    PROVE  [r EXCEPT !.units[k] = v] = [stakingContracts |-> r.stakingContracts,
                                        units |-> [r.units EXCEPT ![k] = v]]
  OBVIOUS

\* A component's entry with its list replaced.
LEMMA ListReplaced ==
    ASSUME NEW K, NEW L, NEW V, NEW r \in [stakingContracts : L, units : [K -> V]],
           NEW A \in L
    PROVE  LET s == [r EXCEPT !.stakingContracts = A]
           IN  /\ s \in [stakingContracts : L, units : [K -> V]]
               /\ s.stakingContracts = A /\ s.units = r.units
  OBVIOUS

\* What stake and unstake have in common: u units, negative ones included,
\* and n tokens move to a contract, and its list entry with them.
Shifting(c, k, u, n) ==
    /\ isStakingModule
    /\ UNCHANGED <<totalSupply, isStakingModule, issuanceSettings, version>>
    /\ positions' \in Shifted(c, u)
    /\ balances' = [balances EXCEPT ![c] = @ - n]
    /\ balances[c] - n \in Nat
    /\ staked' = [staked EXCEPT ![c][k] = @ + n]
    /\ staked[c][k] + n \in Nat
    /\ stakingPositions' \in
         [Components -> [stakingContracts : Seq(StakingContracts),
                         units : [StakingContracts -> Nat]]]
    /\ \A d \in Components, j \in StakingContracts :
         stakingPositions'[d].units[j] =
           IF d = c /\ j = k THEN getStakingPositionUnit(c, k) + u
           ELSE getStakingPositionUnit(d, j)
    /\ \A d \in Components :
         /\ ~hasDuplicate(stakingPositions'[d].stakingContracts)
         /\ \A j \in StakingContracts : stakingPositions'[d].units[j] > 0 =>
              contains(stakingPositions'[d].stakingContracts, j)
    /\ roundings' \in Nat /\ roundings <= roundings'
    /\ totalSupply * (getStakingPositionUnit(c, k) + u)
         <= (staked[c][k] + n + roundings') * PRECISE_UNIT

LEMMA ShiftKeeps ==
    ASSUME StakedInv, NEW c \in Components, NEW k \in StakingContracts,
           NEW u \in Int, NEW n \in Int, Shifting(c, k, u, n)
    PROVE  StakedInv'
  <1>1. /\ StakesTypeOK /\ PositionsStaked /\ StakingUnitsMatch /\ ShortfallInUnits
        /\ StakeAndDefaultBacked
    BY DEF StakedInv
  <1>2. /\ totalSupply \in Nat /\ roundings \in Nat
        /\ balances \in [Components -> Nat]
        /\ staked \in [Components -> [StakingContracts -> Nat]]
    BY <1>1 DEF StakesTypeOK
  <1>3. IsFiniteSet(StakingContracts)
    BY StakingAssumption
  <1>4. /\ totalSupply' = totalSupply /\ version' = version
        /\ issuanceSettings' = issuanceSettings
        /\ roundings' \in Nat /\ roundings <= roundings'
    BY DEF Shifting
  <1>5. /\ PositionsStaked'
        /\ \A d \in Components :
             /\ DefaultUnit(d)' = IF d = c THEN DefaultUnit(c) - u ELSE DefaultUnit(d)
             /\ StakedUnit(d)' = IF d = c THEN StakedUnit(c) + u ELSE StakedUnit(d)
    <2>1. positions' \in Shifted(c, u)
      BY DEF Shifting
    <2> QED BY <1>1, <2>1, ShiftedEffect
  <1>6. /\ \A d \in Components : balances'[d] = IF d = c THEN balances[c] - n ELSE balances[d]
        /\ balances' \in [Components -> Nat]
    BY <1>2 DEF Shifting
  <1>7. /\ \A d \in Components, j \in StakingContracts :
             staked'[d][j] = IF d = c /\ j = k THEN staked[c][k] + n ELSE staked[d][j]
        /\ staked' \in [Components -> [StakingContracts -> Nat]]
    <2>1. /\ staked' = [staked EXCEPT ![c][k] = @ + n]
          /\ staked[c][k] + n \in Nat
      BY DEF Shifting
    <2> QED BY <1>2, <2>1
  <1>8. stakingPositions' \in
          [Components -> [stakingContracts : Seq(StakingContracts),
                          units : [StakingContracts -> Nat]]]
    BY DEF Shifting
  <1>9. StakesTypeOK'
    BY <1>1, <1>2, <1>4, <1>6, <1>7, <1>8 DEF StakesTypeOK
  <1>10. \A d \in Components, j \in StakingContracts :
           /\ getStakingPositionUnit(d, j)' = IF d = c /\ j = k
                                              THEN getStakingPositionUnit(c, k) + u
                                              ELSE getStakingPositionUnit(d, j)
           /\ getStakingPositionUnit(d, j)' \in Int
    <2>1. \A d \in Components, j \in StakingContracts :
            stakingPositions'[d].units[j] \in Int
      BY <1>8
    <2> QED BY <2>1 DEF getStakingPositionUnit, Shifting
  <1>11. \A d \in Components :
           /\ UnitsOf(d) \in [StakingContracts -> Int]
           /\ SumFunction(UnitsOf(d)) = StakedUnit(d)
           /\ \A j \in StakingContracts :
                /\ UnitsOf(d)[j] = getStakingPositionUnit(d, j)
                /\ getStakingPositionUnit(d, j) \in Int
    <2>1. ASSUME NEW d \in Components
          PROVE  /\ UnitsOf(d) \in [StakingContracts -> Nat]
                 /\ SumFunction(UnitsOf(d)) = StakedUnit(d)
                 /\ \A j \in StakingContracts : UnitsOf(d)[j] = getStakingPositionUnit(d, j)
      <3>1. /\ UnitsOf(d) \in [StakingContracts -> Nat]
            /\ SumFunction(UnitsOf(d)) = StakedUnit(d)
        BY <1>1, StakeTerms
      <3> QED BY <3>1 DEF UnitsOf
    <2>2. ASSUME NEW d \in Components
          PROVE  /\ UnitsOf(d) \in [StakingContracts -> Int]
                 /\ \A j \in StakingContracts : UnitsOf(d)[j] \in Int
      BY <2>1
    <2> QED BY <2>1, <2>2
  <1>12. StakingUnitsMatch'
    <2>1. ASSUME NEW d \in Components PROVE StakingUnits(d)' = StakedUnit(d)'
      <3> DEFINE after == [j \in StakingContracts |-> getStakingPositionUnit(d, j)']
      <3>1. /\ after \in [StakingContracts -> Int]
            /\ \A j \in StakingContracts : after[j] = getStakingPositionUnit(d, j)'
        BY <1>10
      <3>2. StakingUnits(d)' = SumFunction(after)
        BY DEF StakingUnits
      <3> HIDE DEF after
      <3>3. CASE d = c
        <4> DEFINE before == UnitsOf(c)
        <4>1. /\ before \in [StakingContracts -> Int]
              /\ SumFunction(before) = StakedUnit(c)
          BY <1>11
        <4>2. \A j \in StakingContracts :
                after[j] = IF j = k THEN before[k] + u ELSE before[j]
          BY <1>10, <1>11, <3>1, <3>3
        <4> HIDE DEF before
        <4>3. SumFunction(after) = SumFunction(before) + u
          <5>1. /\ k \in StakingContracts
                /\ \A j \in StakingContracts \ {k} : after[j] = before[j]
                /\ after[k] = before[k] + u /\ before[k] \in Int
            BY <4>1, <4>2
          <5>2. SumFunction(after) = SumFunction(before) + (after[k] - before[k])
            BY <1>3, <3>1, <4>1, <5>1, SumChange
          <5> QED BY <5>1, <5>2
        <4>4. StakedUnit(d)' = StakedUnit(c) + u
          BY <1>5, <3>3
        <4> QED BY <3>2, <4>1, <4>3, <4>4
      <3>4. CASE d # c
        <4>1. \A j \in StakingContracts : after[j] = UnitsOf(d)[j]
          BY <1>10, <1>11, <3>1, <3>4
        <4>2. after = UnitsOf(d)
          BY <1>11, <3>1, <4>1
        <4>3. StakedUnit(d)' = StakedUnit(d)
          BY <1>5, <3>4
        <4> QED BY <1>11, <3>2, <4>2, <4>3
      <3> QED BY <3>3, <3>4
    <2>2. \A d \in Components :
            /\ ~hasDuplicate(stakingPositions'[d].stakingContracts)
            /\ \A j \in StakingContracts : stakingPositions'[d].units[j] > 0 =>
                 contains(stakingPositions'[d].stakingContracts, j)
      BY DEF Shifting
    <2> QED BY <2>1, <2>2 DEF StakingUnitsMatch, StakedUnit, getStakingPositionUnit,
                              hasStakingPosition
  <1>13. ShortfallInUnits'
    <2>1. ASSUME NEW d \in Components, NEW j \in StakingContracts
          PROVE  totalSupply * getStakingPositionUnit(d, j)'
                   <= (staked'[d][j] + roundings') * PRECISE_UNIT
      <3>1. CASE d = c /\ j = k
        <4>1. totalSupply * (getStakingPositionUnit(c, k) + u)
                <= (staked[c][k] + n + roundings') * PRECISE_UNIT
          BY DEF Shifting
        <4>2. /\ staked'[d][j] = staked[c][k] + n
              /\ getStakingPositionUnit(d, j)' = getStakingPositionUnit(c, k) + u
          BY <1>7, <1>10, <3>1
        <4> QED BY <4>1, <4>2
      <3>2. CASE ~(d = c /\ j = k)
        <4> DEFINE w == getStakingPositionUnit(d, j)
                   x == staked[d][j]
        <4>1. totalSupply * w <= (x + roundings) * PRECISE_UNIT
          BY <1>1 DEF ShortfallInUnits
        <4>2. x \in Nat /\ PRECISE_UNIT \in Nat /\ w \in Int
          BY <1>2, <1>11, PreciseUnitAssumption
        <4>3. staked'[d][j] = x /\ getStakingPositionUnit(d, j)' = w
          BY <1>7, <1>10, <3>2
        <4> HIDE DEF w, x
        <4> DEFINE r == roundings
                   z == roundings'
        <4>7. r \in Nat /\ z \in Nat /\ r <= z
          BY <1>2, <1>4
        <4> HIDE DEF r, z
        <4>8. x + r \in Int /\ x + z \in Int /\ x + r <= x + z
          BY <4>2, <4>7
        <4>4. x + roundings \in Int /\ x + roundings' \in Int
              /\ x + roundings <= x + roundings'
          BY <4>8 DEF r, z
        <4>5. (x + roundings) * PRECISE_UNIT <= (x + roundings') * PRECISE_UNIT
          BY <4>2, <4>4, MulMonotonic
        <4>6. /\ totalSupply * w \in Int
              /\ (x + roundings) * PRECISE_UNIT \in Int
              /\ (x + roundings') * PRECISE_UNIT \in Int
          BY <1>2, <4>2, <4>4
        <4> QED BY <4>1, <4>3, <4>5, <4>6
      <3> QED BY <3>1, <3>2
    <2> QED BY <1>4, <2>1 DEF ShortfallInUnits
  <1>14. StakeAndDefaultBacked'
    <2>1. ASSUME version' = 1, NEW d \in Components
          PROVE  (balances'[d] + AllStaked(d)') * PRECISE_UNIT
                   >= totalSupply' * (DefaultUnit(d)' + StakedUnit(d)')
      <3> DEFINE before == [j \in StakingContracts |-> staked[d][j]]
                 after == [j \in StakingContracts |-> staked'[d][j]]
      <3>1. before \in [StakingContracts -> Int] /\ after \in [StakingContracts -> Int]
        <4>1. \A j \in StakingContracts : staked[d][j] \in Int /\ staked'[d][j] \in Int
          BY <1>2, <1>7
        <4> QED BY <4>1
      <3>2. \A j \in StakingContracts : before[j] = staked[d][j] /\ after[j] = staked'[d][j]
        OBVIOUS
      <3>3. AllStaked(d) = SumFunction(before) /\ AllStaked(d)' = SumFunction(after)
        BY DEF AllStaked
      <3> HIDE DEF before, after
      <3>4. AllStaked(d) \in Int
        BY <1>3, <3>1, <3>3, SumInt
      <3>5. balances[d] \in Nat
        BY <1>2
      <3>6. balances'[d] + AllStaked(d)' = balances[d] + AllStaked(d)
        <4>1. CASE d = c
          <5>1. \A j \in StakingContracts : after[j] = IF j = k THEN before[k] + n ELSE before[j]
            BY <1>7, <3>2, <4>1
          <5>2. SumFunction(after) = SumFunction(before) + n
            <6>1. /\ k \in StakingContracts
                  /\ \A j \in StakingContracts \ {k} : after[j] = before[j]
                  /\ after[k] = before[k] + n /\ before[k] \in Int
              BY <3>1, <5>1
            <6>2. SumFunction(after) = SumFunction(before) + (after[k] - before[k])
              BY <1>3, <3>1, <6>1, SumChange
            <6> QED BY <6>1, <6>2
          <5>3. balances'[d] = balances[d] - n
            BY <1>6, <4>1
          <5> QED BY <3>3, <3>4, <3>5, <5>2, <5>3
        <4>2. CASE d # c
          <5>1. \A j \in StakingContracts : after[j] = before[j]
            BY <1>7, <3>2, <4>2
          <5>2. after = before
            BY <3>1, <5>1
          <5>3. balances'[d] = balances[d]
            BY <1>6, <4>2
          <5> QED BY <3>3, <5>2, <5>3
        <4> QED BY <4>1, <4>2
      <3>7. DefaultUnit(d) \in Nat /\ StakedUnit(d) \in Nat
        BY <1>1, StakeTerms
      <3>8. DefaultUnit(d)' + StakedUnit(d)' = DefaultUnit(d) + StakedUnit(d)
        <4>1. CASE d = c
          <5>1. /\ DefaultUnit(d)' = DefaultUnit(d) - u
                /\ StakedUnit(d)' = StakedUnit(d) + u
            BY <1>5, <4>1
          <5> QED BY <3>7, <5>1
        <4>2. CASE d # c
          BY <1>5, <4>2
        <4> QED BY <4>1, <4>2
      <3>9. (balances[d] + AllStaked(d)) * PRECISE_UNIT
              >= totalSupply * (DefaultUnit(d) + StakedUnit(d))
        BY <1>1, <1>4, <2>1 DEF StakeAndDefaultBacked, DefaultUnit, StakedUnit
      <3> QED BY <1>4, <3>6, <3>8, <3>9
    <2> QED BY <2>1 DEF StakeAndDefaultBacked, DefaultUnit, StakedUnit
  <1>15. RemovedWhenClosed'
    BY DEF RemovedWhenClosed, Shifting
  <1> QED BY <1>5, <1>9, <1>12, <1>13, <1>14, <1>15 DEF StakedInv

LEMMA StakeKeeps ==
    ASSUME StakedInv, NEW c \in Components, NEW k \in StakingContracts,
           NEW u \in Nat, Stake(c, k, u)
    PROVE  StakedInv'
  <1> DEFINE notional == preciseMul(totalSupply, u)
             old == stakingPositions[c]
             list == old.stakingContracts
  <1>1. StakesTypeOK /\ PositionsStaked /\ StakingUnitsMatch /\ ShortfallInUnits
    BY DEF StakedInv
  <1>2. /\ totalSupply \in Nat /\ roundings \in Nat
        /\ balances[c] \in Nat /\ staked[c][k] \in Nat
        /\ stakingPositions \in
             [Components -> [stakingContracts : Seq(StakingContracts),
                             units : [StakingContracts -> Nat]]]
    BY <1>1 DEF StakesTypeOK
  <1>3. /\ isStakingModule
        /\ UNCHANGED <<totalSupply, isStakingModule, issuanceSettings, version>>
        /\ notional <= balances[c]
        /\ balances' = [balances EXCEPT ![c] = @ - notional]
        /\ staked' = [staked EXCEPT ![c][k] = @ + notional]
        /\ stakingPositions' = updateStakeState(c, k, u)
        /\ positions' \in Shifted(c, u)
        /\ roundings' = roundings + 1
    BY DEF Stake, stake, getDefaultTotalNotional, issuanceVars
  <1>4. notional \in Nat
    BY <1>2, PreciseMulFloor
  <1>5. /\ list \in Seq(StakingContracts) /\ ~hasDuplicate(list)
        /\ old.units \in [StakingContracts -> Nat]
        /\ ~hasStakingPosition(c, k) => old.units[k] = 0
        /\ hasStakingPosition(c, k) <=> contains(list, k)
    <2>1. /\ old \in [stakingContracts : Seq(StakingContracts),
                      units : [StakingContracts -> Nat]]
      BY <1>2
    <2>2. /\ ~hasDuplicate(list)
          /\ old.units[k] > 0 => hasStakingPosition(c, k)
      BY <1>1 DEF StakingUnitsMatch, getStakingPositionUnit
    <2>3. old.units[k] \in Nat
      BY <2>1
    <2> QED BY <2>1, <2>2, <2>3 DEF hasStakingPosition
  <1> DEFINE longer == IF hasStakingPosition(c, k) THEN list ELSE Append(list, k)
             grown == [old.units EXCEPT ![k] = @ + u]
             new == [stakingContracts |-> longer, units |-> grown]
  <1>6. /\ longer \in Seq(StakingContracts) /\ ~hasDuplicate(longer)
        /\ \A j : contains(longer, j) <=> contains(list, j) \/ j = k
    BY <1>5, AppendAbsent
  <1>7. /\ grown \in [StakingContracts -> Nat]
        /\ \A j \in StakingContracts :
             grown[j] = IF j = k THEN old.units[k] + u ELSE old.units[j]
    BY <1>5
  <1>8. stakingPositions' = [stakingPositions EXCEPT ![c] = new]
    <2>1. stakingPositions' =
            [stakingPositions EXCEPT
               ![c] = [old EXCEPT !.stakingContracts = longer,
                                  !.units[k] = IF hasStakingPosition(c, k) THEN @ + u ELSE u]]
      BY <1>2, <1>3 DEF updateStakeState
    <2>2. [old.units EXCEPT ![k] = IF hasStakingPosition(c, k) THEN @ + u ELSE u] = grown
      BY <1>5
    <2>3. old \in [stakingContracts : Seq(StakingContracts),
                   units : [StakingContracts -> Nat]]
      BY <1>2
    <2> DEFINE v == IF hasStakingPosition(c, k) THEN old.units[k] + u ELSE u
    <2>4. /\ [old EXCEPT !.stakingContracts = longer,
                         !.units[k] = IF hasStakingPosition(c, k) THEN @ + u ELSE u]
               = [old EXCEPT !.stakingContracts = longer, !.units[k] = v]
          /\ [old.units EXCEPT ![k] = v] = grown
      BY <2>2
    <2> DEFINE s == [old EXCEPT !.stakingContracts = longer]
    <2>6. [old EXCEPT !.stakingContracts = longer, !.units[k] = v] = [s EXCEPT !.units[k] = v]
      OBVIOUS
    <2> HIDE DEF old, longer, grown, v
    <2>7. /\ s \in [stakingContracts : Seq(StakingContracts),
                    units : [StakingContracts -> Nat]]
          /\ s.stakingContracts = longer /\ s.units = old.units
      BY <1>6, <2>3, ListReplaced
    <2> HIDE DEF s
    <2>5. [s EXCEPT !.units[k] = v]
            = [stakingContracts |-> s.stakingContracts, units |-> [s.units EXCEPT ![k] = v]]
      BY <2>7, UnitReplaced
    <2> QED BY <2>1, <2>4, <2>5, <2>6, <2>7
  <1> HIDE DEF longer, grown
  <1>9. /\ stakingPositions' \in
             [Components -> [stakingContracts : Seq(StakingContracts),
                             units : [StakingContracts -> Nat]]]
        /\ \A d \in Components : d # c => stakingPositions'[d] = stakingPositions[d]
        /\ stakingPositions'[c].stakingContracts = longer
        /\ stakingPositions'[c].units = grown
    BY <1>2, <1>6, <1>7, <1>8
  <1>10. \A d \in Components, j \in StakingContracts :
           stakingPositions'[d].units[j] =
             IF d = c /\ j = k THEN getStakingPositionUnit(c, k) + u
             ELSE getStakingPositionUnit(d, j)
    BY <1>7, <1>9 DEF getStakingPositionUnit
  <1>11. ASSUME NEW d \in Components
         PROVE  /\ ~hasDuplicate(stakingPositions'[d].stakingContracts)
                /\ \A j \in StakingContracts : stakingPositions'[d].units[j] > 0 =>
                     contains(stakingPositions'[d].stakingContracts, j)
    <2>1. /\ ~hasDuplicate(stakingPositions[d].stakingContracts)
          /\ \A j \in StakingContracts : stakingPositions[d].units[j] > 0 =>
               contains(stakingPositions[d].stakingContracts, j)
      BY <1>1 DEF StakingUnitsMatch, getStakingPositionUnit, hasStakingPosition
    <2>2. CASE d # c
      BY <1>9, <2>1, <2>2
    <2>3. CASE d = c
      BY <1>6, <1>7, <1>9, <2>1, <2>3
    <2> QED BY <2>2, <2>3
  <1>12. getStakingPositionUnit(c, k) \in Nat
    BY <1>1, StakeTerms
  <1>13. totalSupply * getStakingPositionUnit(c, k)
           <= (staked[c][k] + roundings) * PRECISE_UNIT
    BY <1>1 DEF ShortfallInUnits
  <1>14. totalSupply * (getStakingPositionUnit(c, k) + u)
           <= (staked[c][k] + notional + roundings') * PRECISE_UNIT
    BY <1>2, <1>3, <1>12, <1>13, ShortfallOnStake
  <1>15. notional \in Nat /\ notional <= balances[c] /\ roundings' = roundings + 1
    BY <1>3, <1>4
  <1> HIDE DEF notional
  <1>17. /\ balances[c] - notional \in Nat /\ staked[c][k] + notional \in Nat
         /\ u \in Int /\ notional \in Int
         /\ roundings' \in Nat /\ roundings <= roundings'
    BY <1>2, <1>15
  <1>16. Shifting(c, k, u, notional)
    BY <1>3, <1>9, <1>10, <1>11, <1>14, <1>17 DEF Shifting, notional
  <1> QED BY <1>16, <1>17, ShiftKeeps

LEMMA UnstakeKeeps ==
    ASSUME StakedInv, NEW c \in Components, NEW k \in StakingContracts,
           NEW u \in Nat, Unstake(c, k, u)
    PROVE  StakedInv'
  <1> DEFINE notional == preciseMul(totalSupply, u)
             old == stakingPositions[c]
             list == old.stakingContracts
  <1>1. StakesTypeOK /\ PositionsStaked /\ StakingUnitsMatch /\ ShortfallInUnits
    BY DEF StakedInv
  <1>2. /\ totalSupply \in Nat /\ roundings \in Nat
        /\ balances[c] \in Nat /\ staked[c][k] \in Nat
        /\ stakingPositions \in
             [Components -> [stakingContracts : Seq(StakingContracts),
                             units : [StakingContracts -> Nat]]]
    BY <1>1 DEF StakesTypeOK
  <1>3. /\ isStakingModule
        /\ UNCHANGED <<totalSupply, isStakingModule, issuanceSettings, version, roundings>>
        /\ getStakingPositionUnit(c, k) >= u
        /\ getStakingPositionUnit(c, k) = u => hasStakingPosition(c, k)
        /\ notional <= staked[c][k]
        /\ balances' = [balances EXCEPT ![c] = @ + notional]
        /\ staked' = [staked EXCEPT ![c][k] = @ - notional]
        /\ stakingPositions' = updateUnstakeState(c, k, u)
        /\ positions' \in Shifted(c, -u)
    BY DEF Unstake, unstake, getDefaultTotalNotional, issuanceVars
  <1>4. notional \in Nat
    BY <1>2, PreciseMulFloor
  <1>5. /\ list \in Seq(StakingContracts) /\ ~hasDuplicate(list)
        /\ old.units \in [StakingContracts -> Nat]
        /\ old.units[k] >= u
        /\ old.units[k] = u => contains(list, k)
    <2>1. old \in [stakingContracts : Seq(StakingContracts),
                   units : [StakingContracts -> Nat]]
      BY <1>2
    <2>2. ~hasDuplicate(list)
      BY <1>1 DEF StakingUnitsMatch
    <2> QED BY <1>3, <2>1, <2>2 DEF hasStakingPosition, getStakingPositionUnit
  <1> DEFINE shorter == IF old.units[k] > u THEN list ELSE remove(list, k)
             less == [old.units EXCEPT ![k] = @ - u]
             new == [stakingContracts |-> shorter, units |-> less]
  <1>6. old.units[k] \in Nat
    BY <1>5
  <1>7. /\ shorter \in Seq(StakingContracts) /\ ~hasDuplicate(shorter)
        /\ \A j : contains(shorter, j) <=> contains(list, j) /\ (j # k \/ old.units[k] > u)
    <2>1. CASE old.units[k] > u
      BY <1>5, <2>1
    <2>2. CASE ~(old.units[k] > u)
      <3>1. contains(list, k)
        BY <1>5, <1>6, <2>2
      <3> QED BY <1>5, <2>2, <3>1, RemoveExact
    <2> QED BY <2>1, <2>2
  <1>8. /\ less \in [StakingContracts -> Nat]
        /\ \A j \in StakingContracts :
             less[j] = IF j = k THEN old.units[k] - u ELSE old.units[j]
    BY <1>5, <1>6
  <1>9. stakingPositions' = [stakingPositions EXCEPT ![c] = new]
    <2>1. CASE old.units[k] > u
      <3>1. stakingPositions' =
              [stakingPositions EXCEPT ![c] = [old EXCEPT !.units[k] = @ - u]]
        BY <1>2, <1>3, <2>1 DEF updateUnstakeState, getStakingPositionUnit
      <3>2. shorter = old.stakingContracts
        BY <2>1
      <3>3. less = [old.units EXCEPT ![k] = @ - u]
        OBVIOUS
      <3>4. old \in [stakingContracts : Seq(StakingContracts),
                     units : [StakingContracts -> Nat]]
        BY <1>2
      <3> DEFINE v == old.units[k] - u
      <3>6. [old EXCEPT !.units[k] = @ - u] = [old EXCEPT !.units[k] = v]
        OBVIOUS
      <3>7. [old.units EXCEPT ![k] = v] = less
        OBVIOUS
      <3> HIDE DEF old, shorter, less, v
      <3>5. [old EXCEPT !.units[k] = v] = [stakingContracts |-> old.stakingContracts,
                                           units |-> [old.units EXCEPT ![k] = v]]
        BY <3>4, UnitReplaced
      <3> QED BY <3>1, <3>2, <3>5, <3>6, <3>7
    <2>2. CASE ~(old.units[k] > u)
      <3>1. stakingPositions' =
              [stakingPositions EXCEPT
                 ![c] = [old EXCEPT !.stakingContracts = remove(list, k), !.units[k] = 0]]
        BY <1>2, <1>3, <2>2 DEF updateUnstakeState, getStakingPositionUnit
      <3>2. [old.units EXCEPT ![k] = 0] = less
        BY <1>5, <1>6, <2>2
      <3>3. shorter = remove(list, k)
        BY <2>2
      <3>4. old \in [stakingContracts : Seq(StakingContracts),
                     units : [StakingContracts -> Nat]]
        BY <1>2
      <3> DEFINE s == [old EXCEPT !.stakingContracts = shorter]
      <3>6. [old EXCEPT !.stakingContracts = shorter, !.units[k] = 0] = [s EXCEPT !.units[k] = 0]
        OBVIOUS
      <3> HIDE DEF old, shorter, less
      <3>7. /\ s \in [stakingContracts : Seq(StakingContracts),
                      units : [StakingContracts -> Nat]]
            /\ s.stakingContracts = shorter /\ s.units = old.units
        BY <1>7, <3>4, ListReplaced
      <3> HIDE DEF s
      <3>5. [s EXCEPT !.units[k] = 0]
              = [stakingContracts |-> s.stakingContracts, units |-> [s.units EXCEPT ![k] = 0]]
        BY <3>7, UnitReplaced
      <3> QED BY <3>1, <3>2, <3>3, <3>5, <3>6, <3>7
    <2> QED BY <2>1, <2>2
  <1> HIDE DEF shorter, less
  <1>10. /\ stakingPositions' \in
              [Components -> [stakingContracts : Seq(StakingContracts),
                              units : [StakingContracts -> Nat]]]
         /\ \A d \in Components : d # c => stakingPositions'[d] = stakingPositions[d]
         /\ stakingPositions'[c].stakingContracts = shorter
         /\ stakingPositions'[c].units = less
    BY <1>2, <1>7, <1>8, <1>9
  <1>11. \A d \in Components, j \in StakingContracts :
           stakingPositions'[d].units[j] =
             IF d = c /\ j = k THEN getStakingPositionUnit(c, k) + (-u)
             ELSE getStakingPositionUnit(d, j)
    BY <1>6, <1>8, <1>10 DEF getStakingPositionUnit
  <1>12. ASSUME NEW d \in Components
         PROVE  /\ ~hasDuplicate(stakingPositions'[d].stakingContracts)
                /\ \A j \in StakingContracts : stakingPositions'[d].units[j] > 0 =>
                     contains(stakingPositions'[d].stakingContracts, j)
    <2>1. /\ ~hasDuplicate(stakingPositions[d].stakingContracts)
          /\ \A j \in StakingContracts : stakingPositions[d].units[j] > 0 =>
               contains(stakingPositions[d].stakingContracts, j)
      BY <1>1 DEF StakingUnitsMatch, getStakingPositionUnit, hasStakingPosition
    <2>2. CASE d # c
      BY <1>10, <2>1, <2>2
    <2>3. CASE d = c
      <3>1. \A j \in StakingContracts : less[j] > 0 => contains(shorter, j)
        <4>1. ASSUME NEW j \in StakingContracts, less[j] > 0 PROVE contains(shorter, j)
          <5>1. j = k => old.units[k] > u
            BY <1>6, <1>8, <4>1
          <5>2. old.units[j] > 0
            BY <1>6, <1>8, <4>1, <5>1
          <5> QED BY <1>7, <2>1, <2>3, <5>1, <5>2
        <4> QED BY <4>1
      <3> QED BY <1>7, <1>10, <2>3, <3>1
    <2> QED BY <2>2, <2>3
  <1>13. getStakingPositionUnit(c, k) \in Nat
    BY <1>1, StakeTerms
  <1>14. totalSupply * getStakingPositionUnit(c, k)
           <= (staked[c][k] + roundings) * PRECISE_UNIT
    BY <1>1 DEF ShortfallInUnits
  <1>15. totalSupply * (getStakingPositionUnit(c, k) - u)
           <= (staked[c][k] - notional + roundings) * PRECISE_UNIT
    BY <1>2, <1>3, <1>13, <1>14, ShortfallOnUnstake
  <1>20. /\ notional \in Nat /\ notional <= staked[c][k] /\ roundings' = roundings
         /\ balances' = [balances EXCEPT ![c] = @ + notional]
         /\ staked' = [staked EXCEPT ![c][k] = @ - notional]
    BY <1>3, <1>4
  <1> HIDE DEF notional
  <1>16. totalSupply * (getStakingPositionUnit(c, k) + (-u))
           <= (staked[c][k] + (-notional) + roundings') * PRECISE_UNIT
    <2>1. /\ getStakingPositionUnit(c, k) + (-u) = getStakingPositionUnit(c, k) - u
          /\ staked[c][k] + (-notional) = staked[c][k] - notional
          /\ roundings' = roundings
      BY <1>2, <1>13, <1>20
    <2> QED BY <1>15, <2>1
  <1>17. /\ balances[c] - (-notional) \in Nat /\ staked[c][k] + (-notional) \in Nat
         /\ -u \in Int /\ -notional \in Int
         /\ roundings' \in Nat /\ roundings <= roundings'
    <2>1. /\ balances[c] \in Nat /\ staked[c][k] \in Nat
          /\ notional \in Nat /\ notional <= staked[c][k]
      BY <1>2, <1>20
    <2>2. balances[c] - (-notional) \in Nat /\ staked[c][k] + (-notional) \in Nat
      BY <2>1
    <2>3. roundings' \in Nat /\ roundings <= roundings'
      BY <1>2, <1>20
    <2> QED BY <2>1, <2>2, <2>3
  <1>18. /\ balances' = [balances EXCEPT ![c] = @ - (-notional)]
         /\ staked' = [staked EXCEPT ![c][k] = @ + (-notional)]
    <2>1. /\ balances[c] - (-notional) = balances[c] + notional
          /\ staked[c][k] + (-notional) = staked[c][k] - notional
      BY <1>2, <1>20
    <2> QED BY <1>20, <2>1
  <1>19. Shifting(c, k, -u, -notional)
    BY <1>3, <1>10, <1>11, <1>12, <1>16, <1>17, <1>18 DEF Shifting
  <1> QED BY <1>17, <1>19, ShiftKeeps

-----------------------------------------------------------------------------
\* The streaming fee scales every position, and so parts the external position
\* from the units it stands for: nothing below holds once one is charged.
NoStreamingFee == feeState.streamingFeePercentage = 0

\* Calls that move neither positions nor tokens nor stakes.
LEMMA StakesUntouched ==
    ASSUME StakedInv,
           UNCHANGED <<positions, balances, totalSupply, stakingPositions, staked,
                       version, roundings>>,
           issuanceSettings' \in
             [maxManagerFee : Nat, managerIssueFee : Nat, managerRedeemFee : Nat],
           RemovedWhenClosed'
    PROVE  StakedInv'
  <1>1. /\ StakesTypeOK /\ PositionsStaked /\ StakingUnitsMatch /\ ShortfallInUnits
        /\ StakeAndDefaultBacked
    BY DEF StakedInv
  <1>2. StakesTypeOK'
    BY <1>1 DEF StakesTypeOK
  <1>3. PositionsStaked'
    BY <1>1 DEF PositionsStaked, PositionsInv
  <1>4. StakingUnitsMatch'
    BY <1>1 DEF StakingUnitsMatch, StakingUnits, getStakingPositionUnit, hasStakingPosition
  <1>5. ShortfallInUnits'
    BY <1>1 DEF ShortfallInUnits, getStakingPositionUnit
  <1>6. StakeAndDefaultBacked'
    BY <1>1 DEF StakeAndDefaultBacked, AllStaked
  <1> QED BY <1>2, <1>3, <1>4, <1>5, <1>6 DEF StakedInv

LEMMA StakingSettingsKeep ==
    ASSUME StakedInv, StakingSettings
    PROVE  StakedInv'
  <1>1. /\ UNCHANGED <<positions, balances, totalSupply, stakingPositions, staked,
                       version, roundings>>
        /\ issuanceSettings' = issuanceSettings
    BY DEF StakingSettings, initializeStaking, removeStaking, vaultVars, issuanceVars
  <1>2. /\ StakesTypeOK /\ PositionsStaked /\ StakingUnitsMatch
        /\ issuanceSettings \in
             [maxManagerFee : Nat, managerIssueFee : Nat, managerRedeemFee : Nat]
    BY DEF StakedInv, StakesTypeOK
  <1>3. RemovedWhenClosed'
    <2>1. CASE initializeStaking
      BY <2>1 DEF initializeStaking, RemovedWhenClosed
    <2>2. CASE removeStaking
      <3>1. ASSUME NEW c \in Components
            PROVE  ~isExternalPositionModule(positions, c, Staking)
        <4>1. /\ ~isComponent(positions, c) => StakedUnit(c) = 0
              /\ isExternalPositionModule(positions, c, Staking) <=> StakedUnit(c) # 0
              /\ UnitsOf(c) \in [StakingContracts -> Nat]
              /\ SumFunction(UnitsOf(c)) = StakedUnit(c)
          BY <1>2, StakeTerms
        <4>2. CASE isComponent(positions, c)
          <5>1. c \in Entries(positions.components)
            BY <4>2 DEF isComponent, contains, Entries
          <5>2. Len(stakingPositions[c].stakingContracts) = 0
            BY <2>2, <5>1 DEF removeStaking
          <5>3. stakingPositions[c].stakingContracts \in Seq(StakingContracts)
            BY <1>2 DEF StakesTypeOK
          <5>4. ASSUME NEW k \in StakingContracts PROVE UnitsOf(c)[k] = 0
            <6>1. ~hasStakingPosition(c, k)
              BY <5>2, <5>3 DEF hasStakingPosition, contains
            <6>2. ~(getStakingPositionUnit(c, k) > 0)
              BY <1>2, <6>1 DEF StakingUnitsMatch
            <6>3. UnitsOf(c)[k] = getStakingPositionUnit(c, k) /\ UnitsOf(c)[k] \in Nat
              BY <4>1 DEF UnitsOf
            <6> QED BY <6>2, <6>3
          <5>5. UnitsOf(c) \in [StakingContracts -> Int] /\ IsFiniteSet(StakingContracts)
            BY <4>1, StakingAssumption
          <5>6. SumFunction(UnitsOf(c)) = 0
            BY <5>4, <5>5, SumZero
          <5> QED BY <4>1, <5>6
        <4>3. CASE ~isComponent(positions, c)
          BY <4>1, <4>3
        <4> QED BY <4>2, <4>3
      <3> QED BY <1>1, <3>1 DEF RemovedWhenClosed
    <2> QED BY <2>1, <2>2 DEF StakingSettings
  <1> QED BY <1>1, <1>2, <1>3, StakesUntouched

LEMMA IssuanceSettingsKeep ==
    ASSUME StakedInv, IssuanceSettings
    PROVE  StakedInv'
  <1>1. /\ UNCHANGED <<positions, balances, totalSupply, stakingPositions, staked,
                       isStakingModule, version, roundings>>
    BY DEF IssuanceSettings, updateIssueFee, updateRedeemFee, initializeIssuance,
           removeIssuance, vaultVars, stakingVars
  <1> DEFINE Settings == [maxManagerFee : Nat, managerIssueFee : Nat, managerRedeemFee : Nat]
  <1>2. issuanceSettings' \in Settings
    <2>1. issuanceSettings \in Settings /\ ManagerFees \subseteq Nat
      BY DebtIssuanceAssumption DEF StakedInv, StakesTypeOK
    <2>2. ASSUME NEW f \in ManagerFees, updateIssueFee(f) \/ updateRedeemFee(f)
          PROVE  issuanceSettings' \in Settings
      BY <2>1, <2>2 DEF updateIssueFee, updateRedeemFee
    <2>3. ASSUME NEW x \in ManagerFees, NEW i \in ManagerFees, NEW r \in ManagerFees,
                 initializeIssuance(x, i, r)
          PROVE  issuanceSettings' \in Settings
      BY <2>1, <2>3 DEF initializeIssuance
    <2>4. ASSUME removeIssuance PROVE issuanceSettings' \in Settings
      BY <2>4 DEF removeIssuance, NoSettings
    <2> QED BY <2>2, <2>3, <2>4 DEF IssuanceSettings
  <1>3. RemovedWhenClosed'
    BY <1>1 DEF StakedInv, RemovedWhenClosed
  <1> QED BY <1>1, <1>2, <1>3, StakesUntouched

LEMMA FeeStreamingEffect ==
    ASSUME NoStreamingFee, FeeStreaming
    PROVE  UNCHANGED <<positions, balances, totalSupply, stakingVars, version, roundings,
                       issuanceVars>>
  <1>1. ~(feeState.streamingFeePercentage > 0)
    BY DEF NoStreamingFee
  <1>2. accrue => UNCHANGED <<positions, totalSupply>>
    BY <1>1 DEF accrue
  <1> QED BY <1>2 DEF FeeStreaming, tick, accrueFee, updateStreamingFee,
                      initializeStreamingFee, removeStreamingFee, vaultVars

LEMMA StakedNextOK ==
    ASSUME StakedInv, NoStreamingFee, [Next]_vars
    PROVE  StakedInv'
  <1>1. CASE \E q \in 1..MaxSupply : Issuance(q) \/ Redemption(q)
    <2>1. PICK q \in 1..MaxSupply : Issuance(q) \/ Redemption(q)
      BY <1>1
    <2>2. q \in Nat /\ q > 0
      BY VaultAssumption
    <2> QED BY <2>1, <2>2, IssuanceKeeps, RedemptionKeeps
  <1>2. CASE \E c \in Components, k \in StakingContracts, u \in StakeUnits :
                Stake(c, k, u) \/ Unstake(c, k, u)
    BY <1>2, StakedFundAssumption, StakeKeeps, UnstakeKeeps
  <1>3. CASE StakingSettings
    BY <1>3, StakingSettingsKeep
  <1>4. CASE IssuanceSettings
    BY <1>4, IssuanceSettingsKeep
  <1>5. CASE FeeStreaming
    <2>1. UNCHANGED <<positions, balances, totalSupply, stakingVars, version, roundings,
                      issuanceVars>>
      BY <1>5, FeeStreamingEffect
    <2>2. RemovedWhenClosed'
      BY <2>1 DEF StakedInv, RemovedWhenClosed, stakingVars
    <2>3. issuanceSettings' \in
            [maxManagerFee : Nat, managerIssueFee : Nat, managerRedeemFee : Nat]
      BY <2>1 DEF StakedInv, StakesTypeOK, issuanceVars
    <2> QED BY <2>1, <2>2, <2>3, StakesUntouched DEF stakingVars
  <1>6. CASE UNCHANGED vars
    <2>1. UNCHANGED <<positions, balances, totalSupply, stakingVars, version, roundings,
                      issuanceVars>>
      BY <1>6 DEF vars, vaultVars
    <2>2. RemovedWhenClosed'
      BY <2>1 DEF StakedInv, RemovedWhenClosed, stakingVars
    <2>3. issuanceSettings' \in
            [maxManagerFee : Nat, managerIssueFee : Nat, managerRedeemFee : Nat]
      BY <2>1 DEF StakedInv, StakesTypeOK, issuanceVars
    <2> QED BY <2>1, <2>2, <2>3, StakesUntouched DEF stakingVars
  <1> QED BY <1>1, <1>2, <1>3, <1>4, <1>5, <1>6 DEF Next

LEMMA StakedInitOK == Init => StakedInv
  <1> SUFFICES ASSUME Init PROVE StakedInv
    OBVIOUS
  <1>1. PICK A, units : positions = InitialPositions(A, units)
    BY DEF Init, VaultInit, PositionsInit
  <1>2. PositionsInv
    BY PositionsInitOK DEF Init, VaultInit
  <1>3. /\ AtParity(positions)
        /\ \A c \in Components : positions.externalPositionModules[c] = <<>>
        /\ \A c \in Components, m \in Modules :
             positions.externalPositions[c][m].virtualUnit = 0
    BY <1>1 DEF InitialPositions, AtParity, NoExternalPosition
  <1>4. \A c \in Components, m \in Modules : ~isExternalPositionModule(positions, c, m)
    BY <1>3 DEF isExternalPositionModule, contains
  <1>5. PositionsStaked
    BY <1>2, <1>3, <1>4 DEF PositionsStaked
  <1>6. /\ totalSupply = 0 /\ roundings = 0
        /\ balances = [c \in Components |-> 0]
        /\ staked = [c \in Components |-> [k \in StakingContracts |-> 0]]
        /\ stakingPositions = [c \in Components |->
              [stakingContracts |-> <<>>, units |-> [k \in StakingContracts |-> 0]]]
        /\ issuanceSettings = NoSettings
    BY DEF Init, VaultInit, DebtIssuanceInit, StakingInit
  <1>7. StakesTypeOK
    <2>1. stakingPositions \in
            [Components -> [stakingContracts : Seq(StakingContracts),
                            units : [StakingContracts -> Nat]]]
      <3>1. <<>> \in Seq(StakingContracts)
        OBVIOUS
      <3> QED BY <1>6, <3>1
    <2> QED BY <1>6, <2>1 DEF StakesTypeOK, NoSettings
  <1>8. IsFiniteSet(StakingContracts) /\ Staking \in Modules
    BY StakingAssumption
  <1>9. ASSUME NEW c \in Components
        PROVE  /\ StakingUnits(c) = 0
               /\ AllStaked(c) = 0
               /\ getExternalPositionRealUnit(positions, c, Staking) = 0
               /\ getDefaultPositionRealUnit(positions, c) \in Nat
    <2> DEFINE f == [k \in StakingContracts |-> getStakingPositionUnit(c, k)]
               g == [k \in StakingContracts |-> staked[c][k]]
    <2>1. /\ f \in [StakingContracts -> Int] /\ g \in [StakingContracts -> Int]
          /\ \A k \in StakingContracts : f[k] = 0
          /\ \A k \in StakingContracts : g[k] = 0
      BY <1>6 DEF getStakingPositionUnit
    <2>2. StakingUnits(c) = SumFunction(f) /\ AllStaked(c) = SumFunction(g)
      BY DEF StakingUnits, AllStaked
    <2> HIDE DEF f, g
    <2>3. SumFunction(f) = 0 /\ SumFunction(g) = 0
      BY <1>8, <2>1, SumZero
    <2>4. getExternalPositionRealUnit(positions, c, Staking) = 0
      BY <1>2, <1>3, <1>8, ParityPositions DEF PositionsInv
    <2>5. getDefaultPositionRealUnit(positions, c) \in Nat
      BY <1>2, RealUnitNat DEF PositionsInv
    <2> QED BY <2>2, <2>3, <2>4, <2>5
  <1>10. ASSUME NEW c \in Components, NEW k \in StakingContracts
         PROVE getStakingPositionUnit(c, k) = 0 /\ staked[c][k] = 0
    BY <1>6 DEF getStakingPositionUnit
  <1>11. StakingUnitsMatch
    <2>1. ASSUME NEW c \in Components
          PROVE  ~hasDuplicate(stakingPositions[c].stakingContracts)
      BY <1>6 DEF hasDuplicate
    <2> QED BY <1>9, <1>10, <2>1 DEF StakingUnitsMatch
  <1>12. PRECISE_UNIT \in Nat
    BY PreciseUnitAssumption
  <1>13. ShortfallInUnits
    BY <1>6, <1>10, <1>12 DEF ShortfallInUnits
  <1>14. StakeAndDefaultBacked
    BY <1>6, <1>9, <1>12 DEF StakeAndDefaultBacked
  <1>15. RemovedWhenClosed
    BY <1>4, <1>8 DEF RemovedWhenClosed
  <1> QED BY <1>5, <1>7, <1>11, <1>13, <1>14, <1>15 DEF StakedInv

LEMMA StakedInvariant == Spec /\ []NoStreamingFee => []StakedInv
  <1>1. Init => StakedInv
    BY StakedInitOK
  <1>2. StakedInv /\ NoStreamingFee /\ [Next]_vars => StakedInv'
    BY StakedNextOK
  <1> QED BY <1>1, <1>2, PTL DEF Spec

\* Whatever the manager stakes and unstakes between issuances and redemptions,
\* the StakingModule's units add up to the external position, and each contract
\* with units is listed once.
THEOREM StakedFundUnitsMatch == Spec /\ []NoStreamingFee => []StakingUnitsMatch
  <1>1. StakedInv => StakingUnitsMatch
    BY DEF StakedInv
  <1> QED BY <1>1, StakedInvariant, PTL

\* With DebtIssuanceModule's exact transfers, the SetToken and the staking
\* contracts together hold what default and external positions promise.
THEOREM StakedFundBacked == Spec /\ []NoStreamingFee => []StakeAndDefaultBacked
  <1>1. StakedInv => StakeAndDefaultBacked
    BY DEF StakedInv
  <1> QED BY <1>1, StakedInvariant, PTL

\* A staking contract is short of the supply times its units by at most one
\* wei for each issuance and each stake: every hook and every stake rounds one
\* product down, and a redemption or unstaking never adds to the loss.
THEOREM StakedFundShortfallBounded == Spec /\ []NoStreamingFee => []ShortfallBounded
  <1>1. ASSUME StakedInv PROVE ShortfallBounded
    <2> SUFFICES ASSUME NEW c \in Components, NEW k \in StakingContracts
                 PROVE  getDefaultTotalNotional(totalSupply, getStakingPositionUnit(c, k))
                          <= staked[c][k] + roundings
      BY DEF ShortfallBounded
    <2> DEFINE u == getStakingPositionUnit(c, k)
               n == staked[c][k] + roundings
               owed == preciseMul(totalSupply, u)
    <2>1. u \in Nat
      BY <1>1, StakeTerms DEF StakedInv
    <2>2. totalSupply \in Nat /\ n \in Nat
      BY <1>1 DEF StakedInv, StakesTypeOK
    <2>3. totalSupply * u <= n * PRECISE_UNIT
      BY <1>1 DEF StakedInv, ShortfallInUnits
    <2> HIDE DEF u, n
    <2>4. owed \in Nat /\ owed * PRECISE_UNIT <= totalSupply * u
      BY <2>1, <2>2, PreciseMulFloor
    <2> HIDE DEF owed
    <2>5. PRECISE_UNIT \in Nat \ {0}
      BY PreciseUnitAssumption
    <2>6. /\ owed * PRECISE_UNIT \in Int /\ totalSupply * u \in Int
          /\ n * PRECISE_UNIT \in Int
      BY <2>1, <2>2, <2>4, <2>5
    <2>7. owed * PRECISE_UNIT <= n * PRECISE_UNIT
      BY <2>3, <2>4, <2>6
    <2>8. owed <= n
      BY <2>2, <2>4, <2>5, <2>7, MulCancel
    <2> QED BY <2>8 DEF owed, n, u, getDefaultTotalNotional
  <1> QED BY <1>1, StakedInvariant, PTL

\* The StakingModule can only be removed once no external position of it is
\* left, although it looks at its own lists and not at the SetToken's.
THEOREM StakedFundRemovedWhenClosed == Spec /\ []NoStreamingFee => []RemovedWhenClosed
  <1>1. StakedInv => RemovedWhenClosed
    BY DEF StakedInv
  <1> QED BY <1>1, StakedInvariant, PTL

-----------------------------------------------------------------------------
\* What DebtIssuanceModuleV2 checks, with b a balance after the call, s and z
\* the supply before and after it, d the default unit, x the staked one.
LEMMA CheckedIn ==
    ASSUME NEW d \in Nat, NEW x \in Nat, NEW s \in Nat, NEW t \in Nat, NEW z \in Nat,
           z <= s + t, NEW i \in Nat, i * PRECISE_UNIT >= (d + x) * t,
           NEW h \in Nat, h * PRECISE_UNIT <= x * t,
           NEW b \in Int, b >= preciseMulCeil(s, d) + i - h
    PROVE  b * PRECISE_UNIT - d * z >= 0
  <1> DEFINE p == preciseMulCeil(s, d)
  <1>1. PRECISE_UNIT \in Nat /\ p \in Nat /\ p * PRECISE_UNIT >= s * d
    BY PreciseUnitAssumption, PreciseMulCeilCovers
  <1> HIDE DEF p
  <1>2. b >= p + i - h
    BY DEF p
  <1>3. (p + i - h) * PRECISE_UNIT <= b * PRECISE_UNIT
    BY <1>1, <1>2, MulMonotonic
  <1>4. (p + i - h) * PRECISE_UNIT = p * PRECISE_UNIT + i * PRECISE_UNIT - h * PRECISE_UNIT
    BY <1>1
  <1>5. (d + x) * t = d * t + x * t /\ (s + t) * d = s * d + d * t /\ d * z = z * d
    OBVIOUS
  <1>6. z * d <= (s + t) * d
    BY MulMonotonic
  <1>7. /\ b * PRECISE_UNIT \in Int /\ p * PRECISE_UNIT \in Int /\ i * PRECISE_UNIT \in Int
        /\ h * PRECISE_UNIT \in Int /\ d * t \in Int /\ x * t \in Int /\ s * d \in Int
        /\ z * d \in Int
    BY <1>1
  <1> QED BY <1>1, <1>3, <1>4, <1>5, <1>6, <1>7

LEMMA CheckedOut ==
    ASSUME NEW d \in Nat, NEW s \in Nat, NEW z \in Nat, z <= s,
           NEW b \in Int, b >= preciseMulCeil(s, d)
    PROVE  b * PRECISE_UNIT - d * z >= 0
  <1> DEFINE p == preciseMulCeil(s, d)
  <1>1. PRECISE_UNIT \in Nat /\ p \in Nat /\ p * PRECISE_UNIT >= s * d
    BY PreciseUnitAssumption, PreciseMulCeilCovers
  <1> HIDE DEF p
  <1>2. b >= p
    BY DEF p
  <1>3. p * PRECISE_UNIT <= b * PRECISE_UNIT
    BY <1>1, <1>2, MulMonotonic
  <1>4. z * d <= s * d /\ d * z = z * d
    BY MulMonotonic
  <1>5. /\ b * PRECISE_UNIT \in Int /\ p * PRECISE_UNIT \in Int
        /\ s * d \in Int /\ z * d \in Int
    BY <1>1
  <1> QED BY <1>1, <1>3, <1>4, <1>5

LEMMA IssuanceLeavesBacked ==
    ASSUME StakedInv, NEW q \in Nat, q > 0, Issuance(q), version = 2, NEW c \in Components
    PROVE  Surplus(c)' >= 0
  <1> DEFINE t == QuantityWithFees(q)
             d == DefaultUnit(c)
             x == StakedUnit(c)
             i == EquityIn(c, t)
             h == componentHook(c, t)
             b == balances'[c]
  <1>1. StakesTypeOK /\ PositionsStaked /\ StakingUnitsMatch
    BY DEF StakedInv
  <1>2. /\ t \in Nat /\ t > 0
        /\ positions' = positions
        /\ totalSupply' \in Nat /\ totalSupply' <= totalSupply + t
        /\ balances' \in [Components -> Nat]
    BY IssuanceEffect
  <1>3. /\ totalSupply \in Nat /\ balances[c] \in Nat /\ b \in Nat
    BY <1>1, <1>2 DEF StakesTypeOK
  <1>4. PICK in \in Errors, out \in Errors : issueV2(q, Hooks(t), in, out)
    BY DEF Issuance
  <1>5. Hooks(t)[c] = h
    BY DEF Hooks
  <1> HIDE DEF t
  <1>6. /\ DebtOut(c, t) = 0 /\ i \in Nat /\ h \in Nat /\ d \in Nat /\ x \in Nat
        /\ i * PRECISE_UNIT >= (d + x) * t
        /\ h * PRECISE_UNIT <= x * t
    BY <1>1, <1>2, QuantityTerms, HooksWithoutEquity, HookTerms, StakeTerms
  <1>7. Surplus(c)' = b * PRECISE_UNIT - d * totalSupply'
    BY <1>2 DEF Surplus, DefaultUnit
  <1> DEFINE received == balances[c] + Moved(i, in[c])
             after == received - Rounds(i, 0) * Hooks(t)[c]
                        - Rounds(0, DebtOut(c, t)) * Hooks(t)[c]
                        - Moved(DebtOut(c, t), out[c])
  <1>8. ValidIn(c, received, totalSupply, i) /\ b = after
    BY <1>4 DEF issueV2, t
  <1>9. CASE i > 0
    <2>1. received >= preciseMulCeil(totalSupply, d) + i
      BY <1>8, <1>9 DEF ValidIn, DefaultUnit
    <2>2. /\ Rounds(i, 0) = 1 /\ Rounds(0, DebtOut(c, t)) = 0
          /\ Moved(DebtOut(c, t), out[c]) = 0
          /\ Moved(i, in[c]) = i + in[c]
      BY <1>6, <1>9 DEF Rounds, Moved
    <2>3. in[c] \in Int
      BY <1>4, TransferErrorsAssumption DEF Errors
    <2>4. preciseMulCeil(totalSupply, d) \in Nat
      BY <1>3, <1>6, PreciseMulCeilCovers
    <2>5. received \in Int
      BY <1>3, <1>6, <2>2, <2>3
    <2> HIDE DEF i, h, d, x, received
    <2>6. b = received - 1 * h - 0 * h - 0
      BY <1>5, <1>8, <2>2
    <2>7. b >= preciseMulCeil(totalSupply, d) + i - h
      BY <1>6, <2>1, <2>4, <2>5, <2>6
    <2> DEFINE s == totalSupply
               z == totalSupply'
    <2>9. /\ s \in Nat /\ z \in Nat /\ t \in Nat /\ z <= s + t
          /\ b \in Int /\ b >= preciseMulCeil(s, d) + i - h
      BY <1>2, <1>3, <2>7
    <2> HIDE DEF s, z, b
    <2>8. b * PRECISE_UNIT - d * z >= 0
      BY ONLY <1>6, <2>9, CheckedIn
    <2> QED BY <1>7, <2>8 DEF z
  <1>10. CASE ~(i > 0)
    <2>1. i = 0
      BY <1>6, <1>10
    <2>2. (d + x) * t <= 0
      BY <1>6, <2>1, PreciseUnitAssumption
    <2> HIDE DEF d, x, i, h, b
    <2>3. d = 0
      <3>1. 1 * t <= d * t => FALSE
        BY <1>2, <1>6, <2>2
      <3>2. d >= 1 => 1 * t <= d * t
        BY <1>2, <1>6, MulMonotonic
      <3> QED BY <1>6, <3>1, <3>2
    <2>4. totalSupply' \in Int /\ b \in Nat /\ PRECISE_UNIT \in Nat
      BY <1>2, <1>3, PreciseUnitAssumption DEF b
    <2>5. d * totalSupply' = 0
      <3>1. \A n \in Int : 0 * n = 0
        OBVIOUS
      <3> QED BY <2>3, <2>4, <3>1
    <2>6. b * PRECISE_UNIT \in Nat
      BY <2>4
    <2> QED BY <1>7, <2>5, <2>6 DEF b, d
  <1> QED BY <1>9, <1>10

LEMMA RedemptionLeavesBacked ==
    ASSUME StakedInv, NEW q \in Nat, q > 0, Redemption(q), version = 2,
           NEW c \in Components, Surplus(c) >= 0
    PROVE  Surplus(c)' >= 0
  <1> DEFINE t == QuantityNetFees(q)
             d == DefaultUnit(c)
             o == EquityOut(c, t)
             b == balances'[c]
  <1>1. StakesTypeOK /\ PositionsStaked /\ StakingUnitsMatch
    BY DEF StakedInv
  <1>2. /\ t \in Nat
        /\ positions' = positions
        /\ totalSupply' \in Nat /\ totalSupply' <= totalSupply - t
        /\ balances' \in [Components -> Nat]
    BY RedemptionEffect
  <1>3. totalSupply \in Nat /\ balances[c] \in Nat /\ b \in Nat
    BY <1>1, <1>2 DEF StakesTypeOK
  <1>4. PICK in \in Errors, out \in Errors : redeemV2(q, Hooks(t), in, out)
    BY DEF Redemption
  <1> HIDE DEF t
  <1>5. Hooks(t)[c] = componentHook(c, t)
    BY DEF Hooks
  <1>6. /\ DebtIn(c, t) = 0 /\ o \in Nat /\ d \in Nat /\ componentHook(c, t) \in Nat
    BY <1>1, <1>2, QuantityTerms, HooksWithoutEquity, HookTerms, StakeTerms
  <1>7. /\ Surplus(c)' = b * PRECISE_UNIT - d * totalSupply'
        /\ Surplus(c) = balances[c] * PRECISE_UNIT - d * totalSupply
    BY <1>2 DEF Surplus, DefaultUnit
  <1> DEFINE after == balances[c] + Moved(DebtIn(c, t), in[c])
                        + Rounds(o, DebtIn(c, t)) * Hooks(t)[c] - Moved(o, out[c])
  <1>8. ValidOut(c, after, totalSupply - t, o) /\ b = after
    BY <1>4 DEF redeemV2, t
  <1>9. CASE o > 0
    <2>1. b >= preciseMulCeil(totalSupply - t, d)
      BY <1>8, <1>9 DEF ValidOut, DefaultUnit
    <2>2. totalSupply - t \in Nat
      BY <1>2, <1>3
    <2> DEFINE s == totalSupply - t
               z == totalSupply'
    <2>3. /\ s \in Nat /\ z \in Nat /\ z <= s
          /\ b \in Int /\ b >= preciseMulCeil(s, d)
      BY <1>2, <1>3, <2>1, <2>2
    <2> HIDE DEF s, z, b
    <2>4. b * PRECISE_UNIT - d * z >= 0
      BY ONLY <1>6, <2>3, CheckedOut
    <2> QED BY <1>7, <2>4 DEF z
  <1>10. CASE ~(o > 0)
    <2>1. o = 0
      BY <1>6, <1>10
    <2>2. /\ Moved(DebtIn(c, t), in[c]) = 0 /\ Moved(o, out[c]) = 0
          /\ Rounds(o, DebtIn(c, t)) = 0
      BY <1>6, <2>1 DEF Moved, Rounds
    <2>3. b = balances[c] + 0 + 0 * componentHook(c, t) - 0
      BY <1>5, <1>8, <2>2
    <2> DEFINE n == balances[c]
    <2> HIDE DEF o, d, b, after, n
    <2>4. b = n /\ n \in Nat
      BY <1>3, <1>6, <2>3 DEF n
    <2>5. totalSupply' <= totalSupply
      BY <1>2, <1>3
    <2>6. totalSupply' * d <= totalSupply * d
      <3>1. totalSupply \in Int /\ totalSupply' \in Int /\ d \in Nat
        BY <1>2, <1>3, <1>6
      <3> QED BY <2>5, <3>1, MulMonotonic
    <2>7. /\ totalSupply' * d = d * totalSupply' /\ totalSupply * d = d * totalSupply
          /\ d * totalSupply' \in Int /\ d * totalSupply \in Int
          /\ n * PRECISE_UNIT \in Int
      BY <1>2, <1>3, <1>6, <2>4, PreciseUnitAssumption
    <2>8. n * PRECISE_UNIT - d * totalSupply >= 0
      BY <1>7 DEF n
    <2> QED BY <1>7, <2>4, <2>6, <2>7, <2>8
  <1> QED BY <1>9, <1>10

\* DebtIssuanceModuleV2's checks do what they are for, whatever transfers lose
\* or add and hooks round away: no issuance or redemption leaves a default
\* position without the full backing it had.
THEOREM StakedFundDefaultStaysBacked == Spec /\ []NoStreamingFee => DefaultStaysBacked
  <1> DEFINE Kept == version = 2 /\ totalSupply' # totalSupply /\ positions' = positions =>
                       \A c \in Components : Surplus(c) >= 0 => Surplus(c)' >= 0
  <1>1. ASSUME StakedInv, NoStreamingFee, [Next]_vars PROVE [Kept]_vars
    <2> SUFFICES ASSUME Next, version = 2, totalSupply' # totalSupply,
                        NEW c \in Components, Surplus(c) >= 0
                 PROVE  Surplus(c)' >= 0
      BY <1>1
    <2>1. CASE \E q \in 1..MaxSupply : Issuance(q) \/ Redemption(q)
      <3>1. PICK q \in 1..MaxSupply : Issuance(q) \/ Redemption(q)
        BY <2>1
      <3>2. q \in Nat /\ q > 0
        BY VaultAssumption
      <3> QED BY <1>1, <3>1, <3>2, IssuanceLeavesBacked, RedemptionLeavesBacked
    <2>2. CASE \E d \in Components, k \in StakingContracts, u \in StakeUnits :
                  Stake(d, k, u) \/ Unstake(d, k, u)
      BY <2>2 DEF Stake, Unstake, stake, unstake
    <2>3. CASE StakingSettings
      BY <2>3 DEF StakingSettings, initializeStaking, removeStaking, vaultVars
    <2>4. CASE IssuanceSettings
      BY <2>4 DEF IssuanceSettings, updateIssueFee, updateRedeemFee, initializeIssuance,
                  removeIssuance, vaultVars
    <2>5. CASE FeeStreaming
      BY <1>1, <2>5, FeeStreamingEffect
    <2> QED BY <2>1, <2>2, <2>3, <2>4, <2>5 DEF Next
  <1>2. StakedInv /\ NoStreamingFee /\ [Next]_vars => [Kept]_vars
    BY <1>1
  <1>3. [][Kept]_vars => DefaultStaysBacked
    BY DEF DefaultStaysBacked
  <1> HIDE DEF Kept
  <1> QED BY <1>2, <1>3, StakedInvariant, PTL DEF Spec

-----------------------------------------------------------------------------
FeelessState ==
    /\ now \in Nat
    /\ feeState \in [maxStreamingFeePercentage : Nat, streamingFeePercentage : {0},
                     lastStreamingFeeTimestamp : Nat]

\* Where the manager may ask for no other fee than zero, none is charged: the
\* theorems above hold of such a fund, however its other fees are set.
THEOREM StakedFundFeeless ==
    ASSUME Fees \subseteq {0}
    PROVE  Spec => []NoStreamingFee
  <1>1. Init => FeelessState
    BY DEF Init, StreamingFeeInit, NoFeeState, FeelessState
  <1>2. FeelessState /\ [Next]_vars => FeelessState'
    <2> SUFFICES ASSUME FeelessState, [Next]_vars PROVE FeelessState'
      OBVIOUS
    <2>1. CASE UNCHANGED feeVars
      BY <2>1 DEF feeVars, FeelessState
    <2>2. CASE FeeStreaming
      <3>1. CASE tick \/ accrueFee \/ removeStreamingFee
        BY <2>2, <3>1 DEF tick, accrueFee, removeStreamingFee, NoFeeState, FeelessState
      <3>2. ASSUME NEW f \in Fees, updateStreamingFee(f) PROVE FeelessState'
        BY <3>2 DEF updateStreamingFee, FeelessState
      <3>3. ASSUME NEW x \in Fees, NEW f \in Fees, initializeStreamingFee(x, f)
            PROVE  FeelessState'
        BY <3>3 DEF initializeStreamingFee, FeelessState
      <3> QED BY <2>2, <3>1, <3>2, <3>3 DEF FeeStreaming
    <2> QED BY <2>1, <2>2 DEF Next, vars, Issuance, Redemption, Stake, Unstake,
                              StakingSettings, IssuanceSettings
  <1>3. FeelessState => NoStreamingFee
    BY DEF FeelessState, NoStreamingFee
  <1> QED BY <1>1, <1>2, <1>3, PTL DEF Spec

=============================================================================
