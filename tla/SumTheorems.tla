----------------------------- MODULE SumTheorems -----------------------------
(***************************************************************************)
(* Sums of naturals over finite sets, as SumFunctionOnSet of the community *)
(* module Functions computes them: facts the proofs of this project cite.  *)
(* The library's induction takes an operator and cannot be used, so a sum  *)
(* is first shown to be a number of elements, which grows by known facts.  *)
(***************************************************************************)
EXTENDS Integers, FiniteSets, Functions, FiniteSetTheorems, WellFoundedInduction, TLAPS

(* One step of the recursion SumFunctionOnSet stands for.                  *)
Step(f, g, s) == IF s = {} THEN 0 ELSE f[CHOOSE x \in s : TRUE] + g[s \ {CHOOSE x \in s : TRUE}]

LEMMA SumUnfolds ==
  ASSUME NEW f, NEW S
  PROVE  SumFunctionOnSet(f, S) = (CHOOSE g : g = [s \in SUBSET S |-> Step(f, g, s)])[S]
  BY DEF SumFunctionOnSet, FoldFunctionOnSet, MapThenFoldSet, Step

(* The units of f over S, one pair for every unit.                         *)
Units(f, S) == UNION {{x} \X (1 .. f[x]) : x \in S}

LEMMA UnitsOfOne ==
  ASSUME NEW x, NEW n \in Nat
  PROVE  IsFiniteSet({x} \X (1 .. n)) /\ Cardinality({x} \X (1 .. n)) = n
<1> DEFINE A == {x}
           B == 1 .. n
<1>1. IsFiniteSet(A) /\ Cardinality(A) = 1
  BY FS_Singleton
<1>2. IsFiniteSet(B) /\ Cardinality(B) = n
  BY FS_Interval
<1> HIDE DEF A, B
<1>3. IsFiniteSet(A \X B) /\ Cardinality(A \X B) = Cardinality(A) * Cardinality(B)
  BY <1>1, <1>2, FS_Product
<1> QED  BY <1>1, <1>2, <1>3 DEF A, B

LEMMA UnitsFinite ==
  ASSUME NEW f, NEW S, IsFiniteSet(S), \A x \in S : f[x] \in Nat
  PROVE  IsFiniteSet(Units(f, S))
<1> DEFINE Columns == {{x} \X (1 .. f[x]) : x \in S}
<1>1. [x \in S |-> {x} \X (1 .. f[x])] \in Surjection(S, Columns)
  BY DEF Surjection
<1>2. IsFiniteSet(Columns)
  BY <1>1, FS_Surjection
<1>3. ASSUME NEW C \in Columns PROVE IsFiniteSet(C)
  <2>1. PICK x \in S : C = {x} \X (1 .. f[x])
    OBVIOUS
  <2>2. IsFiniteSet({x} \X (1 .. f[x]))
    BY UnitsOfOne
  <2> QED  BY <2>1, <2>2
<1> HIDE DEF Columns
<1>4. IsFiniteSet(UNION Columns)
  BY <1>2, <1>3, FS_UNION
<1> QED  BY <1>4 DEF Units, Columns

LEMMA UnitsAdd ==
  ASSUME NEW f, NEW S, IsFiniteSet(S), \A x \in S : f[x] \in Nat, NEW x \in S
  PROVE  Cardinality(Units(f, S)) = f[x] + Cardinality(Units(f, S \ {x}))
<1> DEFINE A == {x} \X (1 .. f[x])
           B == Units(f, S \ {x})
<1>1. Units(f, S) = A \cup B /\ A \cap B = {}
  BY DEF Units
<1>2. IsFiniteSet(B)
  BY UnitsFinite, FS_Subset
<1>3. IsFiniteSet(A) /\ Cardinality(A) = f[x]
  BY UnitsOfOne
<1> HIDE DEF A, B
<1>4. Cardinality(A \cup B) = Cardinality(A) + Cardinality(B) - Cardinality(A \cap B)
  BY <1>2, <1>3, FS_Union
<1>5. Cardinality(A \cap B) = 0 /\ Cardinality(B) \in Nat /\ f[x] \in Nat
  BY <1>1, <1>2, FS_EmptySet, FS_CardinalityType
<1>6. Cardinality(Units(f, S)) = f[x] + Cardinality(B)
  BY <1>1, <1>3, <1>4, <1>5
<1> QED  BY <1>6 DEF B

LEMMA UnitsEmpty == \A f : Cardinality(Units(f, {})) = 0
<1>1. \A f : Units(f, {}) = {}
  BY DEF Units
<1> QED  BY <1>1, FS_EmptySet

(* A sum of naturals counts its units.                                     *)
LEMMA SumCountsUnits ==
  ASSUME NEW f, NEW S, IsFiniteSet(S), \A x \in S : f[x] \in Nat
  PROVE  SumFunctionOnSet(f, S) = Cardinality(Units(f, S))
<1> DEFINE IsSum(g) == g = [s \in SUBSET S |-> Step(f, g, s)]
           count == [s \in SUBSET S |-> Cardinality(Units(f, s))]
           iter == CHOOSE g : IsSum(g)
<1>1. ASSUME NEW s \in SUBSET S PROVE count[s] = Step(f, count, s)
  <2>1. CASE s = {}
    BY <2>1, UnitsEmpty DEF Step
  <2>2. CASE s # {}
    <3> DEFINE x == CHOOSE x \in s : TRUE
    <3>1. x \in s
      BY <2>2
    <3> HIDE DEF x
    <3>2. Cardinality(Units(f, s)) = f[x] + Cardinality(Units(f, s \ {x}))
      BY <3>1, UnitsAdd, FS_Subset
    <3>3. count[s] = f[x] + count[s \ {x}]
      BY <3>2
    <3> QED  BY <2>2, <3>3 DEF Step, x
  <2> QED  BY <2>1, <2>2
<1>2. IsSum(count)
  <2>1. count = [s \in SUBSET S |-> count[s]]
    OBVIOUS
  <2> QED  BY <1>1, <2>1
<1>3. IsSum(iter)
  BY <1>2
<1> DEFINE Differ == {s \in SUBSET S : iter[s] # count[s]}
<1> HIDE DEF iter
<1>4. Differ = {}
  <2> SUFFICES ASSUME Differ # {} PROVE FALSE
    OBVIOUS
  <2>1. IsWellFoundedOn(StrictSubsetOrdering(S), SUBSET S)
    BY FS_StrictSubsetOrderingWellFounded, FS_FiniteSubsetsOfFinite
  <2>2. PICK s \in Differ : \A r \in Differ : <<r, s>> \notin StrictSubsetOrdering(S)
    BY <2>1, WFMin
  <2>3. iter[s] = Step(f, iter, s) /\ count[s] = Step(f, count, s)
    BY <1>1, <1>3
  <2>4. s # {}
    BY <2>3 DEF Step
  <2> DEFINE x == CHOOSE x \in s : TRUE
             r == s \ {x}
  <2>5. x \in s
    BY <2>4
  <2>6. <<r, s>> \in StrictSubsetOrdering(S) /\ r \in SUBSET S
    BY <2>5 DEF StrictSubsetOrdering
  <2>7. iter[r] = count[r]
    BY <2>2, <2>6
  <2> QED  BY <2>2, <2>3, <2>4, <2>7 DEF Step
<1>5. SumFunctionOnSet(f, S) = iter[S]
  BY SumUnfolds DEF iter
<1> QED  BY <1>4, <1>5

-----------------------------------------------------------------------------
LEMMA SumEmpty == \A f : SumFunctionOnSet(f, {}) = 0
<1> SUFFICES ASSUME NEW f PROVE SumFunctionOnSet(f, {}) = 0
  OBVIOUS
<1> QED  BY SumCountsUnits, UnitsEmpty, FS_EmptySet

LEMMA SumIsNat ==
  ASSUME NEW f, NEW S, IsFiniteSet(S), \A x \in S : f[x] \in Nat
  PROVE  SumFunctionOnSet(f, S) \in Nat
  BY SumCountsUnits, UnitsFinite, FS_CardinalityType

LEMMA SumTakesOut ==
  ASSUME NEW f, NEW S, IsFiniteSet(S), \A x \in S : f[x] \in Nat, NEW x \in S
  PROVE  SumFunctionOnSet(f, S) = f[x] + SumFunctionOnSet(f, S \ {x})
<1>1. IsFiniteSet(S \ {x})
  BY FS_RemoveElement
<1>2. SumFunctionOnSet(f, S) = Cardinality(Units(f, S))
  BY SumCountsUnits
<1>3. SumFunctionOnSet(f, S \ {x}) = Cardinality(Units(f, S \ {x}))
  BY <1>1, SumCountsUnits
<1> QED  BY <1>2, <1>3, UnitsAdd

LEMMA SumPutsIn ==
  ASSUME NEW f, NEW S, IsFiniteSet(S), NEW y, y \notin S, \A x \in S \cup {y} : f[x] \in Nat
  PROVE  SumFunctionOnSet(f, S \cup {y}) = f[y] + SumFunctionOnSet(f, S)
<1>1. IsFiniteSet(S \cup {y}) /\ (S \cup {y}) \ {y} = S
  BY FS_AddElement
<1> QED  BY <1>1, SumTakesOut

(* Only the values on the set count, and a sum grows with them and with it.*)
LEMMA SumSame ==
  ASSUME NEW f, NEW g, NEW S, IsFiniteSet(S), \A x \in S : f[x] \in Nat, \A x \in S : g[x] = f[x]
  PROVE  SumFunctionOnSet(g, S) = SumFunctionOnSet(f, S)
<1>1. Units(g, S) = Units(f, S)
  BY DEF Units
<1> QED  BY <1>1, SumCountsUnits

LEMMA SumGrows ==
  ASSUME NEW f, NEW g, NEW S, IsFiniteSet(S), NEW T \in SUBSET S,
         \A x \in T : f[x] \in Nat, \A x \in S : g[x] \in Nat, \A x \in T : f[x] <= g[x]
  PROVE  SumFunctionOnSet(f, T) <= SumFunctionOnSet(g, S)
<1>1. Units(f, T) \subseteq Units(g, S)
  BY DEF Units
<1>2. IsFiniteSet(Units(g, S))
  BY UnitsFinite
<1>3. Cardinality(Units(f, T)) <= Cardinality(Units(g, S))
  BY <1>1, <1>2, FS_Subset
<1>4. IsFiniteSet(T)
  BY FS_Subset
<1> QED  BY <1>3, <1>4, SumCountsUnits

(* One value is changed.                                                   *)
LEMMA SumEdited ==
  ASSUME NEW f, NEW g, NEW S, IsFiniteSet(S), NEW y \in S,
         \A x \in S : f[x] \in Nat, \A x \in S : g[x] \in Nat, \A x \in S \ {y} : g[x] = f[x]
  PROVE  SumFunctionOnSet(g, S) = SumFunctionOnSet(f, S) - f[y] + g[y]
<1>1. IsFiniteSet(S \ {y})
  BY FS_RemoveElement
<1>2. SumFunctionOnSet(g, S \ {y}) = SumFunctionOnSet(f, S \ {y})
  BY <1>1, SumSame
<1>3. SumFunctionOnSet(f, S \ {y}) \in Nat
  BY <1>1, SumIsNat
<1>4. SumFunctionOnSet(f, S) = f[y] + SumFunctionOnSet(f, S \ {y})
  BY SumTakesOut
<1>5. SumFunctionOnSet(g, S) = g[y] + SumFunctionOnSet(g, S \ {y})
  BY SumTakesOut
<1> QED  BY <1>2, <1>3, <1>4, <1>5

LEMMA SumOfZeros ==
  ASSUME NEW f, NEW S, IsFiniteSet(S), \A x \in S : f[x] = 0
  PROVE  SumFunctionOnSet(f, S) = 0
<1>1. \A x \in S : f[x] \in Nat
  OBVIOUS
<1>2. Units(f, S) = {}
  BY DEF Units
<1> QED  BY <1>1, <1>2, SumCountsUnits, FS_EmptySet

(* The sum over a set is that over a part of it and over the rest.         *)
LEMMA SumSplits ==
  ASSUME NEW f, NEW S, IsFiniteSet(S), \A x \in S : f[x] \in Nat, NEW T \in SUBSET S
  PROVE  SumFunctionOnSet(f, S) = SumFunctionOnSet(f, T) + SumFunctionOnSet(f, S \ T)
<1> DEFINE A == Units(f, T)
           B == Units(f, S \ T)
<1>1. IsFiniteSet(T) /\ IsFiniteSet(S \ T)
  BY FS_Subset
<1>2. Units(f, S) = A \cup B /\ A \cap B = {}
  BY DEF Units
<1>3. IsFiniteSet(A) /\ IsFiniteSet(B)
  BY <1>1, UnitsFinite
<1>4. /\ SumFunctionOnSet(f, S) = Cardinality(Units(f, S))
      /\ SumFunctionOnSet(f, T) = Cardinality(A) /\ SumFunctionOnSet(f, S \ T) = Cardinality(B)
  BY <1>1, SumCountsUnits
<1> HIDE DEF A, B
<1>5. Cardinality(A \cup B) = Cardinality(A) + Cardinality(B) - Cardinality(A \cap B)
  BY <1>3, FS_Union
<1>6. Cardinality(A \cap B) = 0 /\ Cardinality(A) \in Nat /\ Cardinality(B) \in Nat
  BY <1>2, <1>3, FS_EmptySet, FS_CardinalityType
<1> QED  BY <1>2, <1>4, <1>5, <1>6

(* A sum of one value counted over and over is a product.                  *)
LEMMA SumOfOneValue ==
  ASSUME NEW f, NEW S, IsFiniteSet(S), NEW n \in Nat, \A x \in S : f[x] = n
  PROVE  SumFunctionOnSet(f, S) = n * Cardinality(S)
<1> DEFINE B == 1 .. n
<1>1. IsFiniteSet(B) /\ Cardinality(B) = n
  BY FS_Interval
<1>2. Units(f, S) = S \X B
  BY DEF Units
<1> HIDE DEF B
<1>3. Cardinality(S \X B) = Cardinality(S) * Cardinality(B)
  BY <1>1, FS_Product
<1>4. SumFunctionOnSet(f, S) = Cardinality(Units(f, S))
  BY SumCountsUnits
<1>5. Cardinality(S) \in Nat
  BY FS_CardinalityType
<1> QED  BY <1>1, <1>2, <1>3, <1>4, <1>5

LEMMA SubsetsWellFounded ==
  ASSUME NEW S, IsFiniteSet(S)
  PROVE  IsWellFoundedOn(StrictSubsetOrdering(S), SUBSET S)
  BY FS_StrictSubsetOrderingWellFounded, FS_FiniteSubsetsOfFinite

(* Sums over the parts a set is cut into add up to the sum over it.        *)
IsCut(part, K, S) ==
  /\ \A k \in K : part[k] \subseteq S /\ part[k] # {}
  /\ \A x \in S : \E k \in K : x \in part[k]
  /\ \A j, k \in K : j # k => part[j] \cap part[k] = {}

LEMMA CutIsFinite ==
  ASSUME NEW S, IsFiniteSet(S), NEW K, NEW part, IsCut(part, K, S)
  PROVE  IsFiniteSet(K)
<1> DEFINE cut == [x \in S |-> CHOOSE k \in K : x \in part[k]]
<1>1. \A x \in S : cut[x] \in K /\ x \in part[cut[x]]
  BY DEF IsCut
<1>2. \A k \in K : \E x \in S : cut[x] = k
  <2> SUFFICES ASSUME NEW k \in K PROVE \E x \in S : cut[x] = k
    OBVIOUS
  <2>1. PICK x \in part[k] : x \in S
    BY DEF IsCut
  <2> HIDE DEF cut
  <2>2. cut[x] = k
    BY <1>1, <2>1 DEF IsCut
  <2> QED  BY <2>1, <2>2
<1>3. cut \in Surjection(S, K)
  <2>1. cut \in [S -> K]
    BY <1>1
  <2> HIDE DEF cut
  <2> QED  BY <1>2, <2>1 DEF Surjection
<1> QED  BY <1>3, FS_Surjection

LEMMA SumOfParts ==
  ASSUME NEW f, NEW S, IsFiniteSet(S), \A x \in S : f[x] \in Nat,
         NEW K, NEW part, IsCut(part, K, S),
         NEW g, \A k \in K : g[k] = SumFunctionOnSet(f, part[k])
  PROVE  /\ \A k \in K : g[k] \in Nat
         /\ SumFunctionOnSet(g, K) = SumFunctionOnSet(f, S)
<1> DEFINE Part(s) == UNION {part[k] : k \in s}
           Differ == {s \in SUBSET K : SumFunctionOnSet(g, s) # SumFunctionOnSet(f, Part(s))}
<1>1. \A k \in K : part[k] \subseteq S
  BY DEF IsCut
<1>2. IsFiniteSet(K)
  BY CutIsFinite
<1>3. \A s \in SUBSET K : Part(s) \subseteq S
  BY <1>1
<1>4. \A k \in K : g[k] \in Nat
  <2> SUFFICES ASSUME NEW k \in K PROVE g[k] \in Nat
    OBVIOUS
  <2>1. IsFiniteSet(part[k]) /\ part[k] \subseteq S
    BY <1>1, FS_Subset
  <2> QED  BY <2>1, SumIsNat
<1>5. Differ = {}
  <2> SUFFICES ASSUME Differ # {} PROVE FALSE
    OBVIOUS
  <2>1. IsWellFoundedOn(StrictSubsetOrdering(K), SUBSET K)
    BY <1>2, SubsetsWellFounded
  <2>2. PICK s \in Differ : \A r \in Differ : <<r, s>> \notin StrictSubsetOrdering(K)
    BY <2>1, WFMin
  <2>3. IsFiniteSet(s)
    BY <1>2, FS_Subset
  <2>4. s # {}
    <3> SUFFICES ASSUME s = {} PROVE FALSE
      OBVIOUS
    <3>1. Part(s) = {}
      OBVIOUS
    <3> QED  BY <3>1, SumEmpty
  <2>5. PICK k \in s : TRUE
    BY <2>4
  <2> DEFINE r == s \ {k}
             one == part[k]
             whole == Part(s)
             rest == Part(r)
  <2>6. <<r, s>> \in StrictSubsetOrdering(K) /\ r \in SUBSET K
    BY <2>5 DEF StrictSubsetOrdering
  <2>7. SumFunctionOnSet(g, r) = SumFunctionOnSet(f, rest)
    BY <2>2, <2>6
  <2>8. SumFunctionOnSet(g, s) = g[k] + SumFunctionOnSet(g, r)
    <3>1. \A x \in s : g[x] \in Nat
      BY <1>4
    <3> QED  BY <2>3, <3>1, SumTakesOut
  <2>9. one \in SUBSET whole /\ whole \ one = rest
    BY <2>5 DEF IsCut
  <2>10. SumFunctionOnSet(f, whole) = SumFunctionOnSet(f, one) + SumFunctionOnSet(f, rest)
    <3>1. whole \subseteq S
      BY <1>3
    <3> HIDE DEF whole
    <3>2. IsFiniteSet(whole) /\ \A x \in whole : f[x] \in Nat
      BY <3>1, FS_Subset
    <3> HIDE DEF rest, one
    <3> QED  BY <2>9, <3>2, SumSplits
  <2>11. g[k] = SumFunctionOnSet(f, one)
    BY <2>5
  <2> QED  BY <2>2, <2>7, <2>8, <2>10, <2>11
<1>6. Part(K) = S
  BY DEF IsCut
<1> HIDE DEF Part
<1>7. SumFunctionOnSet(g, K) = SumFunctionOnSet(f, Part(K))
  BY <1>5
<1> QED  BY <1>4, <1>6, <1>7

-----------------------------------------------------------------------------
(* Every nonempty set of naturals has a least element.                     *)
LEMMA LeastNatural ==
  ASSUME NEW S \in SUBSET Nat, S # {}
  PROVE  \E m \in S : \A n \in S : m <= n
<1>1. PICK m \in S : \A n \in S : ~ (<<n, m>> \in OpToRel(<, Nat))
  BY NatLessThanWellFounded, WFMin
<1> SUFFICES ASSUME NEW n \in S PROVE m <= n
  BY <1>1
<1>2. <<n, m>> \in Nat \X Nat
  OBVIOUS
<1>3. ~ (n < m)
  BY <1>1, <1>2 DEF OpToRel
<1> QED  BY <1>3
=============================================================================
