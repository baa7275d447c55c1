---------------------------- MODULE SumTheorems ----------------------------
(***************************************************************************)
(* The sum of a function over a finite set, SumFunctionOnSet of the        *)
(* community module Functions: that it exists, what it is, and how it      *)
(* changes with the function.                                              *)
(*                                                                         *)
(* The library's induction theorems take the property as an operator; here *)
(* the sets without the property are a set of sets, which has a smallest   *)
(* element because strict inclusion is well-founded on finite sets.        *)
(***************************************************************************)
EXTENDS Integers, Functions, FiniteSetTheorems, WellFoundedInduction, TLAPS

\* A set of finite sets has an element none of whose strict subsets is in it.
LEMMA SmallestSet ==
    ASSUME NEW S, IsFiniteSet(S), NEW C \in SUBSET (SUBSET S), C # {}
    PROVE  \E s \in C : \A t \in C : t \subseteq s => t = s
<1>1. /\ FiniteSubsetsOf(S) = SUBSET S
      /\ IsWellFoundedOn(StrictSubsetOrdering(S), FiniteSubsetsOf(S))
  BY FS_FiniteSubsetsOfFinite, FS_StrictSubsetOrderingWellFounded
<1>2. PICK s \in C : \A t \in C : <<t, s>> \notin StrictSubsetOrdering(S)
  BY <1>1, WFMin
<1> QED
  BY <1>2 DEF StrictSubsetOrdering

-----------------------------------------------------------------------------
(* The sum is well defined. *)

FirstOf(s) == CHOOSE x \in s : TRUE
RestOf(s) == s \ {FirstOf(s)}

\* sums has the sum of f over every subset of S, one element after the other.
PartialSums(sums, f, S) ==
    sums = [s \in SUBSET S |-> IF s = {} THEN 0 ELSE f[FirstOf(s)] + sums[RestOf(s)]]

TotalOf(f, S) == (CHOOSE sums : PartialSums(sums, f, S))[S]

LEMMA SumIsTotal ==
    ASSUME NEW f, NEW S
    PROVE  SumFunctionOnSet(f, S) = TotalOf(f, S)
  BY DEF SumFunctionOnSet, FoldFunctionOnSet, MapThenFoldSet, TotalOf, PartialSums, FirstOf, RestOf

LEMMA FirstRest ==
    ASSUME NEW s, s # {}
    PROVE  FirstOf(s) \in s /\ RestOf(s) \subseteq s /\ RestOf(s) # s
  BY DEF FirstOf, RestOf

LEMMA SumsStep ==
    ASSUME NEW sums, NEW f, NEW A, PartialSums(sums, f, A), NEW s \in SUBSET A
    PROVE  sums[s] = IF s = {} THEN 0 ELSE f[FirstOf(s)] + sums[RestOf(s)]
  BY DEF PartialSums

\* Two such functions agree where they sum the same values.
LEMMA SumsAgree ==
    ASSUME NEW g, NEW f, NEW A, PartialSums(g, f, A), NEW h, NEW e, NEW B, PartialSums(h, e, B),
           NEW S, IsFiniteSet(S), S \subseteq A, S \subseteq B, \A x \in S : f[x] = e[x]
    PROVE  g[S] = h[S]
<1> DEFINE C == {s \in SUBSET S : g[s] # h[s]}
<1>1. CASE C = {}
  BY <1>1
<1>2. CASE C # {}
  <2>1. PICK s \in C : \A t \in C : t \subseteq s => t = s
    <3> HIDE DEF C
    <3>1. C \in SUBSET (SUBSET S)
      BY DEF C
    <3> QED
      BY <1>2, <3>1, SmallestSet
  <2>2. s \in SUBSET A /\ s \in SUBSET B /\ s \subseteq S
    OBVIOUS
  <2>3. s # {}
    BY <2>2, SumsStep
  <2>4. FirstOf(s) \in s /\ RestOf(s) \subseteq s /\ RestOf(s) # s
    BY <2>3, FirstRest
  <2>5. g[RestOf(s)] = h[RestOf(s)]
    BY <2>1, <2>2, <2>4
  <2>6. g[s] = f[FirstOf(s)] + g[RestOf(s)] /\ h[s] = e[FirstOf(s)] + h[RestOf(s)]
    BY <2>2, <2>3, SumsStep
  <2>7. f[FirstOf(s)] = e[FirstOf(s)]
    BY <2>2, <2>4
  <2> QED
    BY <2>5, <2>6, <2>7
<1> QED
  BY <1>1, <1>2

LEMMA SumsRestrict ==
    ASSUME NEW g, NEW f, NEW A, PartialSums(g, f, A), NEW B \in SUBSET A
    PROVE  \E h : PartialSums(h, f, B)
<1>1. PICK h : h = [s \in SUBSET B |-> g[s]]
  OBVIOUS
<1>2. ASSUME NEW s \in SUBSET B
      PROVE  h[s] = IF s = {} THEN 0 ELSE f[FirstOf(s)] + h[RestOf(s)]
  BY <1>1, SumsStep, FirstRest
<1>3. PartialSums(h, f, B)
  BY <1>1, <1>2 DEF PartialSums
<1> QED
  BY <1>3

LEMMA TotalStep ==
    ASSUME NEW f, NEW S, IsFiniteSet(S), \E g : PartialSums(g, f, S)
    PROVE  TotalOf(f, S) = IF S = {} THEN 0 ELSE f[FirstOf(S)] + TotalOf(f, RestOf(S))
<1>1. PICK g : PartialSums(g, f, S) /\ TotalOf(f, S) = g[S]
  BY DEF TotalOf
<1>2. CASE S = {}
  BY <1>1, <1>2, SumsStep
<1>3. CASE S # {}
  <2>1. RestOf(S) \subseteq S /\ IsFiniteSet(RestOf(S))
    BY <1>3, FirstRest, FS_Subset
  <2>2. PICK h : PartialSums(h, f, RestOf(S)) /\ TotalOf(f, RestOf(S)) = h[RestOf(S)]
    BY <1>1, <2>1, SumsRestrict DEF TotalOf
  <2>3. g[RestOf(S)] = h[RestOf(S)]
    BY <1>1, <2>1, <2>2, SumsAgree
  <2> QED
    BY <1>1, <1>3, <2>2, <2>3, SumsStep
<1> QED
  BY <1>2, <1>3

LEMMA SumsExist ==
    ASSUME NEW f, NEW S, IsFiniteSet(S)
    PROVE  \E g : PartialSums(g, f, S)
<1> DEFINE C == {s \in SUBSET S : ~ \E g : PartialSums(g, f, s)}
<1>1. CASE C = {}
  BY <1>1
<1>2. CASE C # {}
  <2>1. PICK s \in C : \A t \in C : t \subseteq s => t = s
    <3> HIDE DEF C
    <3>1. C \in SUBSET (SUBSET S)
      BY DEF C
    <3> QED
      BY <1>2, <3>1, SmallestSet
  <2>2. s \subseteq S /\ IsFiniteSet(s)
    BY FS_Subset
  <2>3. ASSUME NEW t \in SUBSET s, t # s
        PROVE  TotalOf(f, t) = IF t = {} THEN 0 ELSE f[FirstOf(t)] + TotalOf(f, RestOf(t))
    <3>1. IsFiniteSet(t) /\ \E g : PartialSums(g, f, t)
      BY <2>1, <2>2, <2>3, FS_Subset
    <3> QED
      BY <3>1, TotalStep
  <2>4. PICK g : g = [t \in SUBSET s |->
                        IF t = {} THEN 0 ELSE f[FirstOf(t)] + TotalOf(f, RestOf(t))]
    OBVIOUS
  <2>5. ASSUME NEW t \in SUBSET s, t # {} PROVE TotalOf(f, RestOf(t)) = g[RestOf(t)]
    <3>1. RestOf(t) \in SUBSET s /\ RestOf(t) # s
      BY <2>5, FirstRest
    <3> QED
      BY <2>3, <2>4, <3>1
  <2>6. PartialSums(g, f, s)
    BY <2>4, <2>5 DEF PartialSums
  <2> QED
    BY <2>6
<1> QED
  BY <1>1, <1>2

-----------------------------------------------------------------------------
(* What the sum is. *)

LEMMA SumEmpty == ASSUME NEW f PROVE SumFunctionOnSet(f, {}) = 0
  BY SumIsTotal, SumsExist, TotalStep, FS_EmptySet

LEMMA SumFirst ==
    ASSUME NEW f, NEW S, IsFiniteSet(S), S # {}
    PROVE  \E x \in S : SumFunctionOnSet(f, S) = f[x] + SumFunctionOnSet(f, S \ {x})
  BY SumIsTotal, SumsExist, TotalStep, FirstRest DEF RestOf

\* Sums of the same values are the same.
LEMMA SumSame ==
    ASSUME NEW f, NEW e, NEW S, IsFiniteSet(S), \A x \in S : f[x] = e[x]
    PROVE  SumFunctionOnSet(f, S) = SumFunctionOnSet(e, S)
<1>1. PICK g : PartialSums(g, f, S) /\ TotalOf(f, S) = g[S]
  BY SumsExist DEF TotalOf
<1>2. PICK h : PartialSums(h, e, S) /\ TotalOf(e, S) = h[S]
  BY SumsExist DEF TotalOf
<1>3. g[S] = h[S]
  BY <1>1, <1>2, SumsAgree
<1> QED
  BY <1>1, <1>2, <1>3, SumIsTotal

LEMMA SumInt ==
    ASSUME NEW f, NEW S, IsFiniteSet(S), \A x \in S : f[x] \in Int
    PROVE  SumFunctionOnSet(f, S) \in Int
<1> DEFINE C == {s \in SUBSET S : SumFunctionOnSet(f, s) \notin Int}
<1>1. CASE C = {}
  BY <1>1
<1>2. CASE C # {}
  <2>1. PICK s \in C : \A t \in C : t \subseteq s => t = s
    <3> HIDE DEF C
    <3>1. C \in SUBSET (SUBSET S)
      BY DEF C
    <3> QED
      BY <1>2, <3>1, SmallestSet
  <2>2. IsFiniteSet(s) /\ s # {}
    <3>1. IsFiniteSet(s)
      BY FS_Subset
    <3>2. SumFunctionOnSet(f, {}) \in Int
      BY SumEmpty
    <3> QED
      BY <3>1, <3>2
  <2>3. PICK x \in s : SumFunctionOnSet(f, s) = f[x] + SumFunctionOnSet(f, s \ {x})
    BY <2>2, SumFirst
  <2>4. SumFunctionOnSet(f, s \ {x}) \in Int
    BY <2>1
  <2> QED
    BY <2>3, <2>4
<1> QED
  BY <1>1, <1>2

\* Any element may be taken first.
LEMMA SumTake ==
    ASSUME NEW f, NEW S, IsFiniteSet(S), \A x \in S : f[x] \in Int, NEW y \in S
    PROVE  SumFunctionOnSet(f, S) = f[y] + SumFunctionOnSet(f, S \ {y})
<1> DEFINE Takes(s) == \A z \in s :
              SumFunctionOnSet(f, s) = f[z] + SumFunctionOnSet(f, s \ {z})
           C == {s \in SUBSET S : ~Takes(s)}
<1>1. CASE C = {}
  BY <1>1
<1>2. CASE C # {}
  <2>1. PICK s \in C : \A t \in C : t \subseteq s => t = s
    <3> HIDE DEF C
    <3>1. C \in SUBSET (SUBSET S)
      BY DEF C
    <3> QED
      BY <1>2, <3>1, SmallestSet
  <2>2. PICK z \in s : SumFunctionOnSet(f, s) # f[z] + SumFunctionOnSet(f, s \ {z})
    OBVIOUS
  <2>3. IsFiniteSet(s) /\ s # {}
    BY <2>2, FS_Subset
  <2>4. PICK x \in s : SumFunctionOnSet(f, s) = f[x] + SumFunctionOnSet(f, s \ {x})
    BY <2>3, SumFirst
  <2>5. x # z /\ f[x] \in Int /\ f[z] \in Int
    BY <2>2, <2>4
  <2>6. Takes(s \ {x}) /\ Takes(s \ {z})
    BY <2>1, <2>2, <2>4
  <2>7. SumFunctionOnSet(f, s \ {x}) = f[z] + SumFunctionOnSet(f, (s \ {x}) \ {z})
    BY <2>2, <2>5, <2>6
  <2>8. SumFunctionOnSet(f, s \ {z}) = f[x] + SumFunctionOnSet(f, (s \ {z}) \ {x})
    BY <2>4, <2>5, <2>6
  <2>9. (s \ {x}) \ {z} = (s \ {z}) \ {x} /\ IsFiniteSet((s \ {x}) \ {z})
    BY <2>3, FS_Subset
  <2>10. PICK r \in Int : r = SumFunctionOnSet(f, (s \ {x}) \ {z})
    BY <2>9, SumInt
  <2>11. PICK a \in Int, b \in Int : a = f[x] /\ b = f[z]
    BY <2>5
  <2>12. SumFunctionOnSet(f, s) = a + (b + r)
    BY <2>4, <2>7, <2>10, <2>11
  <2>13. SumFunctionOnSet(f, s \ {z}) = a + r
    BY <2>8, <2>9, <2>10, <2>11
  <2> QED
    BY <2>2, <2>11, <2>12, <2>13
<1> QED
  BY <1>1, <1>2

\* What one value adds to the sum.
LEMMA SumUpdate ==
    ASSUME NEW f, NEW e, NEW S, IsFiniteSet(S), NEW y \in S,
           \A x \in S : f[x] \in Int /\ e[x] \in Int, \A x \in S \ {y} : e[x] = f[x]
    PROVE  SumFunctionOnSet(e, S) = SumFunctionOnSet(f, S) - f[y] + e[y]
<1>1. IsFiniteSet(S \ {y})
  BY FS_Subset
<1>2. SumFunctionOnSet(e, S \ {y}) = SumFunctionOnSet(f, S \ {y})
  BY <1>1, SumSame
<1>3. PICK r \in Int : r = SumFunctionOnSet(f, S \ {y})
  BY <1>1, SumInt
<1>4. SumFunctionOnSet(e, S) = e[y] + r /\ SumFunctionOnSet(f, S) = f[y] + r
  BY <1>2, <1>3, SumTake
<1> QED
  BY <1>4

\* The sum of sums.
LEMMA SumPlus ==
    ASSUME NEW f, NEW e, NEW g, NEW S, IsFiniteSet(S),
           \A x \in S : f[x] \in Int /\ e[x] \in Int /\ g[x] = f[x] + e[x]
    PROVE  SumFunctionOnSet(g, S) = SumFunctionOnSet(f, S) + SumFunctionOnSet(e, S)
<1> DEFINE Adds(s) ==
              SumFunctionOnSet(g, s) = SumFunctionOnSet(f, s) + SumFunctionOnSet(e, s)
           C == {s \in SUBSET S : ~Adds(s)}
<1>1. CASE C = {}
  BY <1>1
<1>2. CASE C # {}
  <2>1. PICK s \in C : \A t \in C : t \subseteq s => t = s
    <3> HIDE DEF C
    <3>1. C \in SUBSET (SUBSET S)
      BY DEF C
    <3> QED
      BY <1>2, <3>1, SmallestSet
  <2>2. IsFiniteSet(s)
    BY FS_Subset
  <2>3. s # {}
    <3>1. Adds({})
      BY SumEmpty
    <3> QED
      BY <3>1
  <2>4. PICK x \in s : TRUE
    BY <2>3
  <2>5. /\ SumFunctionOnSet(f, s) = f[x] + SumFunctionOnSet(f, s \ {x})
        /\ SumFunctionOnSet(e, s) = e[x] + SumFunctionOnSet(e, s \ {x})
        /\ SumFunctionOnSet(g, s) = g[x] + SumFunctionOnSet(g, s \ {x})
    BY <2>2, SumTake
  <2>6. Adds(s \ {x})
    BY <2>1
  <2>7. IsFiniteSet(s \ {x})
    BY <2>2, FS_Subset
  <2>8. PICK p \in Int : p = SumFunctionOnSet(f, s \ {x})
    BY <2>7, SumInt
  <2>9. PICK q \in Int : q = SumFunctionOnSet(e, s \ {x})
    BY <2>7, SumInt
  <2> QED
    BY <2>5, <2>6, <2>8, <2>9
<1> QED
  BY <1>1, <1>2

\* A function that is one on a part and zero elsewhere counts the part.
LEMMA SumCounts ==
    ASSUME NEW f, NEW S, IsFiniteSet(S), NEW T \in SUBSET S,
           \A x \in S : f[x] = IF x \in T THEN 1 ELSE 0
    PROVE  SumFunctionOnSet(f, S) = Cardinality(T)
<1> DEFINE Counts(s) == SumFunctionOnSet(f, s) = Cardinality(s \cap T)
           C == {s \in SUBSET S : ~Counts(s)}
<1>1. CASE C = {}
  <2>1. S \cap T = T /\ Counts(S)
    BY <1>1
  <2> QED
    BY <2>1
<1>2. CASE C # {}
  <2>1. PICK s \in C : \A t \in C : t \subseteq s => t = s
    <3> HIDE DEF C
    <3>1. C \in SUBSET (SUBSET S)
      BY DEF C
    <3> QED
      BY <1>2, <3>1, SmallestSet
  <2>2. IsFiniteSet(s)
    BY FS_Subset
  <2>3. s # {}
    <3>1. {} \cap T = {}
      OBVIOUS
    <3> QED
      BY <3>1, SumEmpty, FS_EmptySet
  <2>4. PICK x \in s : TRUE
    BY <2>3
  <2>5. SumFunctionOnSet(f, s) = f[x] + SumFunctionOnSet(f, s \ {x})
    BY <2>2, SumTake
  <2>6. Counts(s \ {x})
    BY <2>1
  <2>7. IsFiniteSet(s \cap T) /\ IsFiniteSet((s \ {x}) \cap T)
    BY <2>2, FS_Subset
  <2>8. SumFunctionOnSet(f, s) # Cardinality(s \cap T)
    OBVIOUS
  <2>9. PICK n \in Nat : /\ n = Cardinality((s \ {x}) \cap T)
                         /\ SumFunctionOnSet(f, s) = f[x] + n
    BY <2>5, <2>6, <2>7, FS_CardinalityType
  <2> HIDE DEF C
  <2>10. CASE x \in T
    <3>1. (s \ {x}) \cap T = (s \cap T) \ {x} /\ x \in s \cap T
      BY <2>10
    <3>2. Cardinality(s \cap T) \in Nat /\ n = Cardinality(s \cap T) - 1
      <4>1. PICK p : p = s \cap T
        OBVIOUS
      <4>2. IsFiniteSet(p) /\ x \in p /\ n = Cardinality(p \ {x})
        BY <2>7, <2>9, <3>1, <4>1
      <4>3. Cardinality(p) \in Nat /\ n = Cardinality(p) - 1
        BY <4>2, FS_RemoveElement, FS_CardinalityType
      <4> QED
        BY <4>1, <4>3
    <3>3. f[x] = 1
      BY <2>1, <2>10 DEF C
    <3> QED
      BY <2>8, <2>9, <3>2, <3>3
  <2>11. CASE x \notin T
    <3>1. (s \ {x}) \cap T = s \cap T
      BY <2>11
    <3>2. f[x] = 0
      BY <2>1, <2>11 DEF C
    <3> QED
      BY <2>8, <2>9, <3>1, <3>2
  <2> QED
    BY <2>10, <2>11
<1> QED
  BY <1>1, <1>2

\* The sum of a constant.
LEMMA SumConstant ==
    ASSUME NEW f, NEW S, IsFiniteSet(S), NEW c \in Nat, \A x \in S : f[x] = c
    PROVE  SumFunctionOnSet(f, S) = c * Cardinality(S)
<1> DEFINE Multiple(s) == SumFunctionOnSet(f, s) = c * Cardinality(s)
           C == {s \in SUBSET S : ~Multiple(s)}
<1>1. CASE C = {}
  BY <1>1
<1>2. CASE C # {}
  <2>1. PICK s \in C : \A t \in C : t \subseteq s => t = s
    <3> HIDE DEF C
    <3>1. C \in SUBSET (SUBSET S)
      BY DEF C
    <3> QED
      BY <1>2, <3>1, SmallestSet
  <2>2. IsFiniteSet(s)
    BY FS_Subset
  <2>3. s # {}
    <3>1. SumFunctionOnSet(f, {}) = 0 /\ Cardinality({}) = 0 /\ c * 0 = 0
      BY SumEmpty, FS_EmptySet
    <3> QED
      BY <3>1
  <2>4. PICK x \in s : SumFunctionOnSet(f, s) = f[x] + SumFunctionOnSet(f, s \ {x})
    BY <2>2, <2>3, SumFirst
  <2>5. SumFunctionOnSet(f, s \ {x}) = c * Cardinality(s \ {x})
    BY <2>1, <2>4
  <2>6. PICK n \in Nat : n = Cardinality(s \ {x}) /\ Cardinality(s) = n + 1
    <3>1. IsFiniteSet(s \ {x}) /\ Cardinality(s \ {x}) = Cardinality(s) - 1
      BY <2>2, <2>4, FS_RemoveElement
    <3>2. Cardinality(s) \in Nat /\ Cardinality(s \ {x}) \in Nat
      BY <2>2, <3>1, FS_CardinalityType
    <3> QED
      BY <3>1, <3>2
  <2>7. c * (n + 1) = c * n + c /\ c * n \in Nat
    OBVIOUS
  <2>8. SumFunctionOnSet(f, s) = c * Cardinality(s)
    BY <2>1, <2>4, <2>5, <2>6, <2>7
  <2> QED
    BY <2>1, <2>8
<1> QED
  BY <1>1, <1>2

\* The sum of naturals is a natural.
LEMMA SumNat ==
    ASSUME NEW f, NEW S, IsFiniteSet(S), \A x \in S : f[x] \in Nat
    PROVE  SumFunctionOnSet(f, S) \in Nat
<1> DEFINE C == {s \in SUBSET S : SumFunctionOnSet(f, s) \notin Nat}
<1>1. CASE C = {}
  BY <1>1
<1>2. CASE C # {}
  <2>1. PICK s \in C : \A t \in C : t \subseteq s => t = s
    <3> HIDE DEF C
    <3>1. C \in SUBSET (SUBSET S)
      BY DEF C
    <3> QED
      BY <1>2, <3>1, SmallestSet
  <2>2. IsFiniteSet(s) /\ s # {}
    <3>1. IsFiniteSet(s)
      BY FS_Subset
    <3>2. SumFunctionOnSet(f, {}) \in Nat
      BY SumEmpty
    <3> QED
      BY <3>1, <3>2
  <2>3. PICK x \in s : SumFunctionOnSet(f, s) = f[x] + SumFunctionOnSet(f, s \ {x})
    BY <2>2, SumFirst
  <2>4. SumFunctionOnSet(f, s \ {x}) \in Nat
    BY <2>1
  <2> QED
    BY <2>3, <2>4
<1> QED
  BY <1>1, <1>2
=============================================================================
