----------------------------- MODULE SumTheorems -----------------------------
(***************************************************************************)
(* What SumFunctionOnSet of the community module Functions computes, for   *)
(* every finite set and every function with integer values on it: the      *)
(* facts that the proofs about totals (a TotalPar row, a UserParValue row, *)
(* a protocol total) rest on.                                              *)
(*                                                                         *)
(* The sum is defined by a recursive function on the subsets of the index  *)
(* set that takes a chosen element out at each step.  That this function   *)
(* exists, does not depend on the index set it was defined for, and does   *)
(* not depend on the order of the choices is proved by looking at a least  *)
(* counterexample: a number, or a subset, that is least among those for    *)
(* which the claim fails.                                                  *)
(***************************************************************************)
EXTENDS Integers, Functions, FiniteSetTheorems, WellFoundedInduction, TLAPS

-----------------------------------------------------------------------------
(* Least counterexamples                                                   *)

\* A non-empty set of natural numbers has a least element.
LEMMA LeastNatural ==
  ASSUME NEW T, T \subseteq Nat, T # {}
  PROVE  \E n \in T : \A m \in T : n <= m
  <1>1. \E n \in T : \A m \in T : <<m, n>> \notin OpToRel(<, Nat)
    <2>1. IsWellFoundedOn(OpToRel(<, Nat), Nat)
      BY NatLessThanWellFounded
    <2> QED BY <2>1, WFMin
  <1>2. PICK n \in T : \A m \in T : <<m, n>> \notin OpToRel(<, Nat)
    BY <1>1
  <1>3. ASSUME NEW m \in T PROVE n <= m
    <2>1. <<m, n>> \notin OpToRel(<, Nat)
      BY <1>2
    <2>2. m \in Nat /\ n \in Nat
      OBVIOUS
    <2>3. ~ (m < n)
      BY <2>1, <2>2 DEF OpToRel
    <2> QED BY <2>2, <2>3
  <1> QED BY <1>3

\* A non-empty set of subsets of a finite set has one that contains no other.
LEMMA LeastSubset ==
  ASSUME NEW S, IsFiniteSet(S), NEW T, T \subseteq SUBSET S, T # {}
  PROVE  \E s \in T : \A r \in T : ~ (r \subseteq s /\ r # s)
  <1> DEFINE Sizes == {Cardinality(s) : s \in T}
  <1>1. \A s \in T : IsFiniteSet(s) /\ Cardinality(s) \in Nat
    BY FS_Subset, FS_CardinalityType
  <1>2. Sizes \subseteq Nat /\ Sizes # {}
    BY <1>1
  <1>3. PICK n \in Sizes : \A m \in Sizes : n <= m
    <2> HIDE DEF Sizes
    <2> QED BY <1>2, LeastNatural
  <1>4. PICK s \in T : Cardinality(s) = n
    OBVIOUS
  <1>5. ASSUME NEW r \in T, r \subseteq s, r # s PROVE FALSE
    <2>1. Cardinality(r) <= Cardinality(s) /\ Cardinality(r) # Cardinality(s)
      BY <1>1, <1>5, FS_Subset
    <2>2. Cardinality(s) <= Cardinality(r)
      BY <1>3, <1>4
    <2> QED BY <1>1, <2>1, <2>2
  <1> QED BY <1>5

-----------------------------------------------------------------------------
(* The recursive function                                                  *)

\* The element that the definition takes out of a set, and what it makes of a set
\* when g gives the sums of the smaller ones.
Pick(s) == CHOOSE x \in s : TRUE
Summed(f, g, s) == IF s = {} THEN 0 ELSE f[Pick(s)] + g[s \ {Pick(s)}]

\* The chosen element of a non-empty set is in it.
LEMMA PickIn == ASSUME NEW s, s # {} PROVE Pick(s) \in s
  BY DEF Pick

\* The definition of the sum, with its recursive function in the form used here.
LEMMA SumUnfold ==
  ASSUME NEW S, NEW f
  PROVE  SumFunctionOnSet(f, S)
           = (CHOOSE g : g = [s \in SUBSET S |-> Summed(f, g, s)])[S]
  BY DEF SumFunctionOnSet, FoldFunctionOnSet, MapThenFoldSet, Pick, Summed

\* There is a function from the subsets to their sums: for subsets of at most n
\* elements by the least n for which there is none.
LEMMA PartialSums ==
  ASSUME NEW S, IsFiniteSet(S), NEW f, \A x \in S : f[x] \in Int
  PROVE  \E g \in [SUBSET S -> Int] : \A s \in SUBSET S : g[s] = Summed(f, g, s)
  <1> DEFINE Upto(n) == \E g \in [SUBSET S -> Int] :
                          \A s \in SUBSET S : Cardinality(s) <= n => g[s] = Summed(f, g, s)
             Bad == {n \in Nat : ~ Upto(n)}
  <1>1. \A s \in SUBSET S : IsFiniteSet(s) /\ Cardinality(s) \in Nat
    BY FS_Subset, FS_CardinalityType
  <1>2. ASSUME NEW g \in [SUBSET S -> Int], NEW s \in SUBSET S
        PROVE  Summed(f, g, s) \in Int
    <2>1. CASE s = {}
      BY <2>1 DEF Summed
    <2>2. CASE s # {}
      <3>1. Pick(s) \in S /\ s \ {Pick(s)} \in SUBSET S
        BY <2>2, PickIn
      <3>2. f[Pick(s)] \in Int /\ g[s \ {Pick(s)}] \in Int
        BY <3>1
      <3> QED BY <2>2, <3>2 DEF Summed
    <2> QED BY <2>1, <2>2
  <1>3. Bad = {}
    <2> SUFFICES ASSUME Bad # {} PROVE FALSE
      OBVIOUS
    <2>1. PICK n \in Bad : \A m \in Bad : n <= m
      <3>1. Bad \subseteq Nat
        OBVIOUS
      <3> HIDE DEF Bad
      <3> QED BY <3>1, LeastNatural
    <2>2. n \in Nat /\ ~ Upto(n)
      OBVIOUS
    <2>3. CASE n = 0
      <3> DEFINE g == [s \in SUBSET S |-> 0]
      <3>1. ASSUME NEW s \in SUBSET S, Cardinality(s) <= 0 PROVE g[s] = Summed(f, g, s)
        <4>1. s = {}
          BY <1>1, <3>1, FS_EmptySet
        <4> QED BY <4>1 DEF Summed
      <3>2. g \in [SUBSET S -> Int]
        OBVIOUS
      <3> HIDE DEF g
      <3> QED BY <2>2, <2>3, <3>1, <3>2
    <2>4. CASE n > 0
      <3>1. n - 1 \in Nat /\ ~ (n <= n - 1)
        BY <2>2, <2>4
      <3>2. Upto(n - 1)
        BY <2>1, <3>1
      <3>3. PICK g \in [SUBSET S -> Int] :
              \A s \in SUBSET S : Cardinality(s) <= n - 1 => g[s] = Summed(f, g, s)
        BY <3>2
      <3> DEFINE h == [s \in SUBSET S |-> Summed(f, g, s)]
      <3>4. h \in [SUBSET S -> Int]
        BY <1>2
      <3>5. ASSUME NEW s \in SUBSET S, Cardinality(s) <= n PROVE h[s] = Summed(f, h, s)
        <4>1. CASE s = {}
          BY <4>1 DEF Summed
        <4>2. CASE s # {}
          <5> DEFINE r == s \ {Pick(s)}
          <5>1. Pick(s) \in s /\ r \in SUBSET S
            BY <4>2, PickIn
          <5>2. Cardinality(r) = Cardinality(s) - 1
            BY <1>1, <5>1, FS_RemoveElement
          <5>3. Cardinality(r) <= n - 1
            BY <1>1, <2>2, <3>5, <5>2
          <5>4. g[r] = h[r]
            BY <3>3, <5>1, <5>3
          <5> QED BY <4>2, <5>1, <5>4 DEF Summed
        <4> QED BY <4>1, <4>2
      <3> HIDE DEF h
      <3> QED BY <2>2, <3>4, <3>5
    <2> QED BY <2>2, <2>3, <2>4
  <1>4. Upto(Cardinality(S))
    BY <1>1, <1>3
  <1>5. PICK g \in [SUBSET S -> Int] :
          \A s \in SUBSET S : Cardinality(s) <= Cardinality(S) => g[s] = Summed(f, g, s)
    BY <1>4
  <1>6. \A s \in SUBSET S : g[s] = Summed(f, g, s)
    BY <1>5, FS_Subset
  <1> QED BY <1>6

\* The recursion has one solution, which depends only on the values it sums.
LEMMA SummedAgree ==
  ASSUME NEW S, IsFiniteSet(S), NEW f, NEW h, NEW g, NEW k,
         \A x \in S : f[x] = h[x],
         \A s \in SUBSET S : g[s] = Summed(f, g, s),
         \A s \in SUBSET S : k[s] = Summed(h, k, s)
  PROVE  \A s \in SUBSET S : g[s] = k[s]
  <1> DEFINE Differ == {s \in SUBSET S : g[s] # k[s]}
  <1> SUFFICES ASSUME Differ # {} PROVE FALSE
    OBVIOUS
  <1>1. PICK s \in Differ : \A r \in Differ : ~ (r \subseteq s /\ r # s)
    <2>1. Differ \subseteq SUBSET S
      OBVIOUS
    <2> HIDE DEF Differ
    <2> QED BY <2>1, LeastSubset
  <1>2. s \in SUBSET S /\ g[s] = Summed(f, g, s) /\ k[s] = Summed(h, k, s) /\ g[s] # k[s]
    OBVIOUS
  <1>3. CASE s = {}
    BY <1>2, <1>3 DEF Summed
  <1>4. CASE s # {}
    <2> DEFINE r == s \ {Pick(s)}
    <2>1. Pick(s) \in s
      BY <1>4, PickIn
    <2>2. r \in SUBSET S /\ r \subseteq s /\ r # s
      BY <1>2, <2>1
    <2>3. g[r] = k[r]
      BY <1>1, <2>2
    <2>4. f[Pick(s)] = h[Pick(s)]
      BY <1>2, <2>1
    <2> QED BY <1>2, <1>4, <2>3, <2>4 DEF Summed
  <1> QED BY <1>3, <1>4

\* The function that the sum of f over S is read from.
Partial(f, S) == CHOOSE g : g = [s \in SUBSET S |-> Summed(f, g, s)]

\* The function that the definition chooses is that solution.
LEMMA PartialFacts ==
  ASSUME NEW S, IsFiniteSet(S), NEW f, \A x \in S : f[x] \in Int
  PROVE  /\ SumFunctionOnSet(f, S) = Partial(f, S)[S]
         /\ \A s \in SUBSET S : /\ Partial(f, S)[s] \in Int
                                /\ Partial(f, S)[s] = Summed(f, Partial(f, S), s)
  <1>1. SumFunctionOnSet(f, S) = Partial(f, S)[S]
    BY SumUnfold DEF Partial
  <1>2. PICK g \in [SUBSET S -> Int] : \A s \in SUBSET S : g[s] = Summed(f, g, s)
    BY PartialSums
  <1>3. g = [s \in SUBSET S |-> Summed(f, g, s)]
    BY <1>2
  <1>4. Partial(f, S) = [s \in SUBSET S |-> Summed(f, Partial(f, S), s)]
    BY <1>3 DEF Partial
  <1> DEFINE k == Partial(f, S)
  <1>5. \A s \in SUBSET S : k[s] = Summed(f, k, s)
    BY <1>4
  <1>6. \A s \in SUBSET S : g[s] = Summed(f, g, s)
    BY <1>2
  <1>7. \A s \in SUBSET S : g[s] = k[s]
    <2> HIDE DEF k
    <2> QED BY <1>5, <1>6, SummedAgree
  <1> QED BY <1>1, <1>2, <1>5, <1>7

\* The sum of a subset is what the function for the whole set says of it.
LEMMA SumOfAll ==
  ASSUME NEW S, IsFiniteSet(S), NEW f, \A x \in S : f[x] \in Int,
         NEW s \in SUBSET S
  PROVE  SumFunctionOnSet(f, s) = Partial(f, S)[s]
  <1>1. IsFiniteSet(s) /\ \A x \in s : f[x] \in Int
    BY FS_Subset
  <1>2. /\ SumFunctionOnSet(f, s) = Partial(f, s)[s]
        /\ \A r \in SUBSET s : Partial(f, s)[r] = Summed(f, Partial(f, s), r)
    BY <1>1, PartialFacts
  <1>3. \A r \in SUBSET s : Partial(f, S)[r] = Summed(f, Partial(f, S), r)
    BY PartialFacts
  <1>4. \A r \in SUBSET s : Partial(f, s)[r] = Partial(f, S)[r]
    BY <1>1, <1>2, <1>3, SummedAgree
  <1> QED BY <1>2, <1>4

\* Any element may be taken out first, not only the chosen one.
LEMMA AnyOrder ==
  ASSUME NEW S, IsFiniteSet(S), NEW f, \A x \in S : f[x] \in Int,
         NEW r \in SUBSET S, NEW y \in r
  PROVE  Partial(f, S)[r] = f[y] + Partial(f, S)[r \ {y}]
  <1> DEFINE g == Partial(f, S)
  <1>1. \A s \in SUBSET S : g[s] \in Int /\ g[s] = Summed(f, g, s)
    BY PartialFacts
  <1> HIDE DEF g
  <1> DEFINE Bad == {s \in SUBSET S : \E x \in s : g[s] # f[x] + g[s \ {x}]}
  <1> SUFFICES ASSUME Bad # {} PROVE FALSE
    BY DEF g
  <1>2. PICK s \in Bad : \A b \in Bad : ~ (b \subseteq s /\ b # s)
    <2>1. Bad \subseteq SUBSET S
      OBVIOUS
    <2> HIDE DEF Bad
    <2> QED BY <2>1, LeastSubset
  <1>3. PICK x \in s : g[s] # f[x] + g[s \ {x}]
    OBVIOUS
  <1> DEFINE p == Pick(s)
             q == (s \ {p}) \ {x}
  <1>4. /\ s \in SUBSET S /\ p \in s /\ q \in SUBSET S
        /\ s \ {p} \in SUBSET S /\ s \ {x} \in SUBSET S
    BY PickIn
  <1>5. g[s] = f[p] + g[s \ {p}]
    BY <1>1, <1>4 DEF Summed
  <1>6. x # p
    BY <1>3, <1>5
  <1>7. g[s \ {p}] = f[x] + g[q]
    <2>1. s \ {p} \notin Bad
      BY <1>2, <1>4
    <2> QED BY <1>4, <1>6, <2>1
  <1>8. g[s \ {x}] = f[p] + g[q]
    <2>1. (s \ {x}) \ {p} = q
      OBVIOUS
    <2>2. s \ {x} \notin Bad
      BY <1>2, <1>4, <1>6
    <2> QED BY <1>4, <1>6, <2>1, <2>2
  <1>9. f[x] \in Int /\ f[p] \in Int /\ g[q] \in Int
    BY <1>1, <1>4
  <1> HIDE DEF p, q, Bad
  <1> QED BY <1>3, <1>5, <1>7, <1>8, <1>9

-----------------------------------------------------------------------------
(* Sums                                                                    *)

\* A sum of integers is an integer.
LEMMA SumType ==
  ASSUME NEW S, IsFiniteSet(S), NEW f, \A x \in S : f[x] \in Int
  PROVE  SumFunctionOnSet(f, S) \in Int
  BY PartialFacts

\* The empty sum is zero.
LEMMA SumOfNone ==
  ASSUME NEW f
  PROVE  SumFunctionOnSet(f, {}) = 0
  <1>1. IsFiniteSet({})
    BY FS_EmptySet
  <1>2. Partial(f, {})[{}] = Summed(f, Partial(f, {}), {})
    BY <1>1, PartialFacts
  <1> QED BY <1>1, <1>2, PartialFacts DEF Summed

\* One element can be taken out of a sum.
LEMMA SumWithout ==
  ASSUME NEW S, IsFiniteSet(S), NEW f, \A x \in S : f[x] \in Int, NEW x \in S
  PROVE  SumFunctionOnSet(f, S) = f[x] + SumFunctionOnSet(f, S \ {x})
  <1>1. Partial(f, S)[S] = f[x] + Partial(f, S)[S \ {x}]
    BY AnyOrder
  <1>2. SumFunctionOnSet(f, S) = Partial(f, S)[S]
    BY PartialFacts
  <1>3. SumFunctionOnSet(f, S \ {x}) = Partial(f, S)[S \ {x}]
    BY SumOfAll
  <1> QED BY <1>1, <1>2, <1>3

\* The sum of a set depends on the values of its elements only.
LEMMA SumAgrees ==
  ASSUME NEW S, IsFiniteSet(S), NEW f, \A x \in S : f[x] \in Int,
         NEW h, \A x \in S : h[x] = f[x]
  PROVE  SumFunctionOnSet(h, S) = SumFunctionOnSet(f, S)
  <1>1. \A s \in SUBSET S : Partial(f, S)[s] = Summed(f, Partial(f, S), s)
    BY PartialFacts
  <1>2. \A x \in S : h[x] \in Int
    OBVIOUS
  <1>3. \A s \in SUBSET S : Partial(h, S)[s] = Summed(h, Partial(h, S), s)
    BY <1>2, PartialFacts
  <1>4. \A s \in SUBSET S : Partial(h, S)[s] = Partial(f, S)[s]
    BY <1>1, <1>3, SummedAgree
  <1> QED BY <1>2, <1>4, PartialFacts

\* A sum moves by as much as the one value that changed.
LEMMA SumChangedAtOne ==
  ASSUME NEW S, IsFiniteSet(S), NEW f, \A x \in S : f[x] \in Int,
         NEW h, NEW z \in S, h[z] \in Int, \A x \in S \ {z} : h[x] = f[x]
  PROVE  SumFunctionOnSet(h, S) = SumFunctionOnSet(f, S) - f[z] + h[z]
  <1> DEFINE R == S \ {z}
  <1>1. IsFiniteSet(R) /\ \A x \in R : f[x] \in Int
    BY FS_Subset
  <1>2. SumFunctionOnSet(f, S) = f[z] + SumFunctionOnSet(f, R)
    BY SumWithout
  <1>3. \A x \in S : h[x] \in Int
    OBVIOUS
  <1>4. SumFunctionOnSet(h, S) = h[z] + SumFunctionOnSet(h, R)
    BY <1>3, SumWithout
  <1>5. SumFunctionOnSet(h, R) = SumFunctionOnSet(f, R)
    <2> HIDE DEF R
    <2>1. \A x \in R : h[x] = f[x]
      BY DEF R
    <2> QED BY <1>1, <2>1, SumAgrees
  <1>6. SumFunctionOnSet(f, R) \in Int
    <2> HIDE DEF R
    <2> QED BY <1>1, SumType
  <1> HIDE DEF R
  <1> QED BY <1>2, <1>4, <1>5, <1>6

\* A new element adds its value.
LEMMA SumWithNew ==
  ASSUME NEW S, IsFiniteSet(S), NEW f, \A x \in S : f[x] \in Int,
         NEW h, NEW z, z \notin S, h[z] \in Int, \A x \in S : h[x] = f[x]
  PROVE  SumFunctionOnSet(h, S \union {z}) = SumFunctionOnSet(f, S) + h[z]
  <1> DEFINE R == S \union {z}
  <1>1. IsFiniteSet(R) /\ R \ {z} = S /\ z \in R
    BY FS_AddElement
  <1>2. \A x \in R : h[x] \in Int
    OBVIOUS
  <1>3. SumFunctionOnSet(h, R) = h[z] + SumFunctionOnSet(h, S)
    <2> HIDE DEF R
    <2>1. SumFunctionOnSet(h, R) = h[z] + SumFunctionOnSet(h, R \ {z})
      BY <1>1, <1>2, SumWithout
    <2> QED BY <1>1, <2>1
  <1>4. SumFunctionOnSet(h, S) = SumFunctionOnSet(f, S)
    BY SumAgrees
  <1>5. SumFunctionOnSet(f, S) \in Int
    BY SumType
  <1> QED BY <1>3, <1>4, <1>5

\* The sum of zeros is zero.
LEMMA SumOfZeros ==
  ASSUME NEW S, IsFiniteSet(S), NEW f, \A x \in S : f[x] = 0
  PROVE  SumFunctionOnSet(f, S) = 0
  <1> DEFINE zero == [s \in SUBSET S |-> 0]
  <1>1. \A s \in SUBSET S : zero[s] = Summed(f, zero, s)
    <2> SUFFICES ASSUME NEW s \in SUBSET S PROVE zero[s] = Summed(f, zero, s)
      OBVIOUS
    <2>1. CASE s = {}
      BY <2>1 DEF Summed
    <2>2. CASE s # {}
      <3>1. Pick(s) \in S /\ s \ {Pick(s)} \in SUBSET S
        BY <2>2, PickIn
      <3> QED BY <2>2, <3>1 DEF Summed
    <2> QED BY <2>1, <2>2
  <1>2. \A s \in SUBSET S : Partial(f, S)[s] = Summed(f, Partial(f, S), s)
    BY PartialFacts
  <1>3. zero[S] = 0
    OBVIOUS
  <1>4. \A s \in SUBSET S : Partial(f, S)[s] = zero[s]
    <2> HIDE DEF zero
    <2> QED BY <1>1, <1>2, SummedAgree
  <1> HIDE DEF zero
  <1> QED BY <1>3, <1>4, PartialFacts

\* A sum of naturals is one.
LEMMA SumNotNegative ==
  ASSUME NEW S, IsFiniteSet(S), NEW f, \A x \in S : f[x] \in Nat
  PROVE  SumFunctionOnSet(f, S) \in Nat
  <1> DEFINE Bad == {T \in SUBSET S : ~ (SumFunctionOnSet(f, T) >= 0)}
  <1>1. \A x \in S : f[x] \in Int
    OBVIOUS
  <1>2. Bad = {}
    <2> SUFFICES ASSUME Bad # {} PROVE FALSE
      OBVIOUS
    <2>1. PICK T \in Bad : \A R \in Bad : ~ (R \subseteq T /\ R # T)
      <3>1. Bad \subseteq SUBSET S
        OBVIOUS
      <3> HIDE DEF Bad
      <3> QED BY <3>1, LeastSubset
    <2>2. T \in SUBSET S /\ ~ (SumFunctionOnSet(f, T) >= 0)
      OBVIOUS
    <2>3. T # {}
      BY <2>2, SumOfNone
    <2>4. PICK x \in T : TRUE
      BY <2>3
    <2>5. IsFiniteSet(T) /\ x \in S /\ \A y \in T : f[y] \in Int
      BY <1>1, <2>2, FS_Subset
    <2>6. SumFunctionOnSet(f, T) = f[x] + SumFunctionOnSet(f, T \ {x})
      BY <2>5, SumWithout
    <2>7. T \ {x} \in SUBSET S /\ IsFiniteSet(T \ {x}) /\ T \ {x} \subseteq T /\ T \ {x} # T
      BY <2>2, <2>5, FS_Subset
    <2>8. SumFunctionOnSet(f, T \ {x}) >= 0
      BY <2>1, <2>7
    <2>9. SumFunctionOnSet(f, T \ {x}) \in Int
      BY <2>5, <2>7, SumType
    <2> QED BY <2>2, <2>5, <2>6, <2>8, <2>9
  <1>3. SumFunctionOnSet(f, S) >= 0
    BY <1>2
  <1>4. SumFunctionOnSet(f, S) \in Int
    BY <1>1, SumType
  <1> QED BY <1>3, <1>4

\* What is zero can be left out of a sum.
LEMMA SumOfPart ==
  ASSUME NEW S, IsFiniteSet(S), NEW f, \A x \in S : f[x] \in Int,
         NEW P \in SUBSET S, \A x \in S \ P : f[x] = 0
  PROVE  SumFunctionOnSet(f, S) = SumFunctionOnSet(f, P)
  <1> DEFINE Bad == {T \in SUBSET S :
                       P \subseteq T /\ SumFunctionOnSet(f, T) # SumFunctionOnSet(f, P)}
  <1> SUFFICES ASSUME Bad # {} PROVE FALSE
    OBVIOUS
  <1>1. PICK T \in Bad : \A R \in Bad : ~ (R \subseteq T /\ R # T)
    <2>1. Bad \subseteq SUBSET S
      OBVIOUS
    <2> HIDE DEF Bad
    <2> QED BY <2>1, LeastSubset
  <1>2. T \in SUBSET S /\ P \subseteq T /\ SumFunctionOnSet(f, T) # SumFunctionOnSet(f, P)
    OBVIOUS
  <1>3. PICK x \in T \ P : TRUE
    BY <1>2
  <1> DEFINE R == T \ {x}
  <1>4. R \in SUBSET S /\ P \subseteq R /\ R \subseteq T /\ R # T
    BY <1>2, <1>3
  <1>5. SumFunctionOnSet(f, R) = SumFunctionOnSet(f, P)
    BY <1>1, <1>4
  <1>6. SumFunctionOnSet(f, T) = f[x] + SumFunctionOnSet(f, R)
    <2>1. IsFiniteSet(T) /\ \A y \in T : f[y] \in Int
      BY <1>2, FS_Subset
    <2> QED BY <1>3, <2>1, SumWithout
  <1>7. SumFunctionOnSet(f, R) \in Int
    <2>1. IsFiniteSet(R) /\ \A y \in R : f[y] \in Int
      BY <1>4, FS_Subset
    <2> HIDE DEF R
    <2> QED BY <2>1, SumType
  <1>8. f[x] = 0
    BY <1>2, <1>3
  <1> HIDE DEF R, Bad
  <1> QED BY <1>2, <1>5, <1>6, <1>7, <1>8

\* The sums of two functions add up to the sum of what they are together.
LEMMA SumAdds ==
  ASSUME NEW S, IsFiniteSet(S), NEW f, NEW g, NEW h,
         \A x \in S : f[x] \in Int /\ g[x] \in Int /\ h[x] = f[x] + g[x]
  PROVE  SumFunctionOnSet(h, S) = SumFunctionOnSet(f, S) + SumFunctionOnSet(g, S)
  <1> DEFINE Bad == {T \in SUBSET S :
               SumFunctionOnSet(h, T) # SumFunctionOnSet(f, T) + SumFunctionOnSet(g, T)}
  <1> SUFFICES ASSUME Bad # {} PROVE FALSE
    OBVIOUS
  <1>1. PICK T \in Bad : \A R \in Bad : ~ (R \subseteq T /\ R # T)
    <2>1. Bad \subseteq SUBSET S
      OBVIOUS
    <2> HIDE DEF Bad
    <2> QED BY <2>1, LeastSubset
  <1>2. /\ T \in SUBSET S
        /\ SumFunctionOnSet(h, T) # SumFunctionOnSet(f, T) + SumFunctionOnSet(g, T)
    OBVIOUS
  <1>3. /\ IsFiniteSet(T) /\ \A x \in T : f[x] \in Int /\ g[x] \in Int /\ h[x] \in Int
        /\ \A x \in T : h[x] = f[x] + g[x]
    BY <1>2, FS_Subset
  <1>4. CASE T = {}
    BY <1>2, <1>4, SumOfNone
  <1>5. CASE T # {}
    <2>1. PICK x \in T : TRUE
      BY <1>5
    <2> DEFINE R == T \ {x}
    <2>2. R \in SUBSET S /\ R \subseteq T /\ R # T /\ IsFiniteSet(R)
      BY <1>2, <1>3, <2>1, FS_Subset
    <2>3. /\ SumFunctionOnSet(f, T) = f[x] + SumFunctionOnSet(f, R)
          /\ SumFunctionOnSet(g, T) = g[x] + SumFunctionOnSet(g, R)
          /\ SumFunctionOnSet(h, T) = h[x] + SumFunctionOnSet(h, R)
      BY <1>3, <2>1, SumWithout
    <2>4. SumFunctionOnSet(h, R) = SumFunctionOnSet(f, R) + SumFunctionOnSet(g, R)
      BY <1>1, <2>2
    <2>5. SumFunctionOnSet(f, R) \in Int /\ SumFunctionOnSet(g, R) \in Int
      <3>1. \A y \in R : f[y] \in Int /\ g[y] \in Int
        BY <1>3
      <3> HIDE DEF R
      <3> QED BY <2>2, <3>1, SumType
    <2> HIDE DEF R, Bad
    <2> QED BY <1>2, <1>3, <2>1, <2>3, <2>4, <2>5
  <1> QED BY <1>4, <1>5

\* A sum can be taken group by group, g saying which group an element is in.
LEMMA SumByGroup ==
  ASSUME NEW S, IsFiniteSet(S), NEW f, \A x \in S : f[x] \in Int,
         NEW U, IsFiniteSet(U), NEW g, \A x \in S : g[x] \in U
  PROVE  SumFunctionOnSet([u \in U |-> SumFunctionOnSet(f, {x \in S : g[x] = u})], U)
           = SumFunctionOnSet(f, S)
  <1> DEFINE Group(T, u) == {x \in T : g[x] = u}
             Groups(T) == [u \in U |-> SumFunctionOnSet(f, Group(T, u))]
             Bad == {T \in SUBSET S : SumFunctionOnSet(Groups(T), U) # SumFunctionOnSet(f, T)}
  <1> SUFFICES ASSUME Bad # {} PROVE FALSE
    OBVIOUS
  <1>1. PICK T \in Bad : \A R \in Bad : ~ (R \subseteq T /\ R # T)
    <2>1. Bad \subseteq SUBSET S
      OBVIOUS
    <2> HIDE DEF Bad
    <2> QED BY <2>1, LeastSubset
  <1>2. T \in SUBSET S /\ SumFunctionOnSet(Groups(T), U) # SumFunctionOnSet(f, T)
    OBVIOUS
  <1>3. ASSUME NEW R \in SUBSET S, NEW u
        PROVE  /\ IsFiniteSet(Group(R, u)) /\ \A x \in Group(R, u) : f[x] \in Int
               /\ SumFunctionOnSet(f, Group(R, u)) \in Int
    <2>1. IsFiniteSet(Group(R, u)) /\ \A x \in Group(R, u) : f[x] \in Int
      <3>1. Group(R, u) \subseteq S
        OBVIOUS
      <3> QED BY <3>1, FS_Subset
    <2> HIDE DEF Group
    <2> QED BY <2>1, SumType
  <1>4. CASE T = {}
    <2>1. \A u \in U : Groups(T)[u] = 0
      <3>1. \A u \in U : Group(T, u) = {}
        BY <1>4
      <3> HIDE DEF Group
      <3> QED BY <3>1, SumOfNone
    <2> HIDE DEF Groups
    <2> QED BY <1>2, <1>4, <2>1, SumOfNone, SumOfZeros
  <1>5. CASE T # {}
    <2>1. PICK x \in T : TRUE
      BY <1>5
    <2> DEFINE R == T \ {x}
               k == Groups(R)
               h == Groups(T)
    <2>2. R \in SUBSET S /\ R \subseteq T /\ R # T
      BY <1>2, <2>1
    <2>3. SumFunctionOnSet(k, U) = SumFunctionOnSet(f, R)
      BY <1>1, <2>2
    <2>4. IsFiniteSet(T) /\ \A y \in T : f[y] \in Int
      BY <1>2, FS_Subset
    <2>5. SumFunctionOnSet(f, T) = f[x] + SumFunctionOnSet(f, R)
      BY <2>1, <2>4, SumWithout
    <2>6. SumFunctionOnSet(f, R) \in Int
      <3>1. IsFiniteSet(R) /\ \A y \in R : f[y] \in Int
        BY <2>2, <2>4, FS_Subset
      <3> HIDE DEF R
      <3> QED BY <3>1, SumType
    <2>7. \A u \in U : k[u] \in Int /\ h[u] \in Int
      BY <1>2, <1>3, <2>2
    <2>8. g[x] \in U /\ f[x] \in Int
      BY <1>2, <2>1
    <2>9. h[g[x]] = f[x] + k[g[x]]
      <3>1. Group(R, g[x]) = Group(T, g[x]) \ {x} /\ x \in Group(T, g[x])
        BY <2>1
      <3>2. SumFunctionOnSet(f, Group(T, g[x]))
              = f[x] + SumFunctionOnSet(f, Group(T, g[x]) \ {x})
        <4>1. IsFiniteSet(Group(T, g[x])) /\ \A y \in Group(T, g[x]) : f[y] \in Int
          BY <1>2, <1>3
        <4> HIDE DEF Group
        <4> QED BY <3>1, <4>1, SumWithout
      <3> QED BY <2>8, <3>1, <3>2
    <2>10. \A u \in U \ {g[x]} : h[u] = k[u]
      <3>1. \A u \in U \ {g[x]} : Group(T, u) = Group(R, u)
        OBVIOUS
      <3> HIDE DEF Group
      <3> QED BY <3>1
    <2>11. SumFunctionOnSet(h, U) = SumFunctionOnSet(k, U) - k[g[x]] + h[g[x]]
      <3> HIDE DEF h, k
      <3> QED BY <2>7, <2>8, <2>10, SumChangedAtOne
    <2>12. SumFunctionOnSet(h, U) # SumFunctionOnSet(f, T)
      BY <1>2
    <2>13. k[g[x]] \in Int
      BY <2>7, <2>8
    <2> HIDE DEF h, k, R
    <2> QED BY <2>3, <2>5, <2>6, <2>8, <2>9, <2>11, <2>12, <2>13
  <1> QED BY <1>4, <1>5
==============================================================================
