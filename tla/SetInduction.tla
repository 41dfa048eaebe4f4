---------------------------- MODULE SetInduction ----------------------------
(***************************************************************************)
(* Induction over the natural numbers for the proofs of this project, with *)
(* a set in the place of the predicate: what is to be shown of every       *)
(* number is that it belongs to the set.                                   *)
(***************************************************************************)
EXTENDS Integers, TLAPS, WellFoundedInduction, FiniteSetTheorems

\* A set of natural numbers that is not empty has a least element.
LEMMA LeastElement ==
  ASSUME NEW T \in SUBSET Nat, T # {}
  PROVE  \E x \in T : \A y \in T : x <= y
<1>1. IsWellFoundedOn(OpToRel(<, Nat), Nat)
  BY NatLessThanWellFounded
<1>2. PICK x \in T : \A y \in T : ~(<<y, x>> \in OpToRel(<, Nat))
  BY <1>1, WFMin
<1>3. \A y \in T : ~(y < x)
  BY <1>2 DEF OpToRel
<1> QED
  BY <1>3

\* And one that is bounded has a greatest.
LEMMA GreatestElement ==
  ASSUME NEW b \in Nat, NEW T \in SUBSET (0 .. b), T # {}
  PROVE  \E x \in T : \A y \in T : x >= y
<1> DEFINE D == {n \in 0 .. b : b - n \in T}
<1>1. D \in SUBSET Nat
  OBVIOUS
<1>2. D # {}
  <2>1. PICK y \in T : TRUE
    OBVIOUS
  <2>2. b - y \in 0 .. b /\ b - (b - y) = y
    OBVIOUS
  <2> QED
    BY <2>2
<1>3. PICK d \in D : \A e \in D : d <= e
  <2> HIDE DEF D
  <2> QED
    BY <1>1, <1>2, LeastElement
<1>4. ASSUME NEW y \in T
      PROVE  b - d >= y
  <2>1. b - y \in D
    <3>1. b - y \in 0 .. b /\ b - (b - y) = y
      OBVIOUS
    <3> QED
      BY <3>1
  <2>2. d <= b - y
    BY <2>1, <1>3
  <2> QED
    BY <2>2
<1> QED
  BY <1>4

\* What holds of 0, and of n + 1 whenever it holds of n, holds of all numbers up to m.
LEMMA Climb ==
  ASSUME NEW m \in Nat, NEW T, 0 \in T,
         \A n \in 0 .. (m - 1) : n \in T => n + 1 \in T
  PROVE  \A n \in 0 .. m : n \in T
<1> SUFFICES ASSUME \E n \in 0 .. m : n \notin T
             PROVE  FALSE
  OBVIOUS
<1> DEFINE B == {n \in 0 .. m : n \notin T}
<1>1. PICK x \in B : \A y \in B : x <= y
  <2>1. B \in SUBSET Nat /\ B # {}
    OBVIOUS
  <2> QED
    BY <2>1, LeastElement
<1>2. x # 0 /\ x \in 0 .. m /\ x \notin T
  OBVIOUS
<1>3. x - 1 \in 0 .. (m - 1) /\ x - 1 \notin B
  BY <1>1, <1>2
<1>4. x - 1 \in T
  BY <1>3
<1> QED
  BY <1>2, <1>3, <1>4
-----------------------------------------------------------------------------
(***************************************************************************)
(* Sums.  The folds of the library take the elements of a set one by one,  *)
(* in an order that CHOOSE determines, with a recursive function over the  *)
(* subsets.  Here it is shown that this function exists and that the order *)
(* makes no difference.                                                    *)
(***************************************************************************)
FirstOf(s) == CHOOSE x \in s : TRUE

\* What defines the function: g[s] is the sum of f over s.
FoldsUp(g, f, S) ==
  g = [s \in SUBSET S |-> IF s = {} THEN 0 ELSE f[FirstOf(s)] + g[s \ {FirstOf(s)}]]

\* What a sum is: any element may be the one taken first.
SumsUp(g, f, S) ==
  /\ g \in [SUBSET S -> Nat] /\ g[{}] = 0
  /\ \A s \in SUBSET S : \A x \in s : g[s] = f[x] + g[s \ {x}]

\* Subsets of a finite set have a size, which is one less without an element.
LEMMA SizeOfSubset ==
  ASSUME NEW S, IsFiniteSet(S), NEW s \in SUBSET S
  PROVE  /\ Cardinality(s) \in 0 .. Cardinality(S)
         /\ Cardinality(S) \in Nat
         /\ Cardinality(s) = 0 <=> s = {}
         /\ \A x \in s : s \ {x} \in SUBSET S /\ Cardinality(s \ {x}) = Cardinality(s) - 1
<1>1. IsFiniteSet(s) /\ Cardinality(s) <= Cardinality(S)
  BY FS_Subset
<1>2. Cardinality(s) \in Nat /\ Cardinality(S) \in Nat
  BY <1>1, FS_CardinalityType
<1>3. Cardinality(s) = 0 <=> s = {}
  BY <1>1, FS_EmptySet
<1>4. \A x \in s : Cardinality(s \ {x}) = Cardinality(s) - 1
  BY <1>1, FS_RemoveElement
<1> QED
  BY <1>1, <1>2, <1>3, <1>4

\* A function exists that agrees with the definition on all sets up to a size, and so
\* one that agrees everywhere.
LEMMA FoldExists ==
  ASSUME NEW S, IsFiniteSet(S), NEW f \in [S -> Nat]
  PROVE  \E g \in [SUBSET S -> Nat] : FoldsUp(g, f, S)
<1> DEFINE Body(g) == [s \in SUBSET S |->
                         IF s = {} THEN 0 ELSE f[FirstOf(s)] + g[s \ {FirstOf(s)}]]
           Agrees(g, n) == \A s \in SUBSET S : Cardinality(s) <= n => g[s] = Body(g)[s]
           T == {n \in Nat : \E g \in [SUBSET S -> Nat] : Agrees(g, n)}
<1>1. \A s \in SUBSET S : s # {} => FirstOf(s) \in s /\ f[FirstOf(s)] \in Nat
  BY DEF FirstOf
<1>2. ASSUME NEW g \in [SUBSET S -> Nat] PROVE Body(g) \in [SUBSET S -> Nat]
  <2>1. ASSUME NEW s \in SUBSET S, s # {}
        PROVE  f[FirstOf(s)] + g[s \ {FirstOf(s)}] \in Nat
    BY <1>1, <1>2, <2>1
  <2> QED
    BY <2>1
<1>3. PICK m \in Nat : m = Cardinality(S)
  BY FS_CardinalityType
<1>4. 0 \in T
  <2> DEFINE g == [s \in SUBSET S |-> 0]
  <2>1. g \in [SUBSET S -> Nat]
    OBVIOUS
  <2>2. ASSUME NEW s \in SUBSET S, Cardinality(s) <= 0 PROVE g[s] = Body(g)[s]
    <3>1. s = {}
      BY <2>2, SizeOfSubset
    <3> QED
      BY <3>1
  <2>3. Agrees(g, 0)
    BY <2>2
  <2> HIDE DEF g, Agrees
  <2> QED
    BY <2>1, <2>3
<1>5. ASSUME NEW n \in 0 .. (m - 1), n \in T PROVE n + 1 \in T
  <2>1. PICK g \in [SUBSET S -> Nat] : Agrees(g, n)
    BY <1>5
  <2>2. PICK h \in [SUBSET S -> Nat] : h = Body(g)
    BY <1>2
  <2>3. ASSUME NEW s \in SUBSET S, Cardinality(s) <= n + 1 PROVE h[s] = Body(h)[s]
    <3>1. CASE s = {}
      BY <2>2, <3>1
    <3>2. CASE s # {}
      <4>1. PICK x \in s : x = FirstOf(s)
        BY <1>1, <3>2
      <4>2. s \ {x} \in SUBSET S /\ Cardinality(s \ {x}) <= n
        BY <1>5, <2>3, SizeOfSubset
      <4>3. h[s \ {x}] = g[s \ {x}]
        <5> HIDE DEF Body
        <5> QED
          BY <2>1, <2>2, <4>2
      <4>4. h[s] = f[x] + g[s \ {x}]
        BY <2>2, <3>2, <4>1
      <4>5. Body(h)[s] = f[x] + h[s \ {x}]
        BY <3>2, <4>1
      <4> QED
        BY <4>3, <4>4, <4>5
    <3> QED
      BY <3>1, <3>2
  <2>4. Agrees(h, n + 1)
    BY <2>3
  <2> HIDE DEF Agrees
  <2> QED
    BY <2>4
<1>6. m \in T
  <2> HIDE DEF T
  <2> QED
    BY <1>4, <1>5, Climb
<1>7. PICK g \in [SUBSET S -> Nat] : Agrees(g, m)
  BY <1>6
<1>8. \A s \in SUBSET S : g[s] = Body(g)[s]
  <2> HIDE DEF Body
  <2> QED
    BY <1>3, <1>7, SizeOfSubset
<1>9. g = Body(g)
  <2>1. Body(g) \in [SUBSET S -> Nat]
    BY <1>2
  <2> HIDE DEF Body
  <2> QED
    BY <1>8, <2>1
<1> QED
  BY <1>9 DEF FoldsUp

\* The function that the definition gives is a sum: whichever of two elements is taken
\* first, the other is taken next.
LEMMA FoldSums ==
  ASSUME NEW S, IsFiniteSet(S), NEW f \in [S -> Nat], NEW g, FoldsUp(g, f, S)
  PROVE  SumsUp(g, f, S)
<1> DEFINE Good(s) == /\ g[s] \in Nat
                      /\ \A x \in s : g[s] = f[x] + g[s \ {x}]
           T == {n \in Nat : \A s \in SUBSET S : Cardinality(s) <= n => Good(s)}
<1>1. /\ g[{}] = 0
      /\ \A s \in SUBSET S : s # {} => g[s] = f[FirstOf(s)] + g[s \ {FirstOf(s)}]
  BY DEF FoldsUp
<1>2. \A s \in SUBSET S : s # {} => FirstOf(s) \in s
  BY DEF FirstOf
<1>3. PICK m \in Nat : m = Cardinality(S)
  BY FS_CardinalityType
<1>4. 0 \in T
  <2>1. ASSUME NEW s \in SUBSET S, Cardinality(s) <= 0 PROVE Good(s)
    <3>1. s = {}
      BY <2>1, SizeOfSubset
    <3> QED
      BY <1>1, <3>1
  <2> QED
    BY <2>1
<1>5. ASSUME NEW n \in 0 .. (m - 1), n \in T PROVE n + 1 \in T
  <2>1. ASSUME NEW s \in SUBSET S, Cardinality(s) <= n + 1 PROVE Good(s)
    <3>1. CASE s = {}
      BY <1>1, <3>1
    <3>2. CASE s # {}
      <4>1. PICK c \in s : c = FirstOf(s) /\ g[s] = f[c] + g[s \ {c}]
        BY <1>1, <1>2, <3>2
      <4>2. \A x \in s : s \ {x} \in SUBSET S /\ Cardinality(s \ {x}) <= n
        BY <1>5, <2>1, SizeOfSubset
      <4>3. \A x \in s : Good(s \ {x})
        BY <1>5, <4>2
      <4>4. \A x \in s : f[x] \in Nat /\ g[s \ {x}] \in Nat
        BY <4>3
      <4>5. ASSUME NEW x \in s PROVE g[s] = f[x] + g[s \ {x}]
        <5>1. CASE x = c
          BY <4>1, <5>1
        <5>2. CASE x # c
          <6>1. x \in s \ {c} /\ c \in s \ {x}
            BY <5>2
          <6>2. g[s \ {c}] = f[x] + g[(s \ {c}) \ {x}]
            BY <4>3, <6>1
          <6>3. g[s \ {x}] = f[c] + g[(s \ {x}) \ {c}]
            BY <4>3, <6>1
          <6>4. (s \ {x}) \ {c} = (s \ {c}) \ {x}
            OBVIOUS
          <6>5. g[(s \ {c}) \ {x}] \in Nat
            <7>1. PICK t \in SUBSET S : t = s \ {c} /\ Cardinality(t) <= n
              BY <4>2
            <7>2. x \in t /\ Cardinality(t) \in Nat
              BY <6>1, <7>1, SizeOfSubset
            <7>3. t \ {x} \in SUBSET S /\ Cardinality(t \ {x}) = Cardinality(t) - 1
              BY <7>2, SizeOfSubset
            <7>4. Cardinality(t \ {x}) <= n
              BY <1>5, <7>1, <7>2, <7>3
            <7> QED
              BY <1>5, <7>1, <7>3, <7>4
          <6>6. PICK u \in Nat : u = g[(s \ {c}) \ {x}] /\ u = g[(s \ {x}) \ {c}]
            BY <6>4, <6>5, Zenon
          <6>7. f[x] \in Nat /\ f[c] \in Nat
            BY <4>4
          <6>8. g[s] = f[c] + (f[x] + u)
            BY <4>1, <6>2, <6>6, Zenon
          <6>9. g[s \ {x}] = f[c] + u
            BY <6>3, <6>6, Zenon
          <6> QED
            BY <6>7, <6>8, <6>9
        <5> QED
          BY <5>1, <5>2
      <4>6. g[s] \in Nat
        BY <4>1, <4>4
      <4> QED
        BY <4>5, <4>6
    <3> QED
      BY <3>1, <3>2
  <2> HIDE DEF Good
  <2> QED
    BY <2>1
<1>6. m \in T
  <2> HIDE DEF T
  <2> QED
    BY <1>4, <1>5, Climb
<1>7. \A s \in SUBSET S : Good(s)
  <2> HIDE DEF Good
  <2> QED
    BY <1>3, <1>6, SizeOfSubset
<1>8. g \in [SUBSET S -> Nat]
  <2>1. g = [s \in SUBSET S |-> g[s]]
    BY DEF FoldsUp
  <2> QED
    BY <1>7, <2>1
<1> QED
  BY <1>1, <1>7, <1>8 DEF SumsUp
=============================================================================
