------------------------------ MODULE NumberFacts ------------------------------
(***************************************************************************)
(* Facts about sets of numbers that the proofs of several components need: *)
(* the least and the greatest element, how many have few others above or   *)
(* below them, and what the sum of a function on a set is.                 *)
(***************************************************************************)
EXTENDS Integers, Functions, FiniteSetsExt, FiniteSetTheorems, WellFoundedInduction, TLAPS

(* A nonempty set of numbers has a least element, and one that is bounded  *)
(* has a greatest.                                                         *)
LEMMA LeastExists ==
  ASSUME NEW T, T \subseteq Nat, T # {}
  PROVE  \E x \in T : \A y \in T : x <= y
<1> DEFINE R == OpToRel(<, Nat)
<1>1. IsWellFoundedOn(R, Nat)
  BY NatLessThanWellFounded
<1>2. PICK x \in T : \A y \in T : ~(<<y, x>> \in R)
  <2> HIDE DEF R
  <2> QED
    BY <1>1, WFMin
<1>3. ASSUME NEW y \in T PROVE x <= y
  <2>1. ~(<<y, x>> \in {ss \in Nat \X Nat : ss[1] < ss[2]})
    BY <1>2 DEF OpToRel
  <2>2. <<y, x>> \in Nat \X Nat
    <3> HIDE DEF R
    <3> QED
      OBVIOUS
  <2>3. ~(y < x)
    BY <2>1, <2>2
  <2> QED
    BY <2>3
<1> QED
  BY <1>3

LEMMA MinIsLeast ==
  ASSUME NEW T, T \subseteq Nat, T # {}
  PROVE  Min(T) \in T /\ \A y \in T : Min(T) <= y
BY LeastExists DEF Min

LEMMA GreatestExists ==
  ASSUME NEW n \in Nat, NEW T, T \subseteq 1 .. n, T # {}
  PROVE  \E x \in T : \A y \in T : x >= y
<1> DEFINE U == {u \in 0 .. n : n - u \in T}
<1>1. U \subseteq Nat /\ U # {}
  <2>1. PICK x \in T : x \in 1 .. n
    OBVIOUS
  <2>2. n - x \in 0 .. n /\ n - (n - x) = x
    BY <2>1
  <2>3. n - x \in U
    BY <2>2
  <2>4. ASSUME NEW u \in U PROVE u \in Nat
    OBVIOUS
  <2> HIDE DEF U
  <2> QED
    BY <2>3, <2>4
<1>2. PICK u \in U : \A v \in U : u <= v
  BY <1>1, LeastExists
<1>3. ASSUME NEW y \in T PROVE n - u >= y
  <2>1. y \in 1 .. n /\ n - y \in 0 .. n /\ n - (n - y) = y
    OBVIOUS
  <2>2. n - y \in U
    BY <2>1
  <2> QED
    BY <1>2, <2>1, <2>2
<1> QED
  BY <1>2, <1>3

LEMMA MaxIsGreatest ==
  ASSUME NEW n \in Nat, NEW T, T \subseteq 1 .. n, T # {}
  PROVE  Max(T) \in T /\ \A y \in T : Max(T) >= y
BY GreatestExists DEF Max

(* Those of a set of numbers that have fewer than k greater ones in it are *)
(* k at most: the least of them, and those greater than it.                *)
LEMMA FewHaveFewAbove ==
  ASSUME NEW n \in Nat, NEW A, A \subseteq 1 .. n, NEW k \in Nat,
         NEW T, T \subseteq {i \in A : Cardinality({j \in A : j > i}) < k}
  PROVE  IsFiniteSet(T) /\ Cardinality(T) <= k
<1>1. IsFiniteSet(A) /\ IsFiniteSet(T)
  <2>1. IsFiniteSet(1 .. n)
    BY FS_Interval
  <2>2. A \in SUBSET (1 .. n) /\ T \in SUBSET (1 .. n)
    OBVIOUS
  <2> QED
    BY <2>1, <2>2, FS_Subset
<1>2. CASE T = {}
  BY <1>2, FS_EmptySet
<1>3. CASE T # {}
  <2>0. ASSUME NEW y \in T PROVE y \in A /\ y \in Nat
    <3>1. y \in {i \in A : Cardinality({j \in A : j > i}) < k}
      BY Zenon
    <3>2. y \in A
      BY <3>1, Zenon
    <3> QED
      BY <3>2
  <2>1. PICK m \in T : \A y \in T : m <= y
    <3>1. T \subseteq Nat
      BY <2>0
    <3> QED
      BY <1>3, <3>1, LeastExists
  <2> DEFINE above == {j \in A : j > m}
  <2>2. IsFiniteSet(above) /\ Cardinality(above) < k /\ Cardinality(above) \in Nat
    BY <1>1, FS_Subset, FS_CardinalityType
  <2>3. T \in SUBSET (above \cup {m})
    <3>1. ASSUME NEW y \in T, y # m PROVE y \in A /\ y > m
      BY <2>0, <2>1, <3>1, m \in Nat
    <3> QED
      BY <3>1
  <2>4. IsFiniteSet(above \cup {m}) /\ Cardinality(above \cup {m}) = Cardinality(above) + 1
    <3>1. m \notin above
      OBVIOUS
    <3> HIDE DEF above
    <3> QED
      BY <2>2, <3>1, FS_AddElement
  <2>5. Cardinality(T) <= Cardinality(above \cup {m}) /\ Cardinality(T) \in Nat
    <3> HIDE DEF above
    <3> QED
      BY <1>1, <2>3, <2>4, FS_Subset, FS_CardinalityType
  <2> QED
    BY <1>1, <2>2, <2>4, <2>5
<1> QED
  BY <1>2, <1>3

(* Those of a set of numbers that have fewer than k smaller ones in it are *)
(* k at most: the greatest of them, and those smaller than it.             *)
LEMMA FewHaveFewBelow ==
  ASSUME NEW n \in Nat, NEW A, A \subseteq 1 .. n, NEW k \in Nat,
         NEW T, T \subseteq {i \in A : Cardinality({j \in A : j < i}) < k}
  PROVE  IsFiniteSet(T) /\ Cardinality(T) <= k
<1>1. IsFiniteSet(A) /\ IsFiniteSet(T)
  <2>1. IsFiniteSet(1 .. n)
    BY FS_Interval
  <2>2. A \in SUBSET (1 .. n) /\ T \in SUBSET (1 .. n)
    OBVIOUS
  <2> QED
    BY <2>1, <2>2, FS_Subset
<1>2. CASE T = {}
  BY <1>2, FS_EmptySet
<1>3. CASE T # {}
  <2>0. ASSUME NEW y \in T PROVE y \in A /\ y \in Nat
    <3>1. y \in {i \in A : Cardinality({j \in A : j < i}) < k}
      BY Zenon
    <3>2. y \in A
      BY <3>1, Zenon
    <3> QED
      BY <3>2
  <2>1. PICK m \in T : \A y \in T : m >= y
    <3>1. T \subseteq 1 .. n
      BY <2>0
    <3> QED
      BY <1>3, <3>1, GreatestExists
  <2> DEFINE below == {j \in A : j < m}
  <2>2. IsFiniteSet(below) /\ Cardinality(below) < k /\ Cardinality(below) \in Nat
    BY <1>1, FS_Subset, FS_CardinalityType
  <2>3. T \in SUBSET (below \cup {m})
    <3>1. ASSUME NEW y \in T, y # m PROVE y \in A /\ y < m
      BY <2>0, <2>1, <3>1, m \in Nat
    <3> QED
      BY <3>1
  <2>4. IsFiniteSet(below \cup {m}) /\ Cardinality(below \cup {m}) = Cardinality(below) + 1
    <3>1. m \notin below
      OBVIOUS
    <3> HIDE DEF below
    <3> QED
      BY <2>2, <3>1, FS_AddElement
  <2>5. Cardinality(T) <= Cardinality(below \cup {m}) /\ Cardinality(T) \in Nat
    <3> HIDE DEF below
    <3> QED
      BY <1>1, <2>3, <2>4, FS_Subset, FS_CardinalityType
  <2> QED
    BY <1>1, <2>2, <2>4, <2>5
<1> QED
  BY <1>2, <1>3

LEMMA SmallerIsSmaller ==
  ASSUME NEW S, IsFiniteSet(S), NEW T, T \subseteq S, NEW k \in Nat, Cardinality(S) <= k
  PROVE  Cardinality(T) <= k
<1>1. T \in SUBSET S
  OBVIOUS
<1>2. Cardinality(T) <= Cardinality(S) /\ IsFiniteSet(T)
  BY <1>1, FS_Subset
<1>3. Cardinality(T) \in Nat /\ Cardinality(S) \in Nat
  BY <1>2, FS_CardinalityType
<1> QED
  BY <1>2, <1>3

-----------------------------------------------------------------------------
(* Induction, with a set where the usual rule has a predicate: from a      *)
(* least counterexample.                                                   *)
LEMMA NumberInduction ==
  ASSUME NEW T, 0 \in T, \A n \in Nat : n \in T => n + 1 \in T
  PROVE  \A n \in Nat : n \in T
<1> DEFINE C == {n \in Nat : n \notin T}
<1>1. SUFFICES ASSUME C # {} PROVE FALSE
  OBVIOUS
<1>2. PICK x \in C : \A y \in C : x <= y
  <2>1. C \subseteq Nat
    OBVIOUS
  <2> HIDE DEF C
  <2> QED
    BY <1>1, <2>1, LeastExists
<1>3. x \in Nat /\ x # 0
  OBVIOUS
<1>4. x - 1 \in Nat /\ x - 1 \notin C
  BY <1>2, <1>3
<1> QED
  BY <1>3, <1>4

LEMMA OneLess ==
  ASSUME NEW S, IsFiniteSet(S), NEW s \in SUBSET S, NEW n \in Nat, Cardinality(s) = n + 1
  PROVE  s # {} /\ \A x \in s : s \ {x} \in SUBSET S /\ Cardinality(s \ {x}) = n
<1>1. IsFiniteSet(s)
  BY FS_Subset
<1>2. s # {}
  <2>1. n + 1 # 0
    OBVIOUS
  <2> QED
    BY <2>1, FS_EmptySet
<1>3. ASSUME NEW x \in s PROVE Cardinality(s \ {x}) = n
  <2>1. Cardinality(s \ {x}) = Cardinality(s) - 1
    BY <1>1, FS_RemoveElement
  <2> QED
    BY <2>1
<1> QED
  BY <1>2, <1>3

LEMMA SubsetInduction ==
  ASSUME NEW S, IsFiniteSet(S), NEW U, {} \in U,
         \A T \in SUBSET S : \A x \in S \ T : T \in U => T \cup {x} \in U
  PROVE  S \in U
<1> DEFINE N == {n \in Nat : \A T \in SUBSET S : Cardinality(T) = n => T \in U}
<1>1. \A T \in SUBSET S : IsFiniteSet(T) /\ Cardinality(T) \in Nat
  BY FS_Subset, FS_CardinalityType
<1>2. 0 \in N
  BY <1>1, FS_EmptySet
<1>3. ASSUME NEW n \in Nat, n \in N PROVE n + 1 \in N
  <2>1. SUFFICES ASSUME NEW T \in SUBSET S, Cardinality(T) = n + 1 PROVE T \in U
    OBVIOUS
  <2>2. PICK x : x \in T
    BY <2>1, OneLess
  <2>3. Cardinality(T \ {x}) = n /\ T \ {x} \in SUBSET S
    BY <2>1, <2>2, OneLess
  <2>4. T \ {x} \in U
    BY <1>3, <2>3
  <2>5. (T \ {x}) \cup {x} = T /\ x \in S \ (T \ {x})
    BY <2>2
  <2> QED
    BY <2>3, <2>4, <2>5
<1>4. \A n \in Nat : n \in N
  <2> HIDE DEF N
  <2> QED
    BY <1>2, <1>3, NumberInduction
<1> QED
  BY <1>1, <1>4

-----------------------------------------------------------------------------
(* Sums.  The library defines them by taking one element after another out *)
(* of the set; the result does not depend on which.                        *)
One(s) == CHOOSE x \in s : TRUE
Adds(f, g, s) == IF s = {} THEN 0 ELSE f[One(s)] + g[s \ {One(s)}]
Sums(f, D) == CHOOSE g : g = [s \in D |-> Adds(f, g, s)]

LEMMA SumIsLast ==
  ASSUME NEW f, NEW S
  PROVE  SumFunctionOnSet(f, S) = Sums(f, SUBSET S)[S]
BY DEF SumFunctionOnSet, FoldFunctionOnSet, MapThenFoldSet, Sums, Adds, One

LEMMA OneIsIn ==
  ASSUME NEW s, s # {}
  PROVE  One(s) \in s
BY DEF One

LEMMA SumsExist ==
  ASSUME NEW S, IsFiniteSet(S), NEW f
  PROVE  \A s \in SUBSET S : Sums(f, SUBSET S)[s] = Adds(f, Sums(f, SUBSET S), s)
<1> DEFINE Upto(n) == {s \in SUBSET S : Cardinality(s) <= n}
           Exists(n) == \E g : g = [s \in Upto(n) |-> Adds(f, g, s)]
           N == {n \in Nat : Exists(n)}
<1>1. \A s \in SUBSET S : IsFiniteSet(s) /\ Cardinality(s) \in Nat
  BY FS_Subset, FS_CardinalityType
<1>2. 0 \in N
  <2> DEFINE g == [s \in Upto(0) |-> 0]
  <2>1. ASSUME NEW s \in Upto(0) PROVE Adds(f, g, s) = 0
    BY <1>1, FS_EmptySet DEF Adds
  <2>2. g = [s \in Upto(0) |-> Adds(f, g, s)]
    BY <2>1
  <2> QED
    BY <2>2
<1>3. ASSUME NEW n \in Nat, n \in N PROVE n + 1 \in N
  <2>1. PICK g : g = [s \in Upto(n) |-> Adds(f, g, s)]
    BY <1>3
  <2> DEFINE h == [s \in Upto(n + 1) |-> Adds(f, g, s)]
  <2>2. ASSUME NEW s \in Upto(n) PROVE s \in Upto(n + 1) /\ h[s] = g[s]
    BY <1>1, <2>1
  <2>3. ASSUME NEW s \in Upto(n + 1) PROVE Adds(f, g, s) = Adds(f, h, s)
    <3>1. CASE s = {}
      BY <3>1 DEF Adds
    <3>2. CASE s # {}
      <4>1. One(s) \in s
        BY <3>2, OneIsIn
      <4>2. Cardinality(s \ {One(s)}) = Cardinality(s) - 1 /\ s \ {One(s)} \in SUBSET S
        BY <1>1, <4>1, FS_RemoveElement
      <4>3. s \ {One(s)} \in Upto(n)
        BY <1>1, <4>2
      <4>4. h[s \ {One(s)}] = g[s \ {One(s)}]
        BY <2>2, <4>3
      <4> QED
        BY <4>4 DEF Adds
    <3> QED
      BY <3>1, <3>2
  <2>4. h = [s \in Upto(n + 1) |-> Adds(f, h, s)]
    <3> HIDE DEF Upto
    <3> QED
      BY <2>3
  <2>5. Exists(n + 1)
    <3> HIDE DEF Upto, h
    <3> QED
      BY <2>4
  <2> HIDE DEF Exists
  <2> QED
    BY <2>5
<1>4. \A n \in Nat : n \in N
  <2> HIDE DEF N
  <2> QED
    BY <1>2, <1>3, NumberInduction
<1>5. Upto(Cardinality(S)) = SUBSET S /\ Cardinality(S) \in Nat
  BY <1>1, FS_Subset
<1>6. \E g : g = [s \in SUBSET S |-> Adds(f, g, s)]
  <2> HIDE DEF Upto
  <2> QED
    BY <1>4, <1>5
<1>7. Sums(f, SUBSET S) = [s \in SUBSET S |-> Adds(f, Sums(f, SUBSET S), s)]
  BY <1>6 DEF Sums
<1> QED
  BY <1>7

(* A sum depends on the values at the elements of the set only.            *)
LEMMA SumsAgree ==
  ASSUME NEW S, IsFiniteSet(S), NEW e, NEW f, \A x \in S : e[x] = f[x],
         NEW g, \A s \in SUBSET S : g[s] = Adds(e, g, s),
         NEW h, \A s \in SUBSET S : h[s] = Adds(f, h, s)
  PROVE  g[S] = h[S]
<1> DEFINE N == {n \in Nat : \A s \in SUBSET S : Cardinality(s) = n => g[s] = h[s]}
<1>1. \A s \in SUBSET S : IsFiniteSet(s) /\ Cardinality(s) \in Nat
  BY FS_Subset, FS_CardinalityType
<1>2. 0 \in N
  <2>1. SUFFICES ASSUME NEW s \in SUBSET S, Cardinality(s) = 0 PROVE g[s] = h[s]
    OBVIOUS
  <2>2. s = {}
    BY <1>1, <2>1, FS_EmptySet
  <2> QED
    BY <2>2 DEF Adds
<1>3. ASSUME NEW n \in Nat, n \in N PROVE n + 1 \in N
  <2>1. SUFFICES ASSUME NEW s \in SUBSET S, Cardinality(s) = n + 1 PROVE g[s] = h[s]
    OBVIOUS
  <2>2. s # {}
    BY <2>1, OneLess
  <2>3. One(s) \in s
    BY <2>2, OneIsIn
  <2>4. Cardinality(s \ {One(s)}) = n /\ s \ {One(s)} \in SUBSET S
    BY <2>1, <2>3, OneLess
  <2>5. g[s \ {One(s)}] = h[s \ {One(s)}]
    BY <1>3, <2>4
  <2> QED
    BY <2>2, <2>3, <2>5 DEF Adds
<1>4. \A n \in Nat : n \in N
  <2> HIDE DEF N
  <2> QED
    BY <1>2, <1>3, NumberInduction
<1> QED
  BY <1>1, <1>4

LEMMA SumSame ==
  ASSUME NEW S, IsFiniteSet(S), NEW e, NEW f, \A x \in S : e[x] = f[x]
  PROVE  SumFunctionOnSet(e, S) = SumFunctionOnSet(f, S)
<1> DEFINE g == Sums(e, SUBSET S)
           h == Sums(f, SUBSET S)
<1>1. SumFunctionOnSet(e, S) = g[S] /\ SumFunctionOnSet(f, S) = h[S]
  BY SumIsLast
<1>2. (\A s \in SUBSET S : g[s] = Adds(e, g, s)) /\ (\A s \in SUBSET S : h[s] = Adds(f, h, s))
  BY SumsExist
<1> HIDE DEF g, h
<1>3. g[S] = h[S]
  BY <1>2, SumsAgree
<1> QED
  BY <1>1, <1>3

LEMMA SumsAreIntegers ==
  ASSUME NEW S, IsFiniteSet(S), NEW f, \A x \in S : f[x] \in Int,
         NEW g, \A s \in SUBSET S : g[s] = Adds(f, g, s)
  PROVE  \A s \in SUBSET S : g[s] \in Int
<1> DEFINE N == {n \in Nat : \A s \in SUBSET S : Cardinality(s) = n => g[s] \in Int}
<1>1. \A s \in SUBSET S : IsFiniteSet(s) /\ Cardinality(s) \in Nat
  BY FS_Subset, FS_CardinalityType
<1>2. 0 \in N
  <2>1. SUFFICES ASSUME NEW s \in SUBSET S, Cardinality(s) = 0 PROVE g[s] \in Int
    OBVIOUS
  <2>2. s = {}
    BY <1>1, <2>1, FS_EmptySet
  <2>3. g[s] = 0
    BY <2>2 DEF Adds
  <2> QED
    BY <2>3
<1>3. ASSUME NEW n \in Nat, n \in N PROVE n + 1 \in N
  <2>1. SUFFICES ASSUME NEW s \in SUBSET S, Cardinality(s) = n + 1 PROVE g[s] \in Int
    OBVIOUS
  <2>2. s # {}
    BY <2>1, OneLess
  <2>3. One(s) \in s
    BY <2>2, OneIsIn
  <2>4. Cardinality(s \ {One(s)}) = n /\ s \ {One(s)} \in SUBSET S
    BY <2>1, <2>3, OneLess
  <2>5. g[s \ {One(s)}] \in Int /\ f[One(s)] \in Int
    BY <1>3, <2>3, <2>4
  <2>6. g[s] = f[One(s)] + g[s \ {One(s)}]
    BY <2>2 DEF Adds
  <2> QED
    BY <2>5, <2>6
<1>4. \A n \in Nat : n \in N
  <2> HIDE DEF N
  <2> QED
    BY <1>2, <1>3, NumberInduction
<1> QED
  BY <1>1, <1>4

(* The order does not matter: any element can be the one taken out.        *)
LEMMA TakeOut ==
  ASSUME NEW S, IsFiniteSet(S), NEW f, \A x \in S : f[x] \in Int,
         NEW g, \A s \in SUBSET S : g[s] = Adds(f, g, s)
  PROVE  \A s \in SUBSET S : \A x \in s : g[s] = g[s \ {x}] + f[x]
<1> DEFINE N == {n \in Nat : \A s \in SUBSET S : Cardinality(s) = n =>
                   \A x \in s : g[s] = g[s \ {x}] + f[x]}
<1>1. \A s \in SUBSET S : IsFiniteSet(s) /\ Cardinality(s) \in Nat
  BY FS_Subset, FS_CardinalityType
<1>2. 0 \in N
  <2>1. SUFFICES ASSUME NEW s \in SUBSET S, Cardinality(s) = 0
                 PROVE  \A x \in s : g[s] = g[s \ {x}] + f[x]
    OBVIOUS
  <2>2. s = {}
    BY <1>1, <2>1, FS_EmptySet
  <2>3. g[s] = 0
    BY <2>2 DEF Adds
  <2> QED
    BY <2>2, <2>3
<1>3. ASSUME NEW n \in Nat, n \in N PROVE n + 1 \in N
  <2>1. SUFFICES ASSUME NEW s \in SUBSET S, Cardinality(s) = n + 1
                 PROVE  \A x \in s : g[s] = g[s \ {x}] + f[x]
    OBVIOUS
  <2> DEFINE y == One(s)
  <2>2. s # {}
    BY <2>1, OneLess
  <2>3. y \in s
    BY <2>2, OneIsIn
  <2>4. ASSUME NEW x \in s
        PROVE  /\ s \ {x} \in SUBSET S /\ Cardinality(s \ {x}) = n
               /\ \A z \in s \ {x} : g[s \ {x}] = g[(s \ {x}) \ {z}] + f[z]
    <3>1. s \ {x} \in SUBSET S /\ Cardinality(s \ {x}) = n
      BY <2>1, OneLess
    <3> QED
      BY <1>3, <3>1
  <2>5. g[s] = f[y] + g[s \ {y}]
    BY <2>2 DEF Adds
  <2>6. f[y] \in Int /\ g[s \ {y}] \in Int
    BY <2>3, SumsAreIntegers
  <2> HIDE DEF y
  <2>7. ASSUME NEW x \in s, x # y PROVE g[s] = g[s \ {x}] + f[x]
    <3>1. g[s \ {y}] = g[(s \ {y}) \ {x}] + f[x] /\ g[s \ {x}] = g[(s \ {x}) \ {y}] + f[y]
      BY <2>3, <2>4, <2>7
    <3>2. (s \ {y}) \ {x} = (s \ {x}) \ {y}
      OBVIOUS
    <3>3. g[(s \ {y}) \ {x}] \in Int /\ f[x] \in Int
      BY SumsAreIntegers
    <3> DEFINE w == g[(s \ {y}) \ {x}]
    <3>4. g[s \ {y}] = w + f[x] /\ g[s \ {x}] = w + f[y] /\ w \in Int
      BY <3>1, <3>2, <3>3, Zenon
    <3> HIDE DEF w
    <3> QED
      BY <2>5, <2>6, <3>3, <3>4
  <2>8. g[s] = g[s \ {y}] + f[y]
    BY <2>5, <2>6
  <2> QED
    BY <2>7, <2>8
<1>4. \A n \in Nat : n \in N
  <2> HIDE DEF N
  <2> QED
    BY <1>2, <1>3, NumberInduction
<1> QED
  BY <1>1, <1>4

LEMMA SumFacts ==
  ASSUME NEW S, IsFiniteSet(S), NEW f, \A x \in S : f[x] \in Int
  PROVE  /\ SumFunctionOnSet(f, S) \in Int
         /\ S = {} => SumFunctionOnSet(f, S) = 0
         /\ \A x \in S : SumFunctionOnSet(f, S) = SumFunctionOnSet(f, S \ {x}) + f[x]
<1> DEFINE g == Sums(f, SUBSET S)
<1>1. \A s \in SUBSET S : g[s] = Adds(f, g, s)
  BY SumsExist
<1>2. SumFunctionOnSet(f, S) = g[S]
  BY SumIsLast
<1> HIDE DEF g
<1>3. g[S] \in Int
  BY <1>1, SumsAreIntegers
<1>4. S = {} => g[S] = 0
  BY <1>1 DEF Adds
<1>5. ASSUME NEW x \in S PROVE SumFunctionOnSet(f, S \ {x}) = g[S \ {x}]
  <2> DEFINE R == S \ {x}
             h == Sums(f, SUBSET R)
  <2>1. IsFiniteSet(R) /\ R \subseteq S
    BY FS_RemoveElement
  <2>2. SumFunctionOnSet(f, R) = h[R]
    BY SumIsLast
  <2>3. \A s \in SUBSET R : h[s] = Adds(f, h, s)
    BY <2>1, SumsExist
  <2>4. \A s \in SUBSET R : g[s] = Adds(f, g, s)
    BY <1>1
  <2> HIDE DEF R, h
  <2>5. h[R] = g[R]
    BY <2>1, <2>3, <2>4, SumsAgree
  <2> QED
    BY <2>2, <2>5 DEF R
<1>6. \A x \in S : g[S] = g[S \ {x}] + f[x]
  BY <1>1, TakeOut
<1> QED
  BY <1>2, <1>3, <1>4, <1>5, <1>6

(* What the proofs use: an element more, one whose value changed, and      *)
(* elements that count for nothing.                                        *)
LEMMA SumWith ==
  ASSUME NEW S, IsFiniteSet(S), NEW x, x \notin S, NEW f, \A y \in S \cup {x} : f[y] \in Int
  PROVE  SumFunctionOnSet(f, S \cup {x}) = SumFunctionOnSet(f, S) + f[x]
<1>1. IsFiniteSet(S \cup {x}) /\ (S \cup {x}) \ {x} = S /\ x \in S \cup {x}
  BY FS_AddElement
<1> QED
  BY <1>1, SumFacts

LEMMA SumChanged ==
  ASSUME NEW S, IsFiniteSet(S), NEW f, NEW g, \A y \in S : f[y] \in Int /\ g[y] \in Int,
         NEW x \in S, \A y \in S \ {x} : g[y] = f[y]
  PROVE  SumFunctionOnSet(g, S) = SumFunctionOnSet(f, S) - f[x] + g[x]
<1> DEFINE R == S \ {x}
<1>1. IsFiniteSet(R)
  BY FS_RemoveElement
<1>2. SumFunctionOnSet(g, R) = SumFunctionOnSet(f, R)
  <2> HIDE DEF R
  <2>1. \A y \in R : g[y] = f[y]
    BY DEF R
  <2> QED
    BY <1>1, <2>1, SumSame
<1>3. SumFunctionOnSet(f, R) \in Int
  BY <1>1, SumFacts
<1>4. SumFunctionOnSet(f, S) = SumFunctionOnSet(f, R) + f[x] /\ SumFunctionOnSet(g, S) = SumFunctionOnSet(g, R) + g[x]
  BY SumFacts
<1> HIDE DEF R
<1> QED
  BY <1>2, <1>3, <1>4

(* Sums of natural numbers: natural, and none of them exceeds the sum.     *)
LEMMA SumNatural ==
  ASSUME NEW S, IsFiniteSet(S), NEW f, \A x \in S : f[x] \in Nat
  PROVE  /\ SumFunctionOnSet(f, S) \in Nat
         /\ \A x \in S : f[x] <= SumFunctionOnSet(f, S)
<1> DEFINE U == {T \in SUBSET S : SumFunctionOnSet(f, T) \in Nat}
<1>1. {} \in U
  BY FS_EmptySet, SumFacts
<1>2. ASSUME NEW T \in U, NEW x \in S \ T PROVE T \cup {x} \in U
  <2>1. IsFiniteSet(T) /\ T \cup {x} \in SUBSET S
    BY FS_Subset
  <2>2. x \notin T /\ f[x] \in Nat /\ \A y \in T \cup {x} : f[y] \in Int
    BY <2>1
  <2>3. SumFunctionOnSet(f, T) \in Nat
    OBVIOUS
  <2> HIDE DEF U
  <2>4. SumFunctionOnSet(f, T \cup {x}) = SumFunctionOnSet(f, T) + f[x]
    BY <2>1, <2>2, SumWith
  <2> QED
    BY <2>1, <2>2, <2>3, <2>4 DEF U
<1>3. \A x \in S : S \ {x} \in U
  <2>1. SUFFICES ASSUME NEW x \in S PROVE S \ {x} \in U
    OBVIOUS
  <2> DEFINE R == S \ {x}
             V == {T \in SUBSET R : SumFunctionOnSet(f, T) \in Nat}
  <2>2. IsFiniteSet(R)
    BY FS_Subset
  <2>3. {} \in V /\ \A T \in SUBSET R : \A y \in R \ T : T \in V => T \cup {y} \in V
    BY <1>1, <1>2
  <2> HIDE DEF V, R
  <2>4. R \in V
    BY <2>2, <2>3, SubsetInduction
  <2> QED
    BY <2>4 DEF R, V
<1>4. \A T \in SUBSET S : \A x \in S \ T : T \in U => T \cup {x} \in U
  BY <1>2
<1> HIDE DEF U
<1>5. S \in U
  BY <1>1, <1>4, SubsetInduction
<1>6. SumFunctionOnSet(f, S) \in Nat /\ \A x \in S : SumFunctionOnSet(f, S \ {x}) \in Nat
  BY <1>3, <1>5 DEF U
<1>7. ASSUME NEW x \in S PROVE f[x] <= SumFunctionOnSet(f, S)
  <2>1. SumFunctionOnSet(f, S) = SumFunctionOnSet(f, S \ {x}) + f[x] /\ f[x] \in Nat
    BY SumFacts
  <2> DEFINE r == SumFunctionOnSet(f, S \ {x})
             s == SumFunctionOnSet(f, S)
             a == f[x]
  <2>2. r \in Nat /\ a \in Nat /\ s = r + a
    BY <1>6, <2>1
  <2> HIDE DEF r, s, a
  <2>3. a <= s
    BY <2>2
  <2> QED
    BY <2>3 DEF s, a
<1> QED
  BY <1>6, <1>7

LEMMA SumRestricted ==
  ASSUME NEW S, IsFiniteSet(S), NEW T \in SUBSET S, NEW f, \A x \in S : f[x] \in Int,
         \A x \in S \ T : f[x] = 0
  PROVE  SumFunctionOnSet(f, S) = SumFunctionOnSet(f, T)
<1> DEFINE U == {D \in SUBSET S : SumFunctionOnSet(f, D \cup T) = SumFunctionOnSet(f, T)}
<1>1. {} \in U
  BY {} \cup T = T
<1>2. ASSUME NEW D \in SUBSET S, NEW x \in S \ D, D \in U PROVE D \cup {x} \in U
  <2>1. CASE x \in T
    <3>1. (D \cup {x}) \cup T = D \cup T
      BY <2>1
    <3> QED
      BY <1>2, <3>1
  <2>2. CASE x \notin T
    <3> DEFINE B == D \cup T
    <3>1. IsFiniteSet(B) /\ x \notin B /\ (D \cup {x}) \cup T = B \cup {x} /\ f[x] = 0
          /\ \A y \in B \cup {x} : f[y] \in Int
      BY <2>2, FS_Subset
    <3>2. SumFunctionOnSet(f, B) = SumFunctionOnSet(f, T)
      BY <1>2
    <3> HIDE DEF B
    <3>3. SumFunctionOnSet(f, B \cup {x}) = SumFunctionOnSet(f, B)
      <4>1. SumFunctionOnSet(f, B \cup {x}) = SumFunctionOnSet(f, B) + f[x]
        BY <3>1, SumWith
      <4>2. SumFunctionOnSet(f, B) \in Int
        BY <3>1, SumFacts
      <4> QED
        BY <3>1, <4>1, <4>2
    <3>4. SumFunctionOnSet(f, (D \cup {x}) \cup T) = SumFunctionOnSet(f, T)
      BY <3>1, <3>2, <3>3
    <3> QED
      BY <1>2, <3>4
  <2> QED
    BY <2>1, <2>2
<1>3. S \in U
  <2> HIDE DEF U
  <2> QED
    BY <1>1, <1>2, SubsetInduction
<1>4. S \cup T = S
  OBVIOUS
<1> QED
  BY <1>3, <1>4

(* What is added on one set and taken off on another.                      *)
LEMMA SumSplit ==
  ASSUME NEW S, IsFiniteSet(S), NEW P \in SUBSET S, NEW M \in SUBSET S, P \cap M = {},
         NEW f, \A x \in P \cup M : f[x] \in Int,
         NEW h, \A x \in P : h[x] = f[x], \A x \in M : h[x] = 0 - f[x],
         \A x \in S \ (P \cup M) : h[x] = 0
  PROVE  SumFunctionOnSet(h, S) = SumFunctionOnSet(f, P) - SumFunctionOnSet(f, M)
<1> DEFINE plus(D) == SumFunctionOnSet(f, D \cap P)
           minus(D) == SumFunctionOnSet(f, D \cap M)
           U == {D \in SUBSET S : SumFunctionOnSet(h, D) = plus(D) - minus(D)}
<1>0. \A x \in S : h[x] \in Int
  OBVIOUS
<1>1. {} \in U
  <2>1. {} \cap P = {} /\ {} \cap M = {} /\ IsFiniteSet({})
    BY FS_EmptySet
  <2>2. SumFunctionOnSet(h, {}) = 0 /\ SumFunctionOnSet(f, {}) = 0
    BY <2>1, SumFacts
  <2> QED
    BY <2>1, <2>2
<1>2. ASSUME NEW D \in SUBSET S, NEW x \in S \ D, D \in U PROVE D \cup {x} \in U
  <2>1. IsFiniteSet(D) /\ IsFiniteSet(D \cap P) /\ IsFiniteSet(D \cap M)
    <3>1. D \cap P \in SUBSET S /\ D \cap M \in SUBSET S
      OBVIOUS
    <3> QED
      BY <3>1, FS_Subset
  <2>2. /\ \A y \in D \cup {x} : h[y] \in Int
        /\ \A y \in (D \cap P) \cup (D \cap M) : f[y] \in Int
    BY <1>0
  <2>3. SumFunctionOnSet(h, D \cup {x}) = SumFunctionOnSet(h, D) + h[x]
    BY <2>1, <2>2, SumWith
  <2>4. plus(D) \in Int /\ minus(D) \in Int /\ h[x] \in Int
    BY <1>0, <2>1, <2>2, SumFacts
  <2>5. SumFunctionOnSet(h, D) = plus(D) - minus(D)
    BY <1>2
  <2>6. CASE x \in P
    <3>1. (D \cup {x}) \cap P = (D \cap P) \cup {x} /\ (D \cup {x}) \cap M = D \cap M /\ x \notin D \cap P
      BY <2>6
    <3>2. minus(D \cup {x}) = minus(D)
      BY <3>1
    <3>3. plus(D \cup {x}) = plus(D) + f[x]
      <4>1. \A y \in (D \cap P) \cup {x} : f[y] \in Int
        BY <2>2, <2>6
      <4>2. SumFunctionOnSet(f, (D \cap P) \cup {x}) = SumFunctionOnSet(f, D \cap P) + f[x]
        <5> DEFINE T == D \cap P
        <5>1. IsFiniteSet(T) /\ x \notin T /\ \A y \in T \cup {x} : f[y] \in Int
          BY <2>1, <3>1, <4>1
        <5> HIDE DEF T
        <5>2. SumFunctionOnSet(f, T \cup {x}) = SumFunctionOnSet(f, T) + f[x]
          BY <5>1, SumWith
        <5> QED
          BY <5>2 DEF T
      <4> QED
        BY <3>1, <4>2
    <3>4. h[x] = f[x]
      BY <2>6
    <3> HIDE DEF plus, minus
    <3>5. SumFunctionOnSet(h, D \cup {x}) = plus(D \cup {x}) - minus(D \cup {x})
      BY <2>3, <2>4, <2>5, <3>2, <3>3, <3>4
    <3> QED
      BY <3>5
  <2>7. CASE x \in M
    <3>1. (D \cup {x}) \cap M = (D \cap M) \cup {x} /\ (D \cup {x}) \cap P = D \cap P /\ x \notin D \cap M
      BY <2>7
    <3>2. plus(D \cup {x}) = plus(D)
      BY <3>1
    <3>3. minus(D \cup {x}) = minus(D) + f[x]
      <4>1. \A y \in (D \cap M) \cup {x} : f[y] \in Int
        BY <2>2, <2>7
      <4>2. SumFunctionOnSet(f, (D \cap M) \cup {x}) = SumFunctionOnSet(f, D \cap M) + f[x]
        <5> DEFINE T == D \cap M
        <5>1. IsFiniteSet(T) /\ x \notin T /\ \A y \in T \cup {x} : f[y] \in Int
          BY <2>1, <3>1, <4>1
        <5> HIDE DEF T
        <5>2. SumFunctionOnSet(f, T \cup {x}) = SumFunctionOnSet(f, T) + f[x]
          BY <5>1, SumWith
        <5> QED
          BY <5>2 DEF T
      <4> QED
        BY <3>1, <4>2
    <3>4. h[x] = 0 - f[x] /\ f[x] \in Int
      BY <2>7
    <3> HIDE DEF plus, minus
    <3>5. SumFunctionOnSet(h, D \cup {x}) = plus(D \cup {x}) - minus(D \cup {x})
      BY <2>3, <2>4, <2>5, <3>2, <3>3, <3>4
    <3> QED
      BY <3>5
  <2>8. CASE x \notin P \cup M
    <3>1. (D \cup {x}) \cap M = D \cap M /\ (D \cup {x}) \cap P = D \cap P
      BY <2>8
    <3>2. h[x] = 0
      BY <2>8
    <3>3. plus(D \cup {x}) = plus(D) /\ minus(D \cup {x}) = minus(D)
      BY <3>1
    <3> HIDE DEF plus, minus
    <3>4. SumFunctionOnSet(h, D \cup {x}) = plus(D \cup {x}) - minus(D \cup {x})
      BY <2>3, <2>4, <2>5, <3>2, <3>3
    <3> QED
      BY <3>4
  <2> QED
    BY <2>6, <2>7, <2>8
<1>3. S \in U
  <2> HIDE DEF U
  <2> QED
    BY <1>1, <1>2, SubsetInduction
<1>4. S \cap P = P /\ S \cap M = M
  OBVIOUS
<1> QED
  BY <1>3, <1>4

LEMMA SumNotPositive ==
  ASSUME NEW S, IsFiniteSet(S), NEW f, \A x \in S : f[x] \in Int /\ f[x] <= 0
  PROVE  SumFunctionOnSet(f, S) <= 0
<1> DEFINE U == {D \in SUBSET S : SumFunctionOnSet(f, D) <= 0}
<1>1. {} \in U
  <2>1. SumFunctionOnSet(f, {}) = 0
    BY FS_EmptySet, SumFacts
  <2> QED
    BY <2>1
<1>2. ASSUME NEW D \in SUBSET S, NEW x \in S \ D, D \in U PROVE D \cup {x} \in U
  <2>1. IsFiniteSet(D) /\ x \notin D /\ \A y \in D \cup {x} : f[y] \in Int
    BY FS_Subset
  <2>2. SumFunctionOnSet(f, D \cup {x}) = SumFunctionOnSet(f, D) + f[x]
    BY <2>1, SumWith
  <2>3. SumFunctionOnSet(f, D) \in Int /\ SumFunctionOnSet(f, D) <= 0 /\ f[x] \in Int /\ f[x] <= 0
    BY <1>2, <2>1, SumFacts
  <2>4. SumFunctionOnSet(f, D \cup {x}) <= 0
    BY <2>2, <2>3
  <2> QED
    BY <2>4
<1>3. S \in U
  <2> HIDE DEF U
  <2> QED
    BY <1>1, <1>2, SubsetInduction
<1> QED
  BY <1>3

(* Where only one is positive, the sum is not more than that one.          *)
LEMMA SumAtMost ==
  ASSUME NEW S, IsFiniteSet(S), NEW f, \A y \in S : f[y] \in Int,
         NEW x \in S, \A y \in S \ {x} : f[y] <= 0
  PROVE  SumFunctionOnSet(f, S) <= f[x]
<1> DEFINE R == S \ {x}
<1>1. IsFiniteSet(R) /\ \A y \in R : f[y] \in Int /\ f[y] <= 0
  BY FS_RemoveElement
<1>2. SumFunctionOnSet(f, S) = SumFunctionOnSet(f, R) + f[x]
  BY SumFacts
<1> HIDE DEF R
<1>3. SumFunctionOnSet(f, R) \in Int /\ SumFunctionOnSet(f, R) <= 0
  BY <1>1, SumFacts, SumNotPositive
<1> QED
  BY <1>2, <1>3

LEMMA SumPlus ==
  ASSUME NEW S, IsFiniteSet(S), NEW f, NEW g, NEW h,
         \A x \in S : f[x] \in Int /\ g[x] \in Int /\ h[x] = f[x] + g[x]
  PROVE  SumFunctionOnSet(h, S) = SumFunctionOnSet(f, S) + SumFunctionOnSet(g, S)
<1> DEFINE U == {D \in SUBSET S : SumFunctionOnSet(h, D) = SumFunctionOnSet(f, D) + SumFunctionOnSet(g, D)}
<1>1. {} \in U
  <2>1. ASSUME NEW k PROVE SumFunctionOnSet(k, {}) = 0
    BY FS_EmptySet, SumFacts
  <2> QED
    BY <2>1
<1>2. ASSUME NEW D \in SUBSET S, NEW x \in S \ D, D \in U PROVE D \cup {x} \in U
  <2>1. /\ IsFiniteSet(D) /\ x \notin D
        /\ \A y \in D \cup {x} : f[y] \in Int /\ g[y] \in Int /\ h[y] \in Int /\ h[y] = f[y] + g[y]
    BY FS_Subset
  <2>2. /\ SumFunctionOnSet(f, D \cup {x}) = SumFunctionOnSet(f, D) + f[x]
        /\ SumFunctionOnSet(g, D \cup {x}) = SumFunctionOnSet(g, D) + g[x]
        /\ SumFunctionOnSet(h, D \cup {x}) = SumFunctionOnSet(h, D) + h[x]
    BY <2>1, SumWith
  <2>3. SumFunctionOnSet(f, D) \in Int /\ SumFunctionOnSet(g, D) \in Int
    BY <2>1, SumFacts
  <2>4. SumFunctionOnSet(h, D) = SumFunctionOnSet(f, D) + SumFunctionOnSet(g, D)
    BY <1>2
  <2>5. SumFunctionOnSet(h, D \cup {x}) = SumFunctionOnSet(f, D \cup {x}) + SumFunctionOnSet(g, D \cup {x})
    BY <2>1, <2>2, <2>3, <2>4
  <2> QED
    BY <2>5
<1>3. S \in U
  <2> HIDE DEF U
  <2> QED
    BY <1>1, <1>2, SubsetInduction
<1> QED
  BY <1>3

LEMMA SumLess ==
  ASSUME NEW S, IsFiniteSet(S), NEW f, NEW g, \A x \in S : f[x] \in Int /\ g[x] \in Int /\ f[x] <= g[x]
  PROVE  SumFunctionOnSet(f, S) <= SumFunctionOnSet(g, S)
<1> DEFINE k == [x \in S |-> g[x] - f[x]]
<1>1. \A x \in S : k[x] \in Nat /\ k[x] \in Int /\ f[x] \in Int /\ g[x] = f[x] + k[x]
  OBVIOUS
<1> HIDE DEF k
<1>2. SumFunctionOnSet(g, S) = SumFunctionOnSet(f, S) + SumFunctionOnSet(k, S)
  BY <1>1, SumPlus
<1>3. SumFunctionOnSet(k, S) \in Nat
  BY <1>1, SumNatural
<1>4. SumFunctionOnSet(f, S) \in Int
  BY SumFacts
<1> QED
  BY <1>2, <1>3, <1>4
=============================================================================
