--------------------------- MODULE InductionFacts ---------------------------
(***************************************************************************)
(* Facts about numbers, sets, sums and iterations that the proofs of       *)
(* several components need and that take an induction.                     *)
(***************************************************************************)
EXTENDS Integers, Functions, FiniteSetTheorems, SequenceTheorems, WellFoundedInduction, TLAPS

\* A set of natural numbers that has an element has a least one.
LEMMA LeastNat ==
    ASSUME NEW S, S \subseteq Nat, S # {}
    PROVE  \E a \in S : \A b \in S : a <= b
<1> DEFINE R == {p \in Nat \X Nat : p[1] < p[2]}
<1>1. OpToRel(<, Nat) = R
  BY Zenon DEF OpToRel
<1>2. IsWellFoundedOn(R, Nat)
  BY <1>1, NatLessThanWellFounded, Zenon
<1>3. PICK a \in S : \A b \in S : ~(<<b, a>> \in R)
  <2> HIDE DEF R
  <2> QED
    BY <1>2, WFMin
<1>4. \A b \in S : a <= b
  <2> SUFFICES ASSUME NEW b \in S, b < a PROVE FALSE
    OBVIOUS
  <2>1. <<b, a>> \in R
    OBVIOUS
  <2> QED
    BY <1>3, <2>1
<1> QED
  BY <1>4

-----------------------------------------------------------------------------
(* Sums over finite sets, SumFunctionOnSet: the order in which the fold    *)
(* takes the elements depends on the set alone, so two sums over one set   *)
(* are compared element by element.                                        *)

First(s) == CHOOSE x \in s : TRUE

\* A family of subsets of a finite set has a smallest member.
LEMMA SmallestSubset ==
    ASSUME NEW S, IsFiniteSet(S), NEW B, B \subseteq SUBSET S, B # {}
    PROVE  \E s \in B : \A t \in B : Cardinality(s) <= Cardinality(t)
<1>1. \A s \in B : Cardinality(s) \in Nat
  BY FS_Subset, FS_CardinalityType
<1>2. PICK N : N = {Cardinality(s) : s \in B}
  OBVIOUS
<1>3. N \subseteq Nat /\ N # {}
  BY <1>1, <1>2
<1>4. PICK n \in N : \A m \in N : n <= m
  BY <1>3, LeastNat
<1> QED
  BY <1>2, <1>4

\* Taking the first element of a finite set away makes it smaller.
LEMMA FirstFacts ==
    ASSUME NEW s, IsFiniteSet(s), s # {}
    PROVE  /\ First(s) \in s /\ IsFiniteSet(s \ {First(s)})
           /\ Cardinality(s \ {First(s)}) = Cardinality(s) - 1
           /\ Cardinality(s) \in Nat /\ Cardinality(s \ {First(s)}) \in Nat
<1>1. First(s) \in s
  BY DEF First
<1> QED
  BY <1>1, FS_RemoveElement, FS_CardinalityType

\* The function of subsets that the fold computes.
LEMMA SumIsIterated ==
    ASSUME NEW S, NEW f
    PROVE  SumFunctionOnSet(f, S) =
             (CHOOSE g : g = [s \in SUBSET S |-> IF s = {} THEN 0 ELSE f[First(s)] + g[s \ {First(s)}]])[S]
BY Zenon DEF SumFunctionOnSet, FoldFunctionOnSet, MapThenFoldSet, First

\* The subsets of at most n elements, and the sums over them.
UpTo(S, n) == {s \in SUBSET S : Cardinality(s) <= n}
IsSum(f, D, g) ==
    /\ g \in [D -> Int]
    /\ \A s \in D : g[s] = IF s = {} THEN 0 ELSE f[First(s)] + g[s \ {First(s)}]

\* The recursion of the fold has a solution, built up from the empty set.
LEMMA SumExists ==
    ASSUME NEW S, IsFiniteSet(S), NEW T, S \subseteq T, NEW f \in [T -> Int]
    PROVE  \E g : IsSum(f, SUBSET S, g)
<1>1. PICK B : B = {n \in Nat : ~\E g : IsSum(f, UpTo(S, n), g)}
  OBVIOUS
<1>2. B = {}
  <2> SUFFICES ASSUME B # {} PROVE FALSE
    OBVIOUS
  <2>1. PICK n \in B : \A m \in B : n <= m
    BY <1>1, LeastNat
  <2>2. n \in Nat /\ ~\E g : IsSum(f, UpTo(S, n), g)
    BY <1>1, <2>1
  <2>3. \A s \in SUBSET S : IsFiniteSet(s) /\ Cardinality(s) \in Nat
    BY FS_Subset, FS_CardinalityType
  <2>4. \A s \in SUBSET S : Cardinality(s) = 0 <=> s = {}
    BY <2>3, FS_EmptySet
  <2>5. \A s \in SUBSET S : s # {} =>
          /\ First(s) \in T /\ s \ {First(s)} \in SUBSET S
          /\ Cardinality(s \ {First(s)}) = Cardinality(s) - 1
    BY <2>3, FirstFacts
  <2>6. CASE n = 0
    <3>1. PICK g : g = [s \in UpTo(S, 0) |-> 0]
      OBVIOUS
    <3>2. \A s \in UpTo(S, 0) : s = {}
      BY <2>3, <2>4 DEF UpTo
    <3>3. IsSum(f, UpTo(S, 0), g)
      BY <3>1, <3>2 DEF IsSum
    <3> QED
      BY <2>2, <2>6, <3>3
  <2>7. CASE n # 0
    <3>1. n - 1 \in Nat /\ n - 1 \notin B
      BY <2>1, <2>2, <2>7
    <3>2. PICK h : IsSum(f, UpTo(S, n - 1), h)
      BY <1>1, <3>1
    <3>3. PICK D : D = UpTo(S, n)
      OBVIOUS
    <3>4. PICK g : g = [s \in D |-> IF s = {} THEN 0 ELSE f[First(s)] + h[s \ {First(s)}]]
      OBVIOUS
    <3>5. \A s \in D : s \in SUBSET S /\ (s # {} => s \ {First(s)} \in UpTo(S, n - 1) /\ s \ {First(s)} \in D)
      BY <2>2, <2>3, <2>5, <3>3 DEF UpTo
    <3>6. \A s \in UpTo(S, n - 1) : s \in D
      BY <2>2, <2>3, <3>3 DEF UpTo
    <3>7. \A s \in UpTo(S, n - 1) : g[s] = h[s]
      BY <3>2, <3>4, <3>6 DEF IsSum
    <3>8. \A s \in D : (IF s = {} THEN 0 ELSE f[First(s)] + h[s \ {First(s)}]) \in Int
      <4> SUFFICES ASSUME NEW s \in D, s # {} PROVE f[First(s)] + h[s \ {First(s)}] \in Int
        OBVIOUS
      <4>1. f[First(s)] \in Int
        BY <2>5, <3>5
      <4>2. h[s \ {First(s)}] \in Int
        BY <3>2, <3>5 DEF IsSum
      <4> QED
        BY <4>1, <4>2
    <3>9. g \in [D -> Int]
      BY <3>4, <3>8
    <3>10. IsSum(f, D, g)
      BY <3>4, <3>5, <3>7, <3>9 DEF IsSum
    <3> QED
      BY <2>2, <3>3, <3>10
  <2> QED
    BY <2>6, <2>7
<1>3. Cardinality(S) \in Nat
  BY FS_CardinalityType
<1>4. PICK g : IsSum(f, UpTo(S, Cardinality(S)), g)
  BY <1>1, <1>2, <1>3
<1>5. UpTo(S, Cardinality(S)) = SUBSET S
  BY FS_Subset DEF UpTo
<1> QED
  BY <1>4, <1>5

\* What SumFunctionOnSet computes: a sum, taken one element at a time.
LEMMA SumFacts ==
    ASSUME NEW S, IsFiniteSet(S), NEW T, S \subseteq T, NEW f \in [T -> Int]
    PROVE  \E g : IsSum(f, SUBSET S, g) /\ SumFunctionOnSet(f, S) = g[S]
<1>1. PICK g : g = CHOOSE h : h = [s \in SUBSET S |-> IF s = {} THEN 0 ELSE f[First(s)] + h[s \ {First(s)}]]
  OBVIOUS
<1>2. PICK k : IsSum(f, SUBSET S, k)
  BY SumExists
<1>3. k = [s \in SUBSET S |-> IF s = {} THEN 0 ELSE f[First(s)] + k[s \ {First(s)}]]
  BY <1>2 DEF IsSum
<1>4. g = [s \in SUBSET S |-> IF s = {} THEN 0 ELSE f[First(s)] + g[s \ {First(s)}]]
  BY <1>1, <1>3, Zenon
<1>5. \A s \in SUBSET S : g[s] = IF s = {} THEN 0 ELSE f[First(s)] + g[s \ {First(s)}]
  BY <1>4
<1>6. \A s \in SUBSET S : g[s] \in Int
  <2>1. PICK B : B = {s \in SUBSET S : g[s] \notin Int}
    OBVIOUS
  <2> SUFFICES ASSUME B # {} PROVE FALSE
    BY <2>1
  <2>2. PICK s \in B : \A t \in B : Cardinality(s) <= Cardinality(t)
    BY <2>1, SmallestSubset
  <2>3. s \in SUBSET S /\ g[s] \notin Int /\ s # {} /\ IsFiniteSet(s)
    <3>1. s \in SUBSET S /\ g[s] \notin Int
      BY <2>1, <2>2
    <3>2. IsFiniteSet(s)
      BY <3>1, FS_Subset
    <3>3. ASSUME s = {} PROVE g[s] = 0
      BY <1>5, <3>1, <3>3
    <3> QED
      BY <3>1, <3>2, <3>3
  <2>4. PICK t : t = s \ {First(s)}
    OBVIOUS
  <2>5. /\ t \in SUBSET S /\ First(s) \in T /\ Cardinality(t) \in Nat /\ Cardinality(s) \in Nat
        /\ Cardinality(t) = Cardinality(s) - 1
    BY <2>3, <2>4, FirstFacts
  <2>6. g[t] \in Int
    BY <2>1, <2>2, <2>5
  <2>7. g[s] = f[First(s)] + g[t]
    BY <1>5, <2>3, <2>4
  <2> QED
    BY <2>3, <2>5, <2>6, <2>7
<1>7. IsSum(f, SUBSET S, g)
  BY <1>4, <1>5, <1>6 DEF IsSum
<1>8. SumFunctionOnSet(f, S) = g[S]
  BY <1>1, SumIsIterated, Zenon
<1> QED
  BY <1>7, <1>8

\* A sum of integers is an integer.
LEMMA SumType ==
    ASSUME NEW S, IsFiniteSet(S), NEW T, S \subseteq T, NEW f \in [T -> Int]
    PROVE  SumFunctionOnSet(f, S) \in Int
<1>1. PICK g : IsSum(f, SUBSET S, g) /\ SumFunctionOnSet(f, S) = g[S]
  BY SumFacts
<1>2. S \in SUBSET S
  OBVIOUS
<1>3. g \in [SUBSET S -> Int]
  BY <1>1 DEF IsSum
<1> QED
  BY <1>1, <1>2, <1>3

\* A sum of zeros is zero.
LEMMA SumZero ==
    ASSUME NEW S, IsFiniteSet(S), NEW T, S \subseteq T, NEW f \in [T -> Int], \A y \in S : f[y] = 0
    PROVE  SumFunctionOnSet(f, S) = 0
<1>1. PICK g : IsSum(f, SUBSET S, g) /\ SumFunctionOnSet(f, S) = g[S]
  BY SumFacts
<1>2. PICK B : B = {s \in SUBSET S : g[s] # 0}
  OBVIOUS
<1>3. B = {}
  <2> SUFFICES ASSUME B # {} PROVE FALSE
    OBVIOUS
  <2>1. PICK s \in B : \A t \in B : Cardinality(s) <= Cardinality(t)
    BY <1>2, SmallestSubset
  <2>2. s \in SUBSET S /\ IsFiniteSet(s) /\ g[s] # 0
    BY <1>2, <2>1, FS_Subset
  <2>3. s # {}
    BY <1>1, <2>2 DEF IsSum
  <2>4. PICK t, y : t = s \ {First(s)} /\ y = First(s)
    OBVIOUS
  <2>5. /\ t \in SUBSET S /\ y \in S
        /\ Cardinality(t) \in Nat /\ Cardinality(s) \in Nat /\ Cardinality(t) = Cardinality(s) - 1
    BY <2>2, <2>3, <2>4, FirstFacts
  <2>6. t \notin B
    BY <2>1, <2>5
  <2>7. g[t] = 0
    BY <1>2, <2>5, <2>6
  <2>8. g[s] = f[y] + g[t]
    BY <1>1, <2>2, <2>3, <2>4 DEF IsSum
  <2> QED
    BY <2>2, <2>5, <2>7, <2>8
<1>4. g[S] = 0
  BY <1>2, <1>3
<1> QED
  BY <1>1, <1>4

\* When two functions differ by d at one element of the set only, their sums
\* differ by d.
LEMMA SumUpdate ==
    ASSUME NEW S, IsFiniteSet(S), NEW T, S \subseteq T, NEW f \in [T -> Int], NEW h \in [T -> Int],
           NEW x, NEW d \in Int,
           \A y \in S : h[y] = IF y = x THEN f[y] + d ELSE f[y]
    PROVE  SumFunctionOnSet(h, S) = IF x \in S THEN SumFunctionOnSet(f, S) + d ELSE SumFunctionOnSet(f, S)
<1>1. PICK g : IsSum(f, SUBSET S, g) /\ SumFunctionOnSet(f, S) = g[S]
  BY SumFacts
<1>2. PICK k : IsSum(h, SUBSET S, k) /\ SumFunctionOnSet(h, S) = k[S]
  BY SumFacts
<1>3. PICK B : B = {s \in SUBSET S : k[s] # IF x \in s THEN g[s] + d ELSE g[s]}
  OBVIOUS
<1>4. B = {}
  <2> SUFFICES ASSUME B # {} PROVE FALSE
    OBVIOUS
  <2>1. PICK s \in B : \A t \in B : Cardinality(s) <= Cardinality(t)
    BY <1>3, SmallestSubset
  <2>2. s \in SUBSET S /\ IsFiniteSet(s) /\ k[s] # IF x \in s THEN g[s] + d ELSE g[s]
    BY <1>3, <2>1, FS_Subset
  <2>3. s # {}
    BY <1>1, <1>2, <2>2 DEF IsSum
  <2>4. PICK t, y : t = s \ {First(s)} /\ y = First(s)
    OBVIOUS
  <2>5. /\ t \in SUBSET S /\ y \in S /\ y \in s /\ y \in T
        /\ Cardinality(t) \in Nat /\ Cardinality(s) \in Nat /\ Cardinality(t) = Cardinality(s) - 1
    BY <2>2, <2>3, <2>4, FirstFacts
  <2>6. t \notin B
    BY <2>1, <2>5
  <2>7. k[t] = IF x \in t THEN g[t] + d ELSE g[t]
    BY <1>3, <2>5, <2>6
  <2>8. k[s] = h[y] + k[t] /\ g[s] = f[y] + g[t]
    BY <1>1, <1>2, <2>2, <2>3, <2>4 DEF IsSum
  <2>9. h[y] \in Int /\ f[y] \in Int /\ g[t] \in Int /\ k[t] \in Int
    BY <1>1, <1>2, <2>5 DEF IsSum
  <2>10. x \in s <=> (x = y \/ x \in t)
    BY <2>4, <2>5
  <2>11. y \notin t
    BY <2>4
  <2> QED
    BY <2>2, <2>5, <2>7, <2>8, <2>9, <2>10, <2>11
<1>5. k[S] = IF x \in S THEN g[S] + d ELSE g[S]
  BY <1>3, <1>4
<1> QED
  BY <1>1, <1>2, <1>5

\* Every element of a set can be the one that is added last.
AnyLast(f, S, g) == \A s \in SUBSET S : \A x \in s : g[s] = f[x] + g[s \ {x}]


\* Any element may be taken out of a sum, not only the one the fold takes first.
LEMMA SumWithout ==
    ASSUME NEW S, IsFiniteSet(S), NEW T, S \subseteq T, NEW f \in [T -> Int], NEW g, IsSum(f, SUBSET S, g)
    PROVE  AnyLast(f, S, g)
<1>1. PICK B : B = {s \in SUBSET S : \E x \in s : g[s] # f[x] + g[s \ {x}]}
  OBVIOUS
<1>2. B = {}
  <2> SUFFICES ASSUME B # {} PROVE FALSE
    OBVIOUS
  <2>1. PICK s \in B : \A t \in B : Cardinality(s) <= Cardinality(t)
    BY <1>1, SmallestSubset
  <2>2. PICK x \in s : g[s] # f[x] + g[s \ {x}]
    BY <1>1, <2>1
  <2>3. s \in SUBSET S /\ IsFiniteSet(s) /\ s # {}
    BY <1>1, <2>1, <2>2, FS_Subset
  <2>4. PICK y, t, u, v : y = First(s) /\ t = s \ {y} /\ u = s \ {x} /\ v = (s \ {y}) \ {x}
    OBVIOUS
  <2>5. /\ y \in s /\ Cardinality(t) \in Nat /\ Cardinality(s) \in Nat
        /\ Cardinality(t) = Cardinality(s) - 1
    BY <2>3, <2>4, FirstFacts
  <2>6. IsFiniteSet(u) /\ Cardinality(u) = Cardinality(s) - 1
    BY <2>2, <2>3, <2>4, FS_RemoveElement
  <2>7. g[s] = f[y] + g[t]
    BY <2>3, <2>4 DEF IsSum
  <2>8. x # y
    BY <2>2, <2>4, <2>7
  <2>9. t \in SUBSET S /\ u \in SUBSET S /\ t \notin B /\ u \notin B
    <3>1. Cardinality(t) < Cardinality(s) /\ Cardinality(u) < Cardinality(s)
      BY <2>5, <2>6
    <3> QED
      BY <2>1, <2>3, <2>4, <2>5, <2>6, <3>1
  <2>10. x \in t /\ y \in u /\ t \ {x} = v /\ u \ {y} = v
    BY <2>2, <2>4, <2>5, <2>8
  <2>11. g[t] = f[x] + g[v] /\ g[u] = f[y] + g[v]
    BY <1>1, <2>9, <2>10
  <2>12. f[x] \in Int /\ f[y] \in Int /\ g[v] \in Int
    <3>1. v \in SUBSET S /\ x \in T /\ y \in T
      BY <2>2, <2>3, <2>4, <2>5
    <3> QED
      BY <3>1 DEF IsSum
  <2> QED
    BY <2>2, <2>4, <2>7, <2>11, <2>12
<1> QED
  BY <1>1, <1>2 DEF AnyLast

\* The sum over one element.
LEMMA SumSingle ==
    ASSUME NEW T, NEW f \in [T -> Int], NEW x \in T
    PROVE  SumFunctionOnSet(f, {x}) = f[x]
<1>1. IsFiniteSet({x}) /\ {x} \subseteq T
  BY FS_Singleton
<1>2. PICK g : IsSum(f, SUBSET {x}, g) /\ SumFunctionOnSet(f, {x}) = g[{x}]
  BY <1>1, SumFacts
<1>3. First({x}) = x /\ {x} \ {x} = {}
  BY DEF First
<1>4. g[{}] = 0
  <2>1. {} \in SUBSET {x}
    OBVIOUS
  <2> QED
    BY <1>2, <2>1 DEF IsSum
<1>5. g[{x}] = f[x] + g[{}]
  <2>1. {x} \in SUBSET {x} /\ {x} # {}
    OBVIOUS
  <2> QED
    BY <1>2, <1>3, <2>1 DEF IsSum
<1> QED
  BY <1>2, <1>4, <1>5

\* A sum of natural numbers is no smaller than the sum over a part of the set.
LEMMA SumGrows ==
    ASSUME NEW S, IsFiniteSet(S), NEW T, S \subseteq T, NEW f \in [T -> Int],
           \A y \in S : f[y] >= 0, NEW R, R \subseteq S
    PROVE  0 <= SumFunctionOnSet(f, R) /\ SumFunctionOnSet(f, R) <= SumFunctionOnSet(f, S)
<1>1. PICK g : IsSum(f, SUBSET S, g) /\ SumFunctionOnSet(f, S) = g[S]
  BY SumFacts
<1>2. IsFiniteSet(R) /\ R \subseteq T
  BY FS_Subset
<1>3. PICK k : IsSum(f, SUBSET R, k) /\ SumFunctionOnSet(f, R) = k[R]
  BY <1>2, SumFacts
<1>4. k[R] = g[R]
  <2>1. PICK B : B = {s \in SUBSET R : k[s] # g[s]}
    OBVIOUS
  <2>2. B = {}
    <3> SUFFICES ASSUME B # {} PROVE FALSE
      OBVIOUS
    <3>1. PICK s \in B : \A t \in B : Cardinality(s) <= Cardinality(t)
      BY <1>2, <2>1, SmallestSubset
    <3>2. s \in SUBSET R /\ s \in SUBSET S /\ IsFiniteSet(s) /\ k[s] # g[s]
      BY <1>2, <2>1, <3>1, FS_Subset
    <3>3. s # {}
      BY <1>1, <1>3, <3>2 DEF IsSum
    <3>4. PICK t : t = s \ {First(s)}
      OBVIOUS
    <3>5. /\ t \in SUBSET R
          /\ Cardinality(t) \in Nat /\ Cardinality(s) \in Nat /\ Cardinality(t) = Cardinality(s) - 1
      BY <3>2, <3>3, <3>4, FirstFacts
    <3>6. t \notin B
      BY <3>1, <3>5
    <3>7. k[t] = g[t]
      BY <2>1, <3>5, <3>6
    <3>8. k[s] = f[First(s)] + k[t] /\ g[s] = f[First(s)] + g[t]
      BY <1>1, <1>3, <3>2, <3>3, <3>4 DEF IsSum
    <3> QED
      BY <3>2, <3>7, <3>8
  <2>3. R \in SUBSET R
    OBVIOUS
  <2> QED
    BY <2>1, <2>2, <2>3
<1>5. \A z \in SUBSET S : \A y \in z : g[z] = f[y] + g[z \ {y}]
  <2>1. AnyLast(f, S, g)
    BY <1>1, SumWithout
  <2> QED
    BY <2>1 DEF AnyLast
<1>6. ASSUME NEW r, r \subseteq S PROVE \A s \in SUBSET S : r \subseteq s => g[r] <= g[s]
  <2>1. PICK B : B = {s \in SUBSET S : r \subseteq s /\ ~(g[r] <= g[s])}
    OBVIOUS
  <2>2. B = {}
    <3> SUFFICES ASSUME B # {} PROVE FALSE
      OBVIOUS
    <3>1. PICK s \in B : \A t \in B : Cardinality(s) <= Cardinality(t)
      BY <2>1, SmallestSubset
    <3>2. s \in SUBSET S /\ r \subseteq s /\ ~(g[r] <= g[s]) /\ IsFiniteSet(s)
      BY <2>1, <3>1, FS_Subset
    <3>3. g[r] \in Int /\ g[s] \in Int
      <4>1. r \in SUBSET S
        BY <1>6
      <4> QED
        BY <1>1, <3>2, <4>1 DEF IsSum
    <3>4. r # s
      BY <3>2, <3>3
    <3>5. PICK x \in s : x \notin r
      BY <3>2, <3>4
    <3>6. PICK t : t = s \ {x}
      OBVIOUS
    <3>7. Cardinality(t) = Cardinality(s) - 1 /\ Cardinality(s) \in Nat
      BY <3>2, <3>5, <3>6, FS_RemoveElement, FS_CardinalityType
    <3>8. t \in SUBSET S /\ r \subseteq t /\ t \notin B
      BY <3>1, <3>2, <3>5, <3>6, <3>7
    <3>9. g[r] <= g[t]
      BY <2>1, <3>8
    <3>10. g[s] = f[x] + g[t]
      BY <1>5, <3>2, <3>5, <3>6
    <3>11. f[x] \in Int /\ f[x] >= 0 /\ g[t] \in Int
      <4>1. x \in S /\ x \in T
        BY <3>2, <3>5
      <4> QED
        BY <1>1, <3>8, <4>1 DEF IsSum
    <3> QED
      BY <3>2, <3>3, <3>9, <3>10, <3>11
  <2> QED
    BY <2>1, <2>2
<1>7. g[{}] = 0 /\ g[R] \in Int /\ g[S] \in Int
  <2>1. {} \in SUBSET S /\ R \in SUBSET S /\ S \in SUBSET S
    OBVIOUS
  <2> QED
    BY <1>1, <2>1 DEF IsSum
<1>8. g[{}] <= g[R] /\ g[R] <= g[S]
  BY <1>6
<1> QED
  BY <1>1, <1>3, <1>4, <1>7, <1>8

-----------------------------------------------------------------------------
(* Induction up to a number, and the functions a recursion defines.        *)

\* What holds at 0 and goes from each number to the next holds up to n.
LEMMA InductionTo ==
    ASSUME NEW n \in Nat, NEW P, 0 \in P, \A i \in 1..n : i - 1 \in P => i \in P
    PROVE  \A i \in 0..n : i \in P
<1>1. PICK B : B = {i \in 0..n : i \notin P}
  OBVIOUS
<1> SUFFICES ASSUME B # {} PROVE FALSE
  BY <1>1
<1>2. PICK b \in B : \A c \in B : b <= c
  <2>1. B \subseteq Nat
    BY <1>1
  <2> QED
    BY <2>1, LeastNat
<1>3. b \in 1..n /\ b \notin P
  BY <1>1, <1>2
<1>4. b - 1 \in 0..n /\ ~(b <= b - 1)
  BY <1>3
<1>5. b - 1 \in P
  BY <1>1, <1>2, <1>4
<1> QED
  BY <1>3, <1>5

\* A function that takes a step at each of the numbers 1 to n.
IsIteration(first, step, L, n, g) ==
    /\ g \in [0..n -> L]
    /\ g[0] = first
    /\ \A i \in 1..n : g[i] = step[<<g[i - 1], i>>]

\* A recursion that takes one step after the other has a solution.
LEMMA IterationExists ==
    ASSUME NEW n \in Nat, NEW L, NEW first \in L, NEW step \in [L \X (1..n) -> L]
    PROVE  \E g : IsIteration(first, step, L, n, g)
<1>1. PICK P : P = {m \in 0..n : \E g : IsIteration(first, step, L, m, g)}
  OBVIOUS
<1>2. 0 \in P
  <2>1. PICK g : g = [i \in 0..0 |-> first]
    OBVIOUS
  <2>2. IsIteration(first, step, L, 0, g)
    BY <2>1 DEF IsIteration
  <2> QED
    BY <1>1, <2>2
<1>3. ASSUME NEW m \in 1..n, m - 1 \in P PROVE m \in P
  <2>1. PICK h : IsIteration(first, step, L, m - 1, h)
    BY <1>1, <1>3
  <2>2. PICK g : g = [i \in 0..m |-> IF i = m THEN step[<<h[m - 1], m>>] ELSE h[i]]
    OBVIOUS
  <2>3. \A i \in 0..(m - 1) : h[i] \in L /\ g[i] = h[i]
    BY <2>1, <2>2 DEF IsIteration
  <2>4. <<h[m - 1], m>> \in L \X (1..n)
    BY <2>3
  <2>5. g[m] = step[<<h[m - 1], m>>] /\ g[m] \in L
    BY <2>2, <2>4
  <2>6. \A i \in 0..m : g[i] \in L
    <3> SUFFICES ASSUME NEW i \in 0..m PROVE g[i] \in L
      OBVIOUS
    <3>1. i = m \/ i \in 0..(m - 1)
      OBVIOUS
    <3> QED
      BY <2>3, <2>5, <3>1
  <2>7. g \in [0..m -> L]
    BY <2>2, <2>6
  <2>8. g[0] = first
    <3>1. 0 \in 0..(m - 1)
      OBVIOUS
    <3> QED
      BY <2>1, <2>3, <3>1 DEF IsIteration
  <2>9. ASSUME NEW i \in 1..m PROVE g[i] = step[<<g[i - 1], i>>]
    <3>1. i - 1 \in 0..(m - 1)
      OBVIOUS
    <3>2. CASE i = m
      BY <2>3, <2>5, <3>1, <3>2
    <3>3. CASE i # m
      <4>1. i \in 1..(m - 1) /\ i \in 0..(m - 1)
        BY <3>3
      <4> QED
        BY <2>1, <2>3, <3>1, <4>1 DEF IsIteration
    <3> QED
      BY <3>2, <3>3
  <2>10. IsIteration(first, step, L, m, g)
    BY <2>7, <2>8, <2>9 DEF IsIteration
  <2> QED
    BY <1>1, <2>10
<1>4. n \in P
  BY <1>2, <1>3, InductionTo
<1> QED
  BY <1>1, <1>4

-----------------------------------------------------------------------------
(* Sums of different functions, and of sequences.                          *)

\* Two functions that agree on a set have the same sum over it.
LEMMA SumSame ==
    ASSUME NEW S, IsFiniteSet(S), NEW T, S \subseteq T, NEW f \in [T -> Int],
           NEW U, S \subseteq U, NEW h \in [U -> Int], \A y \in S : f[y] = h[y]
    PROVE  SumFunctionOnSet(f, S) = SumFunctionOnSet(h, S)
<1>1. PICK g : IsSum(f, SUBSET S, g) /\ SumFunctionOnSet(f, S) = g[S]
  BY SumFacts
<1>2. PICK k : IsSum(h, SUBSET S, k) /\ SumFunctionOnSet(h, S) = k[S]
  BY SumFacts
<1>3. PICK B : B = {s \in SUBSET S : g[s] # k[s]}
  OBVIOUS
<1>4. B = {}
  <2> SUFFICES ASSUME B # {} PROVE FALSE
    OBVIOUS
  <2>1. PICK s \in B : \A t \in B : Cardinality(s) <= Cardinality(t)
    BY <1>3, SmallestSubset
  <2>2. s \in SUBSET S /\ IsFiniteSet(s) /\ g[s] # k[s]
    BY <1>3, <2>1, FS_Subset
  <2>3. s # {}
    BY <1>1, <1>2, <2>2 DEF IsSum
  <2>4. PICK t, y : t = s \ {First(s)} /\ y = First(s)
    OBVIOUS
  <2>5. /\ t \in SUBSET S /\ y \in S
        /\ Cardinality(t) \in Nat /\ Cardinality(s) \in Nat /\ Cardinality(t) = Cardinality(s) - 1
    BY <2>2, <2>3, <2>4, FirstFacts
  <2>6. g[t] = k[t]
    BY <1>3, <2>1, <2>5
  <2>7. g[s] = f[y] + g[t] /\ k[s] = h[y] + k[t]
    BY <1>1, <1>2, <2>2, <2>3, <2>4 DEF IsSum
  <2> QED
    BY <2>2, <2>5, <2>6, <2>7
<1>5. g[S] = k[S]
  BY <1>3, <1>4
<1> QED
  BY <1>1, <1>2, <1>5

\* An element added to a set adds its value to the sum.
LEMMA SumSplit ==
    ASSUME NEW S, IsFiniteSet(S), NEW T, S \subseteq T, NEW f \in [T -> Int], NEW x \in S
    PROVE  SumFunctionOnSet(f, S) = f[x] + SumFunctionOnSet(f, S \ {x})
<1>1. PICK g : IsSum(f, SUBSET S, g) /\ SumFunctionOnSet(f, S) = g[S]
  BY SumFacts
<1>2. PICK R : R = S \ {x}
  OBVIOUS
<1>3. IsFiniteSet(R) /\ R \subseteq T /\ R \subseteq S
  BY <1>2, FS_Subset
<1>4. PICK k : IsSum(f, SUBSET R, k) /\ SumFunctionOnSet(f, R) = k[R]
  BY <1>3, SumFacts
<1>5. PICK B : B = {s \in SUBSET R : k[s] # g[s]}
  OBVIOUS
<1>6. B = {}
  <2> SUFFICES ASSUME B # {} PROVE FALSE
    OBVIOUS
  <2>1. PICK s \in B : \A t \in B : Cardinality(s) <= Cardinality(t)
    BY <1>3, <1>5, SmallestSubset
  <2>2. s \in SUBSET R /\ s \in SUBSET S /\ IsFiniteSet(s) /\ k[s] # g[s]
    BY <1>3, <1>5, <2>1, FS_Subset
  <2>3. s # {}
    BY <1>1, <1>4, <2>2 DEF IsSum
  <2>4. PICK t : t = s \ {First(s)}
    OBVIOUS
  <2>5. /\ t \in SUBSET R
        /\ Cardinality(t) \in Nat /\ Cardinality(s) \in Nat /\ Cardinality(t) = Cardinality(s) - 1
    BY <2>2, <2>3, <2>4, FirstFacts
  <2>6. k[t] = g[t]
    BY <1>5, <2>1, <2>5
  <2>7. k[s] = f[First(s)] + k[t] /\ g[s] = f[First(s)] + g[t]
    BY <1>1, <1>4, <2>2, <2>3, <2>4 DEF IsSum
  <2> QED
    BY <2>2, <2>6, <2>7
<1>7. g[R] = k[R]
  BY <1>5, <1>6
<1>8. AnyLast(f, S, g)
  BY <1>1, SumWithout
<1>9. g[S] = f[x] + g[R]
  BY <1>2, <1>8 DEF AnyLast
<1> QED
  BY <1>1, <1>2, <1>4, <1>7, <1>9

\* The sum of a sequence grows by what is appended to it.
LEMMA SumAppend ==
    ASSUME NEW s \in Seq(Int), NEW e \in Int
    PROVE  SumFunction(Append(s, e)) = SumFunction(s) + e /\ SumFunction(s) \in Int
<1>1. PICK n, f : n = Len(s) /\ f = Append(s, e)
  OBVIOUS
<1>2. n \in Nat /\ s \in [1..n -> Int] /\ DOMAIN s = 1..n
  BY <1>1, LenProperties
<1>3. f \in Seq(Int) /\ Len(f) = n + 1 /\ f[n + 1] = e /\ \A i \in 1..n : f[i] = s[i]
  BY <1>1, AppendProperties
<1>4. f \in [1..(n + 1) -> Int] /\ DOMAIN f = 1..(n + 1)
  BY <1>3, LenProperties
<1>5. IsFiniteSet(1..n) /\ IsFiniteSet(1..(n + 1)) /\ 1..n \subseteq 1..(n + 1)
  BY <1>2, FS_Interval
<1>6. n + 1 \in 1..(n + 1) /\ (1..(n + 1)) \ {n + 1} = 1..n
  BY <1>2
<1>7. SumFunctionOnSet(f, 1..(n + 1)) = f[n + 1] + SumFunctionOnSet(f, (1..(n + 1)) \ {n + 1})
  BY <1>4, <1>5, <1>6, SumSplit
<1>8. SumFunctionOnSet(f, 1..n) = SumFunctionOnSet(s, 1..n)
  <2>1. PICK R, T : R = 1..n /\ T = 1..(n + 1)
    OBVIOUS
  <2>2. /\ IsFiniteSet(R) /\ R \subseteq R /\ R \subseteq T
        /\ f \in [T -> Int] /\ s \in [R -> Int] /\ \A y \in R : f[y] = s[y]
    BY <1>2, <1>3, <1>4, <1>5, <2>1
  <2>3. SumFunctionOnSet(f, R) = SumFunctionOnSet(s, R)
    BY <2>2, SumSame
  <2> QED
    BY <2>1, <2>3
<1>9. SumFunctionOnSet(s, 1..n) \in Int
  BY <1>2, <1>5, SumType
<1>10. SumFunctionOnSet(f, 1..(n + 1)) = SumFunctionOnSet(s, 1..n) + e
  <2>1. SumFunctionOnSet(f, 1..(n + 1)) = e + SumFunctionOnSet(s, 1..n)
    BY <1>3, <1>6, <1>7, <1>8, Zenon
  <2> QED
    BY <1>9, <2>1
<1> QED
  BY <1>1, <1>2, <1>4, <1>9, <1>10, Zenon DEF SumFunction

\* h is a linear combination of f, g and 1.
IsLinear(h, f, g, k, m, c, n) == \A i \in 1..n : h[i] = k + m * f[i] + c * g[i]
IsLinearSum(h, f, g, k, m, c, n) ==
    /\ SumFunction(f) \in Int /\ SumFunction(g) \in Int
    /\ SumFunction(h) = n * k + m * SumFunction(f) + c * SumFunction(g)

\* The sum of a linear combination is the combination of the sums.
LEMMA SumLinear ==
    ASSUME NEW n \in Nat, NEW f \in [1..n -> Int], NEW g \in [1..n -> Int], NEW h \in [1..n -> Int],
           NEW k \in Int, NEW m \in Int, NEW c \in Int, IsLinear(h, f, g, k, m, c, n)
    PROVE  IsLinearSum(h, f, g, k, m, c, n)
<1>1. PICK P : P = {i \in 0..n : SumFunctionOnSet(h, 1..i) =
                       i * k + m * SumFunctionOnSet(f, 1..i) + c * SumFunctionOnSet(g, 1..i)}
  OBVIOUS
<1>2. \A i \in 0..n : IsFiniteSet(1..i) /\ 1..i \subseteq 1..n
  BY FS_Interval
<1>3. \A i \in 0..n : /\ SumFunctionOnSet(f, 1..i) \in Int
                      /\ SumFunctionOnSet(g, 1..i) \in Int
                      /\ SumFunctionOnSet(h, 1..i) \in Int
  BY <1>2, SumType
<1>4. 0 \in P
  <2>1. PICK E : E = {}
    OBVIOUS
  <2>2. IsFiniteSet(E) /\ E \subseteq 1..n /\ E = 1..0 /\ 0 \in 0..n
    BY <2>1, FS_EmptySet
  <2>3. SumFunctionOnSet(f, E) = 0 /\ SumFunctionOnSet(g, E) = 0 /\ SumFunctionOnSet(h, E) = 0
    BY <2>1, <2>2, SumZero
  <2>4. SumFunctionOnSet(h, 1..0) =
           0 * k + m * SumFunctionOnSet(f, 1..0) + c * SumFunctionOnSet(g, 1..0)
    BY <2>2, <2>3
  <2> QED
    BY <1>1, <2>2, <2>4
<1>5. ASSUME NEW i \in 1..n, i - 1 \in P PROVE i \in P
  <2>1. PICK S, R : S = 1..i /\ R = 1..(i - 1)
    OBVIOUS
  <2>2. IsFiniteSet(S) /\ S \subseteq 1..n /\ i \in S /\ S \ {i} = R /\ i \in 0..n /\ i - 1 \in 0..n
    <3>1. i \in 0..n /\ i - 1 \in 0..n /\ i \in 1..i
      OBVIOUS
    <3>2. \A j : j \in 1..i /\ j # i <=> j \in 1..(i - 1)
      BY SMTT(20)
    <3> QED
      BY <1>2, <2>1, <3>1, <3>2
  <2>3. /\ SumFunctionOnSet(f, S) = f[i] + SumFunctionOnSet(f, R)
        /\ SumFunctionOnSet(g, S) = g[i] + SumFunctionOnSet(g, R)
        /\ SumFunctionOnSet(h, S) = h[i] + SumFunctionOnSet(h, R)
    <3>1. /\ SumFunctionOnSet(f, S) = f[i] + SumFunctionOnSet(f, S \ {i})
          /\ SumFunctionOnSet(g, S) = g[i] + SumFunctionOnSet(g, S \ {i})
          /\ SumFunctionOnSet(h, S) = h[i] + SumFunctionOnSet(h, S \ {i})
      BY <2>2, SumSplit
    <3> QED
      BY <2>2, <3>1
  <2>4. PICK x, y, z : /\ x = SumFunctionOnSet(f, R) /\ y = SumFunctionOnSet(g, R)
                       /\ z = SumFunctionOnSet(h, R)
    OBVIOUS
  <2>5. x \in Int /\ y \in Int /\ z \in Int /\ z = (i - 1) * k + m * x + c * y
    BY <1>1, <1>3, <1>5, <2>1, <2>2, <2>4
  <2>6. PICK a, b : a = f[i] /\ b = g[i]
    OBVIOUS
  <2>7. a \in Int /\ b \in Int /\ h[i] = k + m * a + c * b
    BY <2>6 DEF IsLinear
  <2>8. (k + m * a + c * b) + z = i * k + m * (a + x) + c * (b + y)
    BY <2>5, <2>7
  <2>9. SumFunctionOnSet(h, S) = i * k + m * SumFunctionOnSet(f, S) + c * SumFunctionOnSet(g, S)
    BY <2>3, <2>4, <2>6, <2>7, <2>8
  <2> QED
    BY <1>1, <2>1, <2>2, <2>9
<1>6. n \in P
  <2>1. \A i \in 0..n : i \in P
    BY <1>4, <1>5, InductionTo
  <2> QED
    BY <2>1
<1>7. DOMAIN f = 1..n /\ DOMAIN g = 1..n /\ DOMAIN h = 1..n /\ n \in 0..n
  OBVIOUS
<1>8. /\ SumFunction(f) = SumFunctionOnSet(f, 1..n) /\ SumFunction(g) = SumFunctionOnSet(g, 1..n)
      /\ SumFunction(h) = SumFunctionOnSet(h, 1..n)
  BY <1>7, Zenon DEF SumFunction
<1> QED
  BY <1>1, <1>3, <1>6, <1>7, <1>8 DEF IsLinearSum

-----------------------------------------------------------------------------
(* Greatest elements.                                                      *)

\* A finite set in which any two elements can be compared, R holding the pairs
\* whose first is at least as great, has a greatest element.
LEMMA GreatestExists ==
    ASSUME NEW S, IsFiniteSet(S), S # {}, NEW R,
           \A x, y \in S : <<x, y>> \in R \/ <<y, x>> \in R,
           \A x, y, z \in S : <<x, y>> \in R /\ <<y, z>> \in R => <<x, z>> \in R
    PROVE  \E x \in S : \A y \in S : <<x, y>> \in R
<1>1. PICK B : B = {s \in SUBSET S : s # {} /\ ~\E x \in s : \A y \in s : <<x, y>> \in R}
  OBVIOUS
<1> SUFFICES ASSUME B # {} PROVE FALSE
  BY <1>1
<1>2. PICK s \in B : \A t \in B : Cardinality(s) <= Cardinality(t)
  <2>1. B \subseteq SUBSET S
    BY <1>1
  <2> QED
    BY <2>1, SmallestSubset
<1>3. s \in SUBSET S /\ s # {} /\ IsFiniteSet(s) /\ ~\E x \in s : \A y \in s : <<x, y>> \in R
  BY <1>1, <1>2, FS_Subset
<1>4. PICK t, a : t = s \ {First(s)} /\ a = First(s)
  OBVIOUS
<1>5. /\ a \in s /\ t \in SUBSET S
      /\ Cardinality(t) \in Nat /\ Cardinality(s) \in Nat /\ Cardinality(t) = Cardinality(s) - 1
  BY <1>3, <1>4, FirstFacts
<1>6. t \notin B
  BY <1>2, <1>5
<1>7. CASE t = {}
  <2>1. s = {a}
    BY <1>4, <1>5, <1>7
  <2> QED
    BY <1>3, <2>1
<1>8. CASE t # {}
  <2>1. PICK x \in t : \A y \in t : <<x, y>> \in R
    BY <1>1, <1>5, <1>6, <1>8
  <2>2. x \in S /\ a \in S /\ x \in s /\ \A y \in s : y \in S /\ (y = a \/ y \in t)
    BY <1>3, <1>4, <1>5, <2>1
  <2>3. CASE <<x, a>> \in R
    BY <1>3, <2>1, <2>2, <2>3
  <2>4. CASE <<a, x>> \in R
    BY <1>3, <1>5, <2>1, <2>2, <2>4
  <2> QED
    BY <2>2, <2>3, <2>4
<1> QED
  BY <1>7, <1>8

\* The values of a function on a finite set are finitely many.
LEMMA ImageFinite ==
    ASSUME NEW S, IsFiniteSet(S), NEW f, DOMAIN f = S
    PROVE  IsFiniteSet({f[x] : x \in S})
<1>1. PICK T, g : T = {f[x] : x \in S} /\ g = [x \in S |-> f[x]]
  OBVIOUS
<1>2. g \in [S -> T] /\ \A y \in T : \E x \in S : g[x] = y
  BY <1>1
<1>3. g \in Surjection(S, T)
  BY <1>2 DEF Surjection
<1> QED
  BY <1>1, <1>3, FS_Surjection
=============================================================================
