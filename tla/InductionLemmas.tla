--------------------------- MODULE InductionLemmas ---------------------------
(***************************************************************************)
(* Induction and recursion over the natural numbers, and induction over    *)
(* finite sets, as facts about sets: what is proved by induction is that a *)
(* set holds every number, or every finite subset.  (The theorems of the   *)
(* library take an operator instead.)                                      *)
(***************************************************************************)
EXTENDS Integers, FiniteSets, FiniteSetTheorems, WellFoundedInduction, TLAPS

\* A set of natural numbers that is not empty has a least element.
LEMMA LeastNumber ==
  ASSUME NEW S, S \subseteq Nat, S # {}
  PROVE  \E n \in S : \A m \in S : n <= m
<1> DEFINE R == {p \in Nat \X Nat : p[1] < p[2]}
<1>1. IsWellFoundedOn(R, Nat)
  BY NatLessThanWellFounded DEF OpToRel
<1> HIDE DEF R
<1>2. PICK n \in S : \A m \in S : ~(<<m, n>> \in R)
  BY <1>1, WFMin, Zenon
<1>3. \A m \in S : ~(m < n)
  BY <1>2 DEF R
<1> QED
  BY <1>3

\* Induction, over a set of numbers.
LEMMA Induction ==
  ASSUME NEW S, 0 \in S, \A n \in Nat : n \in S => n + 1 \in S
  PROVE  Nat \subseteq S
<1> SUFFICES ASSUME Nat \ S # {}
             PROVE  FALSE
  OBVIOUS
<1>1. PICK n \in Nat \ S : \A m \in Nat \ S : n <= m
  BY LeastNumber
<1>2. n - 1 \in Nat /\ (n - 1) + 1 = n
  OBVIOUS
<1>3. n - 1 \in S
  BY <1>1, <1>2
<1> QED
  BY <1>1, <1>2, <1>3

\* f goes from one number to the next, from b, as g says.
Iterates(f, S, b, g) ==
  f \in [Nat -> S] /\ f[0] = b /\ \A n \in Nat : f[n + 1] = g[f[n]]

\* There is a function that does.
LEMMA Recursion ==
  ASSUME NEW S, NEW b \in S, NEW g \in [S -> S]
  PROVE  \E f : Iterates(f, S, b, g)
<1> DEFINE Upto(n) == {h \in [0..n -> S] : h[0] = b /\ \A i \in 0..n-1 : h[i + 1] = g[h[i]]}
<1>1. \A n \in Nat : Upto(n) # {}
  <2> DEFINE T == {n \in Nat : Upto(n) # {}}
  <2>1. 0 \in T
    <3>1. [i \in 0..0 |-> b] \in Upto(0)
      OBVIOUS
    <3> QED
      BY <3>1
  <2>2. ASSUME NEW n \in Nat, n \in T PROVE n + 1 \in T
    <3>1. PICK h \in [0..n -> S] : h[0] = b /\ \A i \in 0..n-1 : h[i + 1] = g[h[i]]
      BY <2>2
    <3> DEFINE k == [i \in 0..n+1 |-> IF i = n + 1 THEN g[h[n]] ELSE h[i]]
    <3>2. k \in [0..n+1 -> S]
      OBVIOUS
    <3>3. k[0] = b
      BY <3>1
    <3>4. ASSUME NEW i \in 0..(n+1)-1 PROVE k[i + 1] = g[k[i]]
      <4>1. CASE i = n
        BY <4>1
      <4>2. CASE i # n
        <5>1. i \in 0..n-1 /\ i + 1 \in 0..n /\ i + 1 # n + 1 /\ i # n + 1
          BY <4>2
        <5>2. k[i] = h[i] /\ k[i + 1] = h[i + 1]
          BY <5>1
        <5> HIDE DEF k
        <5> QED
          BY <3>1, <5>1, <5>2
      <4> QED
        BY <4>1, <4>2
    <3> HIDE DEF k
    <3> QED
      BY <3>2, <3>3, <3>4
  <2> HIDE DEF T
  <2>3. Nat \subseteq T
    BY <2>1, <2>2, Induction
  <2> QED
    BY <2>3 DEF T
<1>2. ASSUME NEW m \in Nat, NEW n \in Nat, m <= n, NEW h \in Upto(m), NEW k \in Upto(n)
      PROVE  h[m] = k[m]
  <2> DEFINE T == {i \in Nat : i <= m => h[i] = k[i]}
  <2>1. 0 \in T
    OBVIOUS
  <2>2. ASSUME NEW i \in Nat, i \in T PROVE i + 1 \in T
    <3> SUFFICES ASSUME i + 1 <= m PROVE h[i + 1] = k[i + 1]
      OBVIOUS
    <3>1. h[i] = k[i] /\ i \in 0..m-1 /\ i \in 0..n-1
      BY <2>2, <1>2
    <3> QED
      BY <3>1
  <2> HIDE DEF T
  <2>3. m \in T
    BY <2>1, <2>2, Induction
  <2> QED
    BY <2>3 DEF T
<1> DEFINE pick == [n \in Nat |-> CHOOSE h \in Upto(n) : TRUE]
           f == [n \in Nat |-> pick[n][n]]
<1>3. \A n \in Nat : pick[n] \in Upto(n)
  BY <1>1
<1> HIDE DEF pick
<1>4. f \in [Nat -> S]
  <2>1. \A n \in Nat : pick[n] \in [0..n -> S] /\ n \in 0..n
    BY <1>3
  <2> QED
    BY <2>1
<1>5. f[0] = b
  BY <1>3
<1>6. ASSUME NEW n \in Nat PROVE f[n + 1] = g[f[n]]
  <2>1. pick[n] \in Upto(n) /\ pick[n + 1] \in Upto(n + 1) /\ n + 1 \in Nat /\ n <= n + 1
    BY <1>3
  <2>2. pick[n + 1][n + 1] = g[pick[n + 1][n]]
    BY <2>1
  <2>3. pick[n][n] = pick[n + 1][n]
    <3> HIDE DEF Upto
    <3> QED
      BY <2>1, <1>2
  <2> QED
    BY <2>1, <2>2, <2>3
<1> HIDE DEF f
<1> QED
  BY <1>4, <1>5, <1>6 DEF Iterates

-----------------------------------------------------------------------------
\* Induction over the subsets of a finite set: P holds them all when it holds
\* each that it holds without any of its elements.
LEMMA SubsetInduction ==
  ASSUME NEW S, IsFiniteSet(S), NEW P,
         \A T \in SUBSET S : (\A x \in T : T \ {x} \in P) => T \in P
  PROVE  SUBSET S \subseteq P
<1> DEFINE N == {n \in Nat : \A T \in SUBSET S : Cardinality(T) <= n => T \in P}
<1>1. \A T \in SUBSET S : IsFiniteSet(T) /\ Cardinality(T) \in Nat
  BY FS_Subset, FS_CardinalityType
<1>2. 0 \in N
  <2> SUFFICES ASSUME NEW T \in SUBSET S, Cardinality(T) <= 0
               PROVE  T \in P
    OBVIOUS
  <2>1. T = {}
    BY <1>1, FS_EmptySet
  <2> QED
    BY <2>1
<1>3. ASSUME NEW n \in Nat, n \in N PROVE n + 1 \in N
  <2> SUFFICES ASSUME NEW T \in SUBSET S, Cardinality(T) <= n + 1
               PROVE  T \in P
    OBVIOUS
  <2>1. ASSUME NEW x \in T PROVE T \ {x} \in P
    <3>1. Cardinality(T \ {x}) = Cardinality(T) - 1
      BY <1>1, FS_RemoveElement
    <3>2. Cardinality(T \ {x}) <= n
      BY <1>1, <3>1
    <3> QED
      BY <1>3, <3>2
  <2> QED
    BY <2>1
<1> HIDE DEF N
<1>4. Cardinality(S) \in N
  BY <1>1, <1>2, <1>3, Induction
<1> QED
  <2> SUFFICES ASSUME NEW T \in SUBSET S
               PROVE  T \in P
    OBVIOUS
  <2>1. Cardinality(T) <= Cardinality(S)
    BY FS_Subset
  <2> QED
    BY <1>4, <2>1 DEF N

-----------------------------------------------------------------------------
(* Sums over finite sets, as the folds of the community modules define them. *)

AnyOf(s) == CHOOSE y \in s : TRUE
SumStep(S, w, h) == [s \in SUBSET S |-> IF s = {} THEN 0 ELSE w[AnyOf(s)] + h[s \ {AnyOf(s)}]]
Sums(S, w) == CHOOSE h : h = SumStep(S, w, h)

\* The sums over the subsets of a finite set are what their recursive
\* definition says.
LEMMA SumsDefined ==
  ASSUME NEW S, IsFiniteSet(S), NEW w \in [S -> Int]
  PROVE  Sums(S, w) \in [SUBSET S -> Int] /\ Sums(S, w) = SumStep(S, w, Sums(S, w))
<1> DEFINE H == [SUBSET S -> Int]
           zero == [s \in SUBSET S |-> 0]
           g == [h \in H |-> SumStep(S, w, h)]
<1>1. \A T \in SUBSET S : IsFiniteSet(T) /\ Cardinality(T) \in Nat /\ Cardinality(T) <= Cardinality(S)
  BY FS_Subset, FS_CardinalityType
<1>2. \A h \in H : SumStep(S, w, h) \in H
  <2> SUFFICES ASSUME NEW h \in H PROVE SumStep(S, w, h) \in H
    OBVIOUS
  <2>1. ASSUME NEW s \in SUBSET S, s # {}
        PROVE  w[AnyOf(s)] + h[s \ {AnyOf(s)}] \in Int
    <3>1. AnyOf(s) \in s
      BY <2>1 DEF AnyOf
    <3> QED
      BY <3>1
  <2> QED
    BY <2>1 DEF SumStep
<1>3. zero \in H /\ g \in [H -> H]
  <2>1. zero \in H
    OBVIOUS
  <2>2. g \in [H -> H]
    <3> HIDE DEF H
    <3> QED
      BY <1>2
  <2> QED
    BY <2>1, <2>2
<1>4. PICK f : Iterates(f, H, zero, g)
  <2> HIDE DEF H, zero, g
  <2> QED
    BY <1>3, Recursion
<1>5. f \in [Nat -> H] /\ f[0] = zero /\ \A n \in Nat : f[n + 1] = SumStep(S, w, f[n])
  BY <1>4 DEF Iterates
<1> DEFINE N == {n \in Nat : \A T \in SUBSET S : Cardinality(T) <= n => f[n + 1][T] = f[n][T]}
<1>6. 0 \in N
  <2> SUFFICES ASSUME NEW T \in SUBSET S, Cardinality(T) <= 0
               PROVE  f[0 + 1][T] = f[0][T]
    OBVIOUS
  <2>1. T = {}
    BY <1>1, FS_EmptySet
  <2>2. f[0 + 1] = SumStep(S, w, f[0]) /\ f[0][T] = 0
    BY <1>5
  <2> QED
    BY <2>1, <2>2 DEF SumStep
<1>7. ASSUME NEW n \in Nat, n \in N PROVE n + 1 \in N
  <2> SUFFICES ASSUME NEW T \in SUBSET S, Cardinality(T) <= n + 1
               PROVE  f[(n + 1) + 1][T] = f[n + 1][T]
    OBVIOUS
  <2>1. f[(n + 1) + 1] = SumStep(S, w, f[n + 1]) /\ f[n + 1] = SumStep(S, w, f[n])
    BY <1>5
  <2>2. CASE T = {}
    BY <2>1, <2>2 DEF SumStep
  <2>3. CASE T # {}
    <3>1. AnyOf(T) \in T
      BY <2>3 DEF AnyOf
    <3>2. Cardinality(T \ {AnyOf(T)}) = Cardinality(T) - 1
      BY <1>1, <3>1, FS_RemoveElement
    <3>3. Cardinality(T \ {AnyOf(T)}) <= n
      BY <1>1, <3>2
    <3>4. f[n + 1][T \ {AnyOf(T)}] = f[n][T \ {AnyOf(T)}]
      BY <1>7, <3>3
    <3> QED
      BY <2>1, <2>3, <3>4 DEF SumStep
  <2> QED
    BY <2>2, <2>3
<1> HIDE DEF N
<1> DEFINE m == Cardinality(S)
<1>8. m \in Nat /\ m \in N
  BY <1>1, <1>6, <1>7, Induction
<1>9. f[m + 1] = SumStep(S, w, f[m]) /\ f[m] \in H /\ f[m + 1] \in H
  BY <1>5, <1>8
<1>10. \A T \in SUBSET S : f[m + 1][T] = f[m][T]
  BY <1>1, <1>8 DEF N
<1>11. f[m + 1] = f[m]
  BY <1>9, <1>10
<1>12. f[m] = SumStep(S, w, f[m])
  BY <1>9, <1>11
<1>13. Sums(S, w) = SumStep(S, w, Sums(S, w))
  BY <1>12, Zenon DEF Sums
<1>14. \A T \in SUBSET S : Sums(S, w)[T] \in Int
  <2> DEFINE P == {T \in SUBSET S : Sums(S, w)[T] \in Int}
  <2>1. ASSUME NEW T \in SUBSET S, \A x \in T : T \ {x} \in P
        PROVE  T \in P
    <3>1. CASE T = {}
      BY <1>13, <3>1 DEF SumStep
    <3>2. CASE T # {}
      <4>1. AnyOf(T) \in T
        BY <3>2 DEF AnyOf
      <4>2. Sums(S, w)[T] = w[AnyOf(T)] + Sums(S, w)[T \ {AnyOf(T)}]
        BY <1>13, <3>2 DEF SumStep
      <4> QED
        BY <2>1, <4>1, <4>2
    <3> QED
      BY <3>1, <3>2
  <2> HIDE DEF P
  <2>2. SUBSET S \subseteq P
    BY <2>1, SubsetInduction
  <2> QED
    BY <2>2 DEF P
<1> QED
  BY <1>13, <1>14 DEF SumStep

\* What the sums over the subsets of S are known by.
Recurs(S, w, h) ==
  /\ h \in [SUBSET S -> Int] /\ h[{}] = 0
  /\ \A T \in SUBSET S : T # {} => /\ AnyOf(T) \in T
                                   /\ h[T] = w[AnyOf(T)] + h[T \ {AnyOf(T)}]
Additive(S, w, h) ==
  /\ h \in [SUBSET S -> Int] /\ h[{}] = 0
  /\ \A T \in SUBSET S : \A x \in S \ T : h[T \cup {x}] = h[T] + w[x]

LEMMA SumsRecur ==
  ASSUME NEW S, IsFiniteSet(S), NEW w \in [S -> Int]
  PROVE  Recurs(S, w, Sums(S, w))
<1> DEFINE h == Sums(S, w)
<1>1. h \in [SUBSET S -> Int] /\ h = SumStep(S, w, h)
  BY SumsDefined
<1> HIDE DEF h
<1>2. SumStep(S, w, h)[{}] = 0
  BY DEF SumStep
<1>3. ASSUME NEW T \in SUBSET S, T # {}
      PROVE  AnyOf(T) \in T /\ SumStep(S, w, h)[T] = w[AnyOf(T)] + h[T \ {AnyOf(T)}]
  BY <1>3 DEF SumStep, AnyOf
<1>4. Recurs(S, w, h)
  BY <1>1, <1>2, <1>3, Zenon DEF Recurs
<1> QED
  BY <1>4 DEF h

\* One element more adds its weight, whichever the sum begins with.
LEMMA SumsAdd ==
  ASSUME NEW S, IsFiniteSet(S), NEW w \in [S -> Int]
  PROVE  Additive(S, w, Sums(S, w))
<1> DEFINE h == Sums(S, w)
           P == {U \in SUBSET S : \A z \in S \ U : h[U \cup {z}] = h[U] + w[z]}
<1>1. Recurs(S, w, h)
  BY SumsRecur
<1> HIDE DEF h
<1>2. /\ h \in [SUBSET S -> Int] /\ h[{}] = 0
      /\ \A V \in SUBSET S : V # {} => AnyOf(V) \in V /\ h[V] = w[AnyOf(V)] + h[V \ {AnyOf(V)}]
  BY <1>1 DEF Recurs
<1>3. ASSUME NEW U \in SUBSET S, \A y \in U : U \ {y} \in P
      PROVE  U \in P
  <2> SUFFICES ASSUME NEW z \in S \ U
               PROVE  h[U \cup {z}] = h[U] + w[z]
    OBVIOUS
  <2>1. PICK V : V = U \cup {z}
    OBVIOUS
  <2>2. PICK y : y = AnyOf(V)
    OBVIOUS
  <2>3. PICK R : R = V \ {y}
    OBVIOUS
  <2>4. y \in V /\ h[V] = w[y] + h[R]
    BY <1>2, <2>1, <2>2, <2>3
  <2>5. ASSUME y = z PROVE h[V] = h[U] + w[z]
    <3>1. R = U
      BY <2>1, <2>3, <2>5
    <3>2. h[U] \in Int /\ w[z] \in Int
      BY <1>2
    <3> QED
      BY <2>4, <2>5, <3>1, <3>2
  <2>6. ASSUME y # z PROVE h[V] = h[U] + w[z]
    <3>1. PICK Q : Q = U \ {y}
      OBVIOUS
    <3>2. y \in U /\ R = Q \cup {z} /\ Q \cup {y} = U /\ Q \in SUBSET S
      BY <2>1, <2>3, <2>4, <2>6, <3>1
    <3>3. Q \in P /\ z \in S \ Q /\ y \in S \ Q
      BY <1>3, <3>1, <3>2
    <3>4. h[Q \cup {z}] = h[Q] + w[z] /\ h[Q \cup {y}] = h[Q] + w[y]
      BY <3>3
    <3>5. h[Q] \in Int /\ w[y] \in Int /\ w[z] \in Int
      BY <1>2, <3>2
    <3>6. h[R] = h[Q] + w[z] /\ h[U] = h[Q] + w[y]
      BY <3>2, <3>4
    <3> QED
      BY <2>4, <3>5, <3>6
  <2>7. h[V] = h[U] + w[z]
    BY <2>5, <2>6, Zenon
  <2> QED
    BY <2>1, <2>7, Zenon
<1> HIDE DEF P
<1>4. SUBSET S \subseteq P
  BY <1>3, SubsetInduction
<1>5. Additive(S, w, h)
  BY <1>2, <1>4 DEF P, Additive
<1> QED
  BY <1>5 DEF h

\* The sum over a set does not depend on the set it is taken in.
LEMMA SumsAgree ==
  ASSUME NEW S, IsFiniteSet(S), NEW w \in [S -> Int], NEW R \in SUBSET S
  PROVE  Sums(R, w)[R] = Sums(S, w)[R]
<1> DEFINE v == [x \in R |-> w[x]]
<1>1. IsFiniteSet(R)
  BY FS_Subset
<1>2. v \in [R -> Int] /\ \A h : SumStep(R, w, h) = SumStep(R, v, h)
  <2>1. v \in [R -> Int]
    OBVIOUS
  <2>2. ASSUME NEW s \in SUBSET R, s # {} PROVE w[AnyOf(s)] = v[AnyOf(s)]
    BY <2>2 DEF AnyOf
  <2> QED
    BY <2>1, <2>2, Zenon DEF SumStep
<1>3. Sums(R, w) = Sums(R, v)
  BY <1>2, Zenon DEF Sums
<1>4. \A x \in R : v[x] = w[x]
  OBVIOUS
<1> HIDE DEF v
<1> DEFINE h == Sums(S, w)
           k == Sums(R, v)
           P == {T \in SUBSET R : k[T] = h[T]}
<1>5. Recurs(S, w, h) /\ Recurs(R, v, k)
  BY <1>1, <1>2, SumsRecur
<1> HIDE DEF h, k
<1>6. /\ h[{}] = 0 /\ k[{}] = 0
      /\ \A V \in SUBSET S : V # {} => AnyOf(V) \in V /\ h[V] = w[AnyOf(V)] + h[V \ {AnyOf(V)}]
      /\ \A V \in SUBSET R : V # {} => AnyOf(V) \in V /\ k[V] = v[AnyOf(V)] + k[V \ {AnyOf(V)}]
  BY <1>5 DEF Recurs
<1>7. ASSUME NEW T \in SUBSET R, \A y \in T : T \ {y} \in P
      PROVE  T \in P
  <2>1. CASE T = {}
    BY <1>6, <2>1
  <2>2. CASE T # {}
    <3>1. PICK y : y = AnyOf(T)
      OBVIOUS
    <3>2. PICK U : U = T \ {y}
      OBVIOUS
    <3>3. y \in T /\ h[T] = w[y] + h[U] /\ k[T] = v[y] + k[U]
      BY <1>6, <2>2, <3>1, <3>2
    <3>4. v[y] = w[y] /\ k[U] = h[U]
      BY <1>4, <1>7, <3>2, <3>3
    <3> QED
      BY <3>3, <3>4
  <2> QED
    BY <2>1, <2>2
<1> HIDE DEF P
<1>8. R \in P
  BY <1>1, <1>7, SubsetInduction
<1>9. k[R] = h[R]
  BY <1>8 DEF P
<1> QED
  BY <1>3, <1>9 DEF h, k
==============================================================================
