----------------------------- MODULE SumTheorems -----------------------------
(***************************************************************************)
(* What MapThenSumSet computes over any finite set: the sum takes its      *)
(* elements in any order, adds each once, and sees nothing else.           *)
(*                                                                         *)
(* The fold is a recursive function on the subsets of the set.  That it    *)
(* exists, and what it yields, is shown by induction on their size; the    *)
(* induction is that no set of naturals lacks a least element.             *)
(*                                                                         *)
(* From the same fact: where everyone waits, some wait in a knot.          *)
(***************************************************************************)
EXTENDS Integers, FiniteSets, FiniteSetsExt, FiniteSetTheorems, WellFoundedInduction, TLAPS

-----------------------------------------------------------------------------
(* Induction                                                               *)

\* A set of naturals that is not empty has a least element.
LEMMA LeastNatural ==
    ASSUME NEW T \in SUBSET Nat, T # {}
    PROVE  \E n \in T : \A m \in T : n <= m
<1> DEFINE R == {ss \in Nat \X Nat : ss[1] < ss[2]}
<1>1. IsWellFoundedOn(R, Nat)
  BY NatLessThanWellFounded DEF OpToRel
<1>2. \A m, n \in Nat : <<m, n>> \in R <=> m < n
  OBVIOUS
<1> HIDE DEF R
<1>3. PICK n \in T : \A m \in T : ~(<<m, n>> \in R)
  BY <1>1, WFMin
<1>4. \A m \in T : n <= m
  <2>1. n \in Nat /\ \A m \in T : m \in Nat /\ ~(m < n)
    BY <1>2, <1>3
  <2>2. QED
    BY <2>1
<1>5. QED
  BY <1>4

\* Induction on the naturals: a set that has 0 and, with n, n+1, has them all.
LEMMA Induction ==
    ASSUME NEW T, 0 \in T, \A n \in Nat : n \in T => n + 1 \in T
    PROVE  Nat \subseteq T
<1> SUFFICES ASSUME ~(Nat \subseteq T) PROVE FALSE
  OBVIOUS
<1> DEFINE U == Nat \ T
<1>1. U \in SUBSET Nat /\ U # {}
  OBVIOUS
<1>2. PICK n \in U : \A m \in U : n <= m
  BY <1>1, LeastNatural
<1>3. n \in Nat /\ n # 0 /\ n \notin T
  OBVIOUS
<1>4. n - 1 \in Nat /\ n - 1 \notin U
  BY <1>2, <1>3
<1>5. n - 1 \in T /\ (n - 1) + 1 = n
  BY <1>3, <1>4
<1>6. QED
  BY <1>3, <1>4, <1>5

-----------------------------------------------------------------------------
(* The fold                                                                *)

\* The sum of a function over a set.
SumOver(g, S) == MapThenSumSet(LAMBDA x : g[x], S)

\* What is taken from a set, and what h, summing the smaller sets, makes of it.
AnyOf(s) == CHOOSE x \in s : TRUE
SumStep(g, h, s) == IF s = {} THEN 0 ELSE g[AnyOf(s)] + h[s \ {AnyOf(s)}]

\* h sums g over every subset of S.
Summing(g, S, h) == h = [s \in SUBSET S |-> SumStep(g, h, s)]

\* The definitions of the community modules come to this.
LEMMA SumIsChosen ==
    ASSUME NEW g, NEW S
    PROVE  SumOver(g, S) = (CHOOSE h : Summing(g, S, h))[S]
  BY DEF SumOver, MapThenSumSet, MapThenFoldSet, Summing, SumStep, AnyOf

\* The function a sum folds with exists for every finite set.
LEMMA SummingExists ==
    ASSUME NEW g, NEW S, IsFiniteSet(S)
    PROVE  \E h : Summing(g, S, h)
<1> DEFINE Small(n) == {s \in SUBSET S : Cardinality(s) <= n}
           T == {n \in Nat : \E h : h = [s \in Small(n) |-> SumStep(g, h, s)]}
<1>1. \A s \in SUBSET S : IsFiniteSet(s) /\ Cardinality(s) \in Nat
  BY FS_Subset, FS_CardinalityType
<1>2. \A s \in SUBSET S : s # {} =>
        /\ AnyOf(s) \in s /\ s \ {AnyOf(s)} \in SUBSET S
        /\ Cardinality(s \ {AnyOf(s)}) = Cardinality(s) - 1
  BY <1>1, FS_RemoveElement DEF AnyOf
<1>3. 0 \in T
  <2>1. \A s \in Small(0) : s = {}
    BY <1>1, FS_EmptySet
  <2>2. [s \in Small(0) |-> 0] = [s \in Small(0) |-> SumStep(g, [t \in Small(0) |-> 0], s)]
    BY <2>1 DEF SumStep
  <2>3. QED
    BY <2>2
<1>4. ASSUME NEW n \in Nat, n \in T PROVE n + 1 \in T
  <2>1. PICK h : h = [s \in Small(n) |-> SumStep(g, h, s)]
    BY <1>4
  <2> DEFINE U == Small(n + 1)
  <2>0. PICK k : k = [s \in U |-> SumStep(g, h, s)]
    OBVIOUS
  <2>2. ASSUME NEW s \in U, s # {} PROVE s \ {AnyOf(s)} \in Small(n)
    <3>1. s \in SUBSET S /\ Cardinality(s) <= n + 1
      OBVIOUS
    <3>2. /\ s \ {AnyOf(s)} \in SUBSET S /\ Cardinality(s) \in Nat
          /\ Cardinality(s \ {AnyOf(s)}) = Cardinality(s) - 1
      BY <1>1, <1>2, <2>2, <3>1
    <3>3. Cardinality(s \ {AnyOf(s)}) <= n
      BY <3>1, <3>2
    <3>4. QED
      BY <3>2, <3>3
  <2>3. \A s \in Small(n) : s \in Small(n + 1)
    BY <1>1
  <2>4. \A s \in Small(n) : k[s] = h[s]
    <3>1. \A s \in Small(n) : k[s] = SumStep(g, h, s)
      BY <2>0, <2>3
    <3>2. \A s \in Small(n) : h[s] = SumStep(g, h, s)
      BY <2>1
    <3>3. QED
      BY <3>1, <3>2
  <2>5. ASSUME NEW s \in U PROVE SumStep(g, k, s) = SumStep(g, h, s)
    <3>1. s # {} => k[s \ {AnyOf(s)}] = h[s \ {AnyOf(s)}]
      BY <2>2, <2>4
    <3>2. QED
      BY <3>1 DEF SumStep
  <2>6. k = [s \in U |-> SumStep(g, k, s)]
    <3> HIDE DEF U
    <3>1. QED
      BY <2>0, <2>5
  <2>7. \E f : f = [s \in Small(n + 1) |-> SumStep(g, f, s)]
    BY <2>6
  <2>8. QED
    BY <2>7
<1>5. Cardinality(S) \in T
  <2> HIDE DEF T
  <2>1. Nat \subseteq T
    BY <1>3, <1>4, Induction
  <2>2. QED
    BY <1>1, <2>1
<1>6. Small(Cardinality(S)) = SUBSET S
  BY FS_Subset
<1>7. QED
  BY <1>5, <1>6 DEF Summing

\* So the sum is what such a function yields.
LEMMA SumIsSumming ==
    ASSUME NEW g, NEW S, IsFiniteSet(S)
    PROVE  \E h : Summing(g, S, h) /\ SumOver(g, S) = h[S]
  BY SummingExists, SumIsChosen

\* The functions for S and for a set within it agree.
LEMMA SummingAgrees ==
    ASSUME NEW g, NEW S, IsFiniteSet(S), NEW R \in SUBSET S, NEW h, NEW k,
           Summing(g, S, h), Summing(g, R, k)
    PROVE  h[R] = k[R]
<1> DEFINE T == {n \in Nat : \A s \in SUBSET R : Cardinality(s) <= n => h[s] = k[s]}
<1>1. \A s \in SUBSET R : IsFiniteSet(s) /\ Cardinality(s) \in Nat /\ s \in SUBSET S
  BY FS_Subset, FS_CardinalityType
<1>2. \A s \in SUBSET R : s # {} =>
        /\ s \ {AnyOf(s)} \in SUBSET R
        /\ Cardinality(s \ {AnyOf(s)}) = Cardinality(s) - 1
  BY <1>1, FS_RemoveElement DEF AnyOf
<1>3. \A s \in SUBSET R : h[s] = SumStep(g, h, s) /\ k[s] = SumStep(g, k, s)
  BY <1>1 DEF Summing
<1>4. 0 \in T
  <2>1. \A s \in SUBSET R : Cardinality(s) <= 0 => s = {}
    BY <1>1, FS_EmptySet
  <2>2. h[{}] = k[{}]
    BY <1>3 DEF SumStep
  <2>3. QED
    BY <2>1, <2>2
<1>5. ASSUME NEW n \in Nat, n \in T PROVE n + 1 \in T
  <2> SUFFICES ASSUME NEW s \in SUBSET R, Cardinality(s) <= n + 1 PROVE h[s] = k[s]
    OBVIOUS
  <2>1. CASE s = {}
    BY <1>3, <2>1 DEF SumStep
  <2>2. CASE s # {}
    <3>1. h[s \ {AnyOf(s)}] = k[s \ {AnyOf(s)}]
      BY <1>1, <1>2, <1>5, <2>2
    <3>2. QED
      BY <1>3, <2>2, <3>1 DEF SumStep
  <2>3. QED
    BY <2>1, <2>2
<1>6. Cardinality(R) \in T
  <2> HIDE DEF T
  <2>1. Nat \subseteq T
    BY <1>4, <1>5, Induction
  <2>2. QED
    BY <1>1, <2>1
<1>7. QED
  BY <1>1, <1>6

\* A sum of integers is an integer, one of naturals a natural.
LEMMA SummingTyped ==
    ASSUME NEW N \in {Nat, Int}, NEW g, NEW S, IsFiniteSet(S), \A x \in S : g[x] \in N,
           NEW h, Summing(g, S, h)
    PROVE  \A s \in SUBSET S : h[s] \in N
<1> DEFINE T == {n \in Nat : \A s \in SUBSET S : Cardinality(s) <= n => h[s] \in N}
<1>1. \A s \in SUBSET S : IsFiniteSet(s) /\ Cardinality(s) \in Nat
  BY FS_Subset, FS_CardinalityType
<1>2. \A s \in SUBSET S : s # {} =>
        /\ AnyOf(s) \in s /\ s \ {AnyOf(s)} \in SUBSET S
        /\ Cardinality(s \ {AnyOf(s)}) = Cardinality(s) - 1
  BY <1>1, FS_RemoveElement DEF AnyOf
<1>3. \A s \in SUBSET S : h[s] = SumStep(g, h, s)
  BY DEF Summing
<1>4. 0 \in N /\ \A a, b \in N : a + b \in N
  OBVIOUS
<1>5. 0 \in T
  <2>1. \A s \in SUBSET S : Cardinality(s) <= 0 => s = {}
    BY <1>1, FS_EmptySet
  <2>2. h[{}] = 0
    BY <1>3 DEF SumStep
  <2>3. QED
    BY <1>4, <2>1, <2>2
<1>6. ASSUME NEW n \in Nat, n \in T PROVE n + 1 \in T
  <2> SUFFICES ASSUME NEW s \in SUBSET S, Cardinality(s) <= n + 1 PROVE h[s] \in N
    OBVIOUS
  <2>1. CASE s = {}
    BY <1>3, <1>4, <2>1 DEF SumStep
  <2>2. CASE s # {}
    <3>1. h[s \ {AnyOf(s)}] \in N
      BY <1>1, <1>2, <1>6, <2>2
    <3>2. g[AnyOf(s)] \in N
      BY <1>2, <2>2
    <3>3. QED
      BY <1>3, <1>4, <2>2, <3>1, <3>2 DEF SumStep
  <2>3. QED
    BY <2>1, <2>2
<1>7. Nat \subseteq T
  <2> HIDE DEF T
  <2>1. QED
    BY <1>5, <1>6, Induction
<1>8. QED
  BY <1>1, <1>7

\* Any element may be the one that is taken first.
LEMMA SummingCommutes ==
    ASSUME NEW g, NEW S, IsFiniteSet(S), \A x \in S : g[x] \in Int,
           NEW h, Summing(g, S, h)
    PROVE  \A s \in SUBSET S : \A y \in s : h[s] = g[y] + h[s \ {y}]
<1> DEFINE Swaps(s) == \A y \in s : h[s] = g[y] + h[s \ {y}]
           T == {n \in Nat : \A s \in SUBSET S : Cardinality(s) <= n => Swaps(s)}
<1>1. \A s \in SUBSET S : IsFiniteSet(s) /\ Cardinality(s) \in Nat
  BY FS_Subset, FS_CardinalityType
<1>2. \A s \in SUBSET S : \A y \in s :
        /\ s \ {y} \in SUBSET S /\ Cardinality(s \ {y}) = Cardinality(s) - 1
  BY <1>1, FS_RemoveElement
<1>3. \A s \in SUBSET S : s # {} => AnyOf(s) \in s /\ h[s] = g[AnyOf(s)] + h[s \ {AnyOf(s)}]
  BY DEF Summing, SumStep, AnyOf
<1>4. \A s \in SUBSET S : h[s] \in Int
  BY SummingTyped
<1>5. 0 \in T
  <2>1. \A s \in SUBSET S : Cardinality(s) <= 0 => s = {}
    BY <1>1, FS_EmptySet
  <2>2. QED
    BY <2>1
<1>6. ASSUME NEW n \in Nat, n \in T PROVE n + 1 \in T
  <2> SUFFICES ASSUME NEW s \in SUBSET S, Cardinality(s) <= n + 1, NEW y \in s
               PROVE  h[s] = g[y] + h[s \ {y}]
    OBVIOUS
  <2> DEFINE c == AnyOf(s)
  <2>1. c \in s /\ h[s] = g[c] + h[s \ {c}]
    BY <1>3
  <2>2. CASE c # y
    <3>1. Swaps(s \ {c}) /\ Swaps(s \ {y})
      <4>1. \A x \in s : s \ {x} \in SUBSET S /\ Cardinality(s \ {x}) <= n
        BY <1>1, <1>2
      <4>2. QED
        BY <1>6, <2>1, <4>1
    <3> HIDE DEF c
    <3>2. h[s \ {c}] = g[y] + h[(s \ {c}) \ {y}] /\ h[s \ {y}] = g[c] + h[(s \ {y}) \ {c}]
      BY <2>1, <2>2, <3>1
    <3>3. h[(s \ {c}) \ {y}] = h[(s \ {y}) \ {c}]
      <4>1. (s \ {c}) \ {y} = (s \ {y}) \ {c}
        OBVIOUS
      <4>2. QED
        BY <4>1
    <3>4. g[y] \in Int /\ g[c] \in Int /\ h[(s \ {y}) \ {c}] \in Int
      BY <1>4, <2>1
    <3>5. h[s] = g[c] + (g[y] + h[(s \ {y}) \ {c}])
      BY <2>1, <3>2, <3>3
    <3>6. h[s \ {y}] = g[c] + h[(s \ {y}) \ {c}]
      BY <3>2
    <3>7. h[s] = g[y] + (g[c] + h[(s \ {y}) \ {c}])
      BY <3>4, <3>5
    <3>8. QED
      BY <3>6, <3>7
  <2>3. QED
    BY <2>1, <2>2
<1>7. Nat \subseteq T
  <2> HIDE DEF T
  <2>1. QED
    BY <1>5, <1>6, Induction
<1>8. ASSUME NEW s \in SUBSET S PROVE Swaps(s)
  <2>1. Cardinality(s) \in T
    BY <1>1, <1>7
  <2>2. QED
    BY <1>1, <2>1
<1>9. QED
  BY <1>8

-----------------------------------------------------------------------------
(* Sums                                                                    *)

\* Nothing adds up to zero.
LEMMA SumOfNone ==
    ASSUME NEW g
    PROVE  SumOver(g, {}) = 0
<1>1. PICK h : Summing(g, {}, h) /\ SumOver(g, {}) = h[{}]
  BY SumIsSumming, FS_EmptySet
<1>2. QED
  BY <1>1 DEF Summing, SumStep

\* Integers add up to an integer, naturals to a natural.
LEMMA SumTyped ==
    ASSUME NEW N \in {Nat, Int}, NEW g, NEW S, IsFiniteSet(S), \A x \in S : g[x] \in N
    PROVE  SumOver(g, S) \in N
<1>1. PICK h : Summing(g, S, h) /\ SumOver(g, S) = h[S]
  BY SumIsSumming
<1>2. QED
  BY <1>1, SummingTyped

\* Each element is added once.
LEMMA SumAdds ==
    ASSUME NEW g, NEW S, IsFiniteSet(S), \A x \in S : g[x] \in Int, NEW y \in S
    PROVE  SumOver(g, S) = g[y] + SumOver(g, S \ {y})
<1>1. PICK h : Summing(g, S, h) /\ SumOver(g, S) = h[S]
  BY SumIsSumming
<1>2. IsFiniteSet(S \ {y})
  BY FS_RemoveElement
<1>3. PICK k : Summing(g, S \ {y}, k) /\ SumOver(g, S \ {y}) = k[S \ {y}]
  BY <1>2, SumIsSumming
<1>4. h[S \ {y}] = k[S \ {y}]
  BY <1>1, <1>3, SummingAgrees
<1>5. h[S] = g[y] + h[S \ {y}]
  BY <1>1, SummingCommutes
<1>6. QED
  BY <1>1, <1>3, <1>4, <1>5

\* Only the values on the set matter.
LEMMA SumOfSame ==
    ASSUME NEW f, NEW g, NEW S, IsFiniteSet(S), \A x \in S : f[x] = g[x]
    PROVE  SumOver(f, S) = SumOver(g, S)
<1>1. PICK h : Summing(f, S, h) /\ SumOver(f, S) = h[S]
  BY SumIsSumming
<1>2. PICK k : Summing(g, S, k) /\ SumOver(g, S) = k[S]
  BY SumIsSumming
<1>3. \A s \in SUBSET S : SumStep(f, h, s) = SumStep(g, h, s)
  BY DEF SumStep, AnyOf
<1>4. Summing(g, S, h)
  BY <1>1, <1>3 DEF Summing
<1>5. h[S] = k[S]
  BY <1>2, <1>4, SummingAgrees
<1>6. QED
  BY <1>1, <1>2, <1>5

\* A set that gains an element gains its value.
LEMMA SumGrows ==
    ASSUME NEW g, NEW S, IsFiniteSet(S), NEW y, y \notin S, g[y] \in Int,
           \A x \in S : g[x] \in Int
    PROVE  SumOver(g, S \cup {y}) = g[y] + SumOver(g, S)
<1>1. IsFiniteSet(S \cup {y}) /\ (S \cup {y}) \ {y} = S
  BY FS_AddElement
<1>2. QED
  BY <1>1, SumAdds

\* A function that changes at one element changes its sum by as much.
LEMMA SumChanges ==
    ASSUME NEW f, NEW g, NEW S, IsFiniteSet(S), NEW y \in S,
           \A x \in S : f[x] \in Int /\ g[x] \in Int, \A x \in S \ {y} : f[x] = g[x]
    PROVE  SumOver(g, S) = SumOver(f, S) + g[y] - f[y]
<1>1. IsFiniteSet(S \ {y})
  BY FS_RemoveElement
<1>2. SumOver(f, S \ {y}) = SumOver(g, S \ {y})
  BY <1>1, SumOfSame
<1>3. SumOver(f, S) = f[y] + SumOver(f, S \ {y}) /\ SumOver(g, S) = g[y] + SumOver(g, S \ {y})
  BY SumAdds
<1>4. SumOver(f, S \ {y}) \in Int
  BY <1>1, SumTyped
<1>5. QED
  BY <1>2, <1>3, <1>4

\* Zeros add up to zero.
LEMMA SumOfZeros ==
    ASSUME NEW g, NEW S, IsFiniteSet(S), \A x \in S : g[x] = 0
    PROVE  SumOver(g, S) = 0
<1> DEFINE T == {n \in Nat : \A s \in SUBSET S : Cardinality(s) = n => SumOver(g, s) = 0}
<1>1. \A s \in SUBSET S : IsFiniteSet(s) /\ Cardinality(s) \in Nat
  BY FS_Subset, FS_CardinalityType
<1>2. 0 \in T
  <2>1. \A s \in SUBSET S : Cardinality(s) = 0 => s = {}
    BY <1>1, FS_EmptySet
  <2>2. QED
    BY <2>1, SumOfNone
<1>3. ASSUME NEW n \in Nat, n \in T PROVE n + 1 \in T
  <2> SUFFICES ASSUME NEW s \in SUBSET S, Cardinality(s) = n + 1 PROVE SumOver(g, s) = 0
    OBVIOUS
  <2>1. PICK y : y \in s
    BY FS_EmptySet
  <2>2. s \ {y} \in SUBSET S /\ Cardinality(s \ {y}) = n
    <3>1. IsFiniteSet(s)
      BY <1>1
    <3>2. Cardinality(s \ {y}) = Cardinality(s) - 1
      BY <2>1, <3>1, FS_RemoveElement
    <3>3. QED
      BY <3>2
  <2>3. SumOver(g, s) = g[y] + SumOver(g, s \ {y})
    <3>1. IsFiniteSet(s) /\ \A x \in s : g[x] \in Int
      BY <1>1
    <3>2. QED
      BY <2>1, <3>1, SumAdds
  <2>4. SumOver(g, s \ {y}) = 0
    BY <1>3, <2>2
  <2>5. QED
    BY <2>1, <2>3, <2>4
<1>4. Cardinality(S) \in T
  <2> HIDE DEF T
  <2>1. Nat \subseteq T
    BY <1>2, <1>3, Induction
  <2>2. QED
    BY <1>1, <2>1
<1>5. QED
  BY <1>4

-----------------------------------------------------------------------------
(* Waiting                                                                 *)

\* Where each of finitely many waits for another of them, some are in a knot: each waits for
\* one of them and is waited for by one of them.
LEMMA Knot ==
    ASSUME NEW B, IsFiniteSet(B), B # {}, NEW E, \A q \in B : \E p \in B : <<q, p>> \in E
    PROVE  \E S \in SUBSET B :
              /\ S # {}
              /\ \A q \in S : (\E p \in S : <<q, p>> \in E) /\ (\E p \in S : <<p, q>> \in E)
<1> DEFINE Closed == {S \in SUBSET B : S # {} /\ \A q \in S : \E p \in S : <<q, p>> \in E}
           Sizes == {Cardinality(S) : S \in Closed}
<1>1. \A S \in Closed : IsFiniteSet(S) /\ Cardinality(S) \in Nat
  BY FS_Subset, FS_CardinalityType
<1>2. Sizes \in SUBSET Nat /\ Sizes # {}
  <2>1. B \in Closed
    OBVIOUS
  <2>2. QED
    BY <1>1, <2>1
<1>3. PICK n \in Sizes : \A m \in Sizes : n <= m
  <2> HIDE DEF Sizes
  <2>1. QED
    BY <1>2, LeastNatural
<1>4. PICK S \in Closed : Cardinality(S) = n
  OBVIOUS
<1>5. ASSUME NEW q \in S, \A p \in S : <<p, q>> \notin E PROVE FALSE
  <2>1. PICK p \in S : <<q, p>> \in E
    OBVIOUS
  <2>2. p # q /\ p \in S \ {q}
    BY <1>5, <2>1
  <2>3. \A i \in S \ {q} : \E o \in S \ {q} : <<i, o>> \in E
    BY <1>5
  <2>4. S \ {q} \in Closed
    BY <2>2, <2>3
  <2>5. Cardinality(S \ {q}) = Cardinality(S) - 1 /\ Cardinality(S) \in Nat
    BY <1>1, FS_RemoveElement
  <2>6. n <= Cardinality(S \ {q})
    BY <1>3, <2>4
  <2>7. QED
    BY <1>4, <2>5, <2>6
<1>6. QED
  BY <1>4, <1>5
=============================================================================
