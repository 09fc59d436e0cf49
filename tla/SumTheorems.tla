----------------------------- MODULE SumTheorems -----------------------------
(***************************************************************************)
(* Facts about the largest of a set of numbers and about the sum of a      *)
(* function over a finite set, as Max and MapThenSumSet of the community   *)
(* modules compute them: the newest order of a symbol, the units its       *)
(* live orders lock, and the exposure of an account.                       *)
(*                                                                         *)
(* Each induction is on a number and is carried out as the search for a    *)
(* least counterexample.                                                   *)
(***************************************************************************)
EXTENDS Integers, FiniteSets, FiniteSetsExt, FiniteSetTheorems, WellFoundedInduction, TLAPS

-----------------------------------------------------------------------------
(* Least and largest *)

\* A non-empty set of natural numbers has a least element.
LEMMA LeastNat ==
    ASSUME NEW T \in SUBSET Nat, T # {}
    PROVE  \E m \in T : \A k \in T : m <= k
  <1>1. PICK m \in T : \A k \in T : <<k, m>> \notin OpToRel(<, Nat)
    BY WFMin, NatLessThanWellFounded
  <1>2. \A k \in T : ~(k < m)
    BY <1>1 DEF OpToRel
  <1> QED BY <1>2

\* A set of numbers holds all of them when it holds 0 and, with a number, the next.
LEMMA NatSet ==
    ASSUME NEW T, 0 \in T, \A n \in Nat : n \in T => n + 1 \in T
    PROVE  Nat \subseteq T
  <1> SUFFICES ASSUME Nat \ T # {} PROVE FALSE
    OBVIOUS
  <1>1. PICK m \in Nat \ T : \A k \in Nat \ T : m <= k
    BY LeastNat
  <1>2. m # 0 /\ m - 1 \in Nat /\ (m - 1) + 1 = m /\ ~(m <= m - 1)
    BY <1>1
  <1>3. m - 1 \in T
    BY <1>1, <1>2
  <1> QED BY <1>1, <1>2, <1>3

\* The largest of a non-empty, bounded set of numbers.
LEMMA MaxMember ==
    ASSUME NEW N \in Nat, NEW S \in SUBSET (1 .. N), S # {}
    PROVE  Max(S) \in S /\ \A y \in S : Max(S) >= y
  <1> DEFINE T == {k \in Nat : N - k \in S}
  <1>1. T # {}
    <2>1. PICK n \in S : TRUE
      OBVIOUS
    <2>2. N - n \in Nat /\ N - (N - n) = n
      BY <2>1
    <2> QED BY <2>1, <2>2
  <1>2. PICK m \in T : \A k \in T : m <= k
    BY <1>1, LeastNat
  <1>3. \A y \in S : N - m >= y
    <2> SUFFICES ASSUME NEW y \in S PROVE N - m >= y
      OBVIOUS
    <2>1. N - y \in Nat /\ N - (N - y) = y
      OBVIOUS
    <2>2. N - y \in T
      BY <2>1
    <2>3. m <= N - y
      BY <1>2, <2>2
    <2> QED BY <2>1, <2>3
  <1> QED BY <1>2, <1>3 DEF Max

-----------------------------------------------------------------------------
(* Sums *)

\* The sum of q over S.
SumOver(q, S) == MapThenSumSet(LAMBDA i : q[i], S)

\* The equation of the function that adds up q over the subsets of S.
Adds(f, q, S) ==
    f = [s \in SUBSET S |->
            IF s = {} THEN 0 ELSE q[CHOOSE x \in s : TRUE] + f[s \ {CHOOSE x \in s : TRUE}]]

\* The sum is the value of one such function.
LEMMA SumDef ==
    ASSUME NEW q, NEW S
    PROVE  SumOver(q, S) = (CHOOSE f : Adds(f, q, S))[S]
  BY DEF SumOver, MapThenSumSet, MapThenFoldSet, Adds

\* The subsets with at most n elements, and the equation on them.
Small(S, n) == {s \in SUBSET S : Cardinality(s) <= n}
AddsSmall(f, q, S, n) ==
    /\ f \in [Small(S, n) -> Int]
    /\ \A s \in Small(S, n) :
         f[s] = IF s = {} THEN 0 ELSE q[CHOOSE x \in s : TRUE] + f[s \ {CHOOSE x \in s : TRUE}]

\* The rest of a set, once the chosen element is taken out.
LEMMA RestSmaller ==
    ASSUME NEW S, IsFiniteSet(S), NEW s \in SUBSET S, s # {}
    PROVE  /\ (CHOOSE x \in s : TRUE) \in s
           /\ s \ {CHOOSE x \in s : TRUE} \in SUBSET S
           /\ Cardinality(s) \in Nat \ {0}
           /\ Cardinality(s \ {CHOOSE x \in s : TRUE}) = Cardinality(s) - 1
  <1>1. IsFiniteSet(s)
    BY FS_Subset
  <1>2. Cardinality(s) \in Nat /\ Cardinality(s) # 0
    BY <1>1, FS_CardinalityType, FS_EmptySet
  <1>3. \A x \in s : Cardinality(s \ {x}) = Cardinality(s) - 1
    BY <1>1, FS_RemoveElement
  <1>4. (CHOOSE x \in s : TRUE) \in s
    OBVIOUS
  <1> QED BY <1>2, <1>3, <1>4

\* A function that adds up exists, first for the small subsets ...
LEMMA AddsSmallExists ==
    ASSUME NEW S, IsFiniteSet(S), NEW q, \A x \in S : q[x] \in Int
    PROVE  \A n \in Nat : \E f : AddsSmall(f, q, S, n)
  <1> DEFINE T == {n \in Nat : \E f : AddsSmall(f, q, S, n)}
  <1>0. \A s \in SUBSET S : Cardinality(s) \in Nat /\ (Cardinality(s) = 0 <=> s = {})
    BY FS_Subset, FS_CardinalityType, FS_EmptySet
  <1>1. 0 \in T
    <2>1. Small(S, 0) = {{}}
      BY <1>0 DEF Small
    <2>2. AddsSmall([s \in Small(S, 0) |-> 0], q, S, 0)
      BY <2>1 DEF AddsSmall
    <2> QED BY <2>2
  <1>2. ASSUME NEW n \in Nat, n \in T PROVE n + 1 \in T
    <2>1. PICK g : AddsSmall(g, q, S, n)
      BY <1>2
    <2> DEFINE f == [s \in Small(S, n + 1) |->
                       IF s \in Small(S, n) THEN g[s]
                       ELSE q[CHOOSE x \in s : TRUE] + g[s \ {CHOOSE x \in s : TRUE}]]
    <2>2. Small(S, n) \subseteq Small(S, n + 1) /\ {} \in Small(S, n)
      BY <1>0 DEF Small
    <2>3. \A s \in Small(S, n + 1) : s # {} => s \ {CHOOSE x \in s : TRUE} \in Small(S, n)
      BY RestSmaller, <1>0 DEF Small
    <2>4. \A s \in Small(S, n + 1) : s # {} => q[CHOOSE x \in s : TRUE] \in Int
      BY RestSmaller DEF Small
    <2>5. f \in [Small(S, n + 1) -> Int]
      <3>1. \A s \in Small(S, n) : g[s] \in Int
        BY <2>1 DEF AddsSmall
      <3>2. ASSUME NEW s \in Small(S, n + 1) PROVE f[s] \in Int
        <4>1. CASE s \in Small(S, n)
          BY <3>1, <4>1
        <4>2. CASE s \notin Small(S, n)
          <5>1. q[CHOOSE x \in s : TRUE] \in Int /\ g[s \ {CHOOSE x \in s : TRUE}] \in Int
            BY <2>2, <2>3, <2>4, <3>1, <4>2
          <5> QED BY <4>2, <5>1
        <4> QED BY <4>1, <4>2
      <3> QED BY <3>2
    <2>6. \A s \in Small(S, n + 1) :
            f[s] = IF s = {} THEN 0 ELSE q[CHOOSE x \in s : TRUE] + f[s \ {CHOOSE x \in s : TRUE}]
      <3> SUFFICES ASSUME NEW s \in Small(S, n + 1)
                   PROVE f[s] = IF s = {} THEN 0 ELSE q[CHOOSE x \in s : TRUE] + f[s \ {CHOOSE x \in s : TRUE}]
        OBVIOUS
      <3>1. CASE s = {}
        BY <2>1, <2>2, <3>1 DEF AddsSmall
      <3>2. CASE s # {}
        <4>1. f[s \ {CHOOSE x \in s : TRUE}] = g[s \ {CHOOSE x \in s : TRUE}]
          BY <2>2, <2>3, <3>2
        <4>2. f[s] = q[CHOOSE x \in s : TRUE] + g[s \ {CHOOSE x \in s : TRUE}]
          BY <2>1, <3>2 DEF AddsSmall
        <4> QED BY <3>2, <4>1, <4>2
      <3> QED BY <3>1, <3>2
    <2>7. AddsSmall(f, q, S, n + 1)
      <3> HIDE DEF f
      <3> QED BY <2>5, <2>6 DEF AddsSmall
    <2> QED BY <2>7
  <1>3. Nat \subseteq T
    <2> HIDE DEF T
    <2> QED BY <1>1, <1>2, NatSet
  <1> QED BY <1>3

\* ... and so for all.
LEMMA AddsExists ==
    ASSUME NEW S, IsFiniteSet(S), NEW q, \A x \in S : q[x] \in Int
    PROVE  \E f : Adds(f, q, S)
  <1>1. Cardinality(S) \in Nat
    BY FS_CardinalityType
  <1>2. Small(S, Cardinality(S)) = SUBSET S
    BY FS_Subset DEF Small
  <1>3. PICK f : AddsSmall(f, q, S, Cardinality(S))
    BY <1>1, AddsSmallExists
  <1>4. Adds(f, q, S)
    BY <1>2, <1>3 DEF AddsSmall, Adds
  <1> QED BY <1>4

\* What such a function computes is a number ...
LEMMA AddsInt ==
    ASSUME NEW S, IsFiniteSet(S), NEW q, \A x \in S : q[x] \in Int, NEW f, Adds(f, q, S)
    PROVE  \A s \in SUBSET S : f[s] \in Int
  <1> DEFINE T == {n \in Nat : \A s \in SUBSET S : Cardinality(s) = n => f[s] \in Int}
  <1>0. \A s \in SUBSET S : Cardinality(s) \in Nat /\ (Cardinality(s) = 0 <=> s = {})
    BY FS_Subset, FS_CardinalityType, FS_EmptySet
  <1>1. 0 \in T
    BY <1>0 DEF Adds
  <1>2. ASSUME NEW n \in Nat, n \in T PROVE n + 1 \in T
    <2> SUFFICES ASSUME NEW s \in SUBSET S, Cardinality(s) = n + 1 PROVE f[s] \in Int
      OBVIOUS
    <2>1. s # {}
      BY <1>0
    <2>2. /\ q[CHOOSE x \in s : TRUE] \in Int
          /\ s \ {CHOOSE x \in s : TRUE} \in SUBSET S
          /\ Cardinality(s \ {CHOOSE x \in s : TRUE}) = n
      BY <2>1, RestSmaller
    <2>3. f[s \ {CHOOSE x \in s : TRUE}] \in Int
      BY <1>2, <2>2
    <2> QED BY <2>1, <2>2, <2>3 DEF Adds
  <1>3. Nat \subseteq T
    <2> HIDE DEF T
    <2> QED BY <1>1, <1>2, NatSet
  <1> QED BY <1>0, <1>3

\* ... to which every element contributes its share, whichever was chosen first ...
LEMMA AddsRemove ==
    ASSUME NEW S, IsFiniteSet(S), NEW q, \A x \in S : q[x] \in Int, NEW f, Adds(f, q, S)
    PROVE  \A s \in SUBSET S : \A x \in s : f[s] = q[x] + f[s \ {x}]
  <1> DEFINE T == {n \in Nat : \A s \in SUBSET S : Cardinality(s) = n => \A x \in s : f[s] = q[x] + f[s \ {x}]}
  <1>0. /\ \A s \in SUBSET S : Cardinality(s) \in Nat /\ (Cardinality(s) = 0 <=> s = {})
        /\ \A s \in SUBSET S : f[s] \in Int
        /\ \A s \in SUBSET S : \A x \in s : Cardinality(s \ {x}) = Cardinality(s) - 1
    BY AddsInt, FS_Subset, FS_CardinalityType, FS_EmptySet, FS_RemoveElement
  <1>1. 0 \in T
    BY <1>0
  <1>2. ASSUME NEW n \in Nat, n \in T PROVE n + 1 \in T
    <2> SUFFICES ASSUME NEW s \in SUBSET S, Cardinality(s) = n + 1, NEW x \in s PROVE f[s] = q[x] + f[s \ {x}]
      OBVIOUS
    <2>1. PICK c : c = CHOOSE y \in s : TRUE
      OBVIOUS
    <2>2. c \in s /\ f[s] = q[c] + f[s \ {c}]
      <3>1. c \in s
        BY <2>1
      <3> QED BY <2>1, <3>1 DEF Adds
    <2>3. CASE c = x
      BY <2>2, <2>3
    <2>4. CASE c # x
      <3>1. Cardinality(s \ {c}) = n /\ Cardinality(s \ {x}) = n
        BY <1>0, <2>2
      <3>0. x \in s \ {c} /\ c \in s \ {x} /\ s \ {c} \in SUBSET S /\ s \ {x} \in SUBSET S
        BY <2>2, <2>4
      <3>2. f[s \ {c}] = q[x] + f[(s \ {c}) \ {x}]
        BY <1>2, <3>0, <3>1
      <3>3. f[s \ {x}] = q[c] + f[(s \ {x}) \ {c}]
        BY <1>2, <3>0, <3>1
      <3>4. (s \ {c}) \ {x} = (s \ {x}) \ {c} /\ (s \ {c}) \ {x} \in SUBSET S
        OBVIOUS
      <3>5. q[x] \in Int /\ q[c] \in Int /\ f[(s \ {c}) \ {x}] \in Int
        BY <1>0, <2>2, <3>4
      <3>6. PICK a \in Int, b \in Int, d \in Int : a = q[x] /\ b = q[c] /\ d = f[(s \ {c}) \ {x}]
        BY <3>5
      <3>7. f[s] = b + (a + d) /\ f[s \ {x}] = b + d
        BY <2>2, <3>2, <3>3, <3>4, <3>6
      <3> QED BY <3>6, <3>7
    <2> QED BY <2>3, <2>4
  <1>3. Nat \subseteq T
    <2> HIDE DEF T
    <2> QED BY <1>1, <1>2, NatSet
  <1> QED BY <1>0, <1>3

\* ... and which depends on nothing but the values added up.
LEMMA AddsAgree ==
    ASSUME NEW S, IsFiniteSet(S), NEW q, \A x \in S : q[x] \in Int, NEW f, Adds(f, q, S),
           NEW R \in SUBSET S, NEW r, \A x \in R : r[x] \in Int, NEW g, Adds(g, r, R), \A x \in R : q[x] = r[x]
    PROVE  \A s \in SUBSET R : f[s] = g[s]
  <1> DEFINE T == {n \in Nat : \A s \in SUBSET R : Cardinality(s) = n => f[s] = g[s]}
  <1>0. \A s \in SUBSET S : Cardinality(s) \in Nat /\ (Cardinality(s) = 0 <=> s = {})
    BY FS_Subset, FS_CardinalityType, FS_EmptySet
  <1>1. 0 \in T
    BY <1>0 DEF Adds
  <1>2. ASSUME NEW n \in Nat, n \in T PROVE n + 1 \in T
    <2> SUFFICES ASSUME NEW s \in SUBSET R, Cardinality(s) = n + 1 PROVE f[s] = g[s]
      OBVIOUS
    <2>1. s # {} /\ s \in SUBSET S
      BY <1>0
    <2>2. PICK c : c = CHOOSE y \in s : TRUE
      OBVIOUS
    <2>3. c \in s /\ Cardinality(s \ {c}) = n
      BY <2>1, <2>2, RestSmaller
    <2>4. f[s] = q[c] + f[s \ {c}] /\ g[s] = r[c] + g[s \ {c}]
      BY <2>1, <2>2 DEF Adds
    <2>5. f[s \ {c}] = g[s \ {c}] /\ q[c] = r[c]
      BY <1>2, <2>3
    <2> QED BY <2>4, <2>5
  <1>3. Nat \subseteq T
    <2> HIDE DEF T
    <2> QED BY <1>1, <1>2, NatSet
  <1> QED BY <1>0, <1>3

\* The sum of numbers over a finite set is a number; over no element it is 0.
THEOREM SumInt ==
    ASSUME NEW S, IsFiniteSet(S), NEW q, \A x \in S : q[x] \in Int
    PROVE  SumOver(q, S) \in Int /\ (S = {} => SumOver(q, S) = 0)
  <1>1. PICK f : f = CHOOSE g : Adds(g, q, S)
    OBVIOUS
  <1>2. Adds(f, q, S) /\ SumOver(q, S) = f[S]
    BY <1>1, AddsExists, SumDef
  <1>3. f[S] \in Int
    BY <1>2, AddsInt
  <1>4. S = {} => f[S] = 0
    BY <1>2 DEF Adds
  <1> QED BY <1>2, <1>3, <1>4

\* Sums of equal values over the same set are equal.
THEOREM SumEqual ==
    ASSUME NEW S, IsFiniteSet(S), NEW q, \A x \in S : q[x] \in Int, NEW r, \A x \in S : q[x] = r[x]
    PROVE  SumOver(q, S) = SumOver(r, S)
  <1>1. PICK f : f = CHOOSE g : Adds(g, q, S)
    OBVIOUS
  <1>2. PICK g : g = CHOOSE h : Adds(h, r, S)
    OBVIOUS
  <1>3. Adds(f, q, S) /\ SumOver(q, S) = f[S]
    BY <1>1, AddsExists, SumDef
  <1>4. Adds(g, r, S) /\ SumOver(r, S) = g[S]
    BY <1>2, AddsExists, SumDef
  <1> QED BY <1>3, <1>4, AddsAgree

\* An element contributes its value.
THEOREM SumRemove ==
    ASSUME NEW S, IsFiniteSet(S), NEW q, \A x \in S : q[x] \in Int, NEW x \in S,
           NEW r, \A y \in S \ {x} : r[y] = q[y]
    PROVE  SumOver(q, S) = q[x] + SumOver(r, S \ {x})
  <1>0. IsFiniteSet(S \ {x}) /\ S \ {x} \in SUBSET S
    BY FS_RemoveElement
  <1>1. PICK f : f = CHOOSE g : Adds(g, q, S)
    OBVIOUS
  <1>2. PICK g : g = CHOOSE h : Adds(h, r, S \ {x})
    OBVIOUS
  <1>3. Adds(f, q, S) /\ SumOver(q, S) = f[S]
    BY <1>1, AddsExists, SumDef
  <1>4. Adds(g, r, S \ {x}) /\ SumOver(r, S \ {x}) = g[S \ {x}]
    BY <1>0, <1>2, AddsExists, SumDef
  <1>5. f[S] = q[x] + f[S \ {x}]
    BY <1>3, AddsRemove
  <1>6. f[S \ {x}] = g[S \ {x}]
    BY <1>0, <1>3, <1>4, AddsAgree
  <1> QED BY <1>3, <1>4, <1>5, <1>6

\* More elements, a larger sum, when no value is negative.
LEMMA AddsMonotonic ==
    ASSUME NEW S, IsFiniteSet(S), NEW q, \A x \in S : q[x] \in Nat, NEW f, Adds(f, q, S)
    PROVE  \A s \in SUBSET S : \A t \in SUBSET s : f[t] <= f[s]
  <1> DEFINE T == {n \in Nat : \A s \in SUBSET S : Cardinality(s) = n => \A t \in SUBSET s : f[t] <= f[s]}
  <1>0. /\ \A s \in SUBSET S : Cardinality(s) \in Nat /\ (Cardinality(s) = 0 <=> s = {})
        /\ \A s \in SUBSET S : f[s] \in Int
        /\ \A s \in SUBSET S : \A x \in s : Cardinality(s \ {x}) = Cardinality(s) - 1
    <2>1. \A y \in S : q[y] \in Int
      OBVIOUS
    <2> QED BY <2>1, AddsInt, FS_Subset, FS_CardinalityType, FS_EmptySet, FS_RemoveElement
  <1>1. 0 \in T
    <2> SUFFICES ASSUME NEW s \in SUBSET S, s = {}, NEW t \in SUBSET s PROVE f[t] <= f[s]
      BY <1>0
    <2>1. t = s /\ f[s] \in Int
      BY <1>0
    <2> QED BY <2>1
  <1>2. ASSUME NEW n \in Nat, n \in T PROVE n + 1 \in T
    <2> SUFFICES ASSUME NEW s \in SUBSET S, Cardinality(s) = n + 1, NEW t \in SUBSET s PROVE f[t] <= f[s]
      OBVIOUS
    <2>1. CASE t = s
      BY <1>0, <2>1
    <2>2. CASE t # s
      <3>1. PICK x \in s : x \notin t
        BY <2>2
      <3>2. f[s] = q[x] + f[s \ {x}]
        <4>1. \A y \in S : q[y] \in Int
          OBVIOUS
        <4> QED BY <4>1, AddsRemove
      <3>3. Cardinality(s \ {x}) = n /\ t \in SUBSET (s \ {x}) /\ s \ {x} \in SUBSET S
        BY <1>0, <3>1
      <3>4. f[t] <= f[s \ {x}]
        BY <1>2, <3>3
      <3>5. q[x] \in Nat /\ f[s \ {x}] \in Int /\ f[t] \in Int
        BY <1>0, <3>3
      <3> QED BY <3>2, <3>4, <3>5
    <2> QED BY <2>1, <2>2
  <1>3. Nat \subseteq T
    <2> HIDE DEF T
    <2> QED BY <1>1, <1>2, NatSet
  <1> QED BY <1>0, <1>3

\* A part of a set of natural values adds up to no more than the whole, and to no less than 0.
THEOREM SumMonotonic ==
    ASSUME NEW S, IsFiniteSet(S), NEW q, \A x \in S : q[x] \in Nat,
           NEW R \in SUBSET S, NEW r, \A x \in R : r[x] = q[x]
    PROVE  SumOver(r, R) <= SumOver(q, S) /\ SumOver(q, S) \in Nat
  <1>0. IsFiniteSet(R) /\ \A x \in R : r[x] \in Int
    BY FS_Subset
  <1>1. PICK f : f = CHOOSE g : Adds(g, q, S)
    OBVIOUS
  <1>2. PICK g : g = CHOOSE h : Adds(h, r, R)
    OBVIOUS
  <1>3. Adds(f, q, S) /\ SumOver(q, S) = f[S]
    BY <1>1, AddsExists, SumDef
  <1>4. Adds(g, r, R) /\ SumOver(r, R) = g[R]
    BY <1>0, <1>2, AddsExists, SumDef
  <1>5. f[R] = g[R]
    BY <1>0, <1>3, <1>4, AddsAgree
  <1>6. f[R] <= f[S] /\ f[{}] <= f[S]
    BY <1>3, AddsMonotonic
  <1>7. f[{}] = 0
    BY <1>3 DEF Adds
  <1>8. f[S] \in Int
    BY <1>3, AddsInt
  <1> QED BY <1>3, <1>4, <1>5, <1>6, <1>7, <1>8

\* A set of values adds up to what its parts add up to.
THEOREM SumSplit ==
    ASSUME NEW S, IsFiniteSet(S), NEW q, \A x \in S : q[x] \in Int, NEW R \in SUBSET S
    PROVE  SumOver(q, S) = SumOver(q, R) + SumOver(q, S \ R)
  <1> DEFINE T == {n \in Nat : \A s \in SUBSET S : Cardinality(s) = n =>
                                 SumOver(q, S) = SumOver(q, s) + SumOver(q, S \ s)}
  <1>0. /\ \A s \in SUBSET S : IsFiniteSet(s) /\ Cardinality(s) \in Nat /\ (Cardinality(s) = 0 <=> s = {})
        /\ \A s \in SUBSET S : \A x \in s : Cardinality(s \ {x}) = Cardinality(s) - 1
    BY FS_Subset, FS_CardinalityType, FS_EmptySet, FS_RemoveElement
  <1>a. \A s \in SUBSET S : SumOver(q, s) \in Int /\ (s = {} => SumOver(q, s) = 0)
    BY <1>0, SumInt
  <1>1. 0 \in T
    <2> SUFFICES ASSUME NEW s \in SUBSET S, s = {} PROVE SumOver(q, S) = SumOver(q, s) + SumOver(q, S \ s)
      BY <1>0
    <2>1. S \ s = S /\ SumOver(q, s) = 0 /\ SumOver(q, S) \in Int
      BY <1>a
    <2> QED BY <2>1
  <1>2. ASSUME NEW n \in Nat, n \in T PROVE n + 1 \in T
    <2> SUFFICES ASSUME NEW s \in SUBSET S, Cardinality(s) = n + 1
                 PROVE  SumOver(q, S) = SumOver(q, s) + SumOver(q, S \ s)
      OBVIOUS
    <2>1. PICK x \in s : TRUE
      BY <1>0
    <2>2. PICK r : r = s \ {x}
      OBVIOUS
    <2>3. r \in SUBSET S /\ Cardinality(r) = n
      BY <1>0, <2>2
    <2>4. SumOver(q, S) = SumOver(q, r) + SumOver(q, S \ r)
      BY <1>2, <2>3
    <2>5. SumOver(q, s) = q[x] + SumOver(q, r)
      BY <1>0, <2>2, SumRemove
    <2>6. SumOver(q, S \ r) = q[x] + SumOver(q, S \ s)
      <3>1. x \in S \ r /\ (S \ r) \ {x} = S \ s /\ S \ r \in SUBSET S
        BY <2>2
      <3>2. IsFiniteSet(S \ r) /\ \A y \in S \ r : q[y] \in Int
        BY <1>0, <3>1
      <3>3. SumOver(q, S \ r) = q[x] + SumOver(q, (S \ r) \ {x})
        BY <3>1, <3>2, SumRemove
      <3> QED BY <3>1, <3>3
    <2>7. PICK a \in Int, b \in Int, d \in Int : a = q[x] /\ b = SumOver(q, r) /\ d = SumOver(q, S \ s)
      BY <1>a, <2>3
    <2>8. SumOver(q, S) = b + (a + d) /\ SumOver(q, s) = a + b
      BY <2>4, <2>5, <2>6, <2>7
    <2> QED BY <2>7, <2>8
  <1>3. Nat \subseteq T
    <2> HIDE DEF T
    <2> QED BY <1>1, <1>2, NatSet
  <1> QED BY <1>0, <1>3

\* Larger values, a larger sum.
THEOREM SumPointwise ==
    ASSUME NEW S, IsFiniteSet(S), NEW q, NEW r,
           \A x \in S : q[x] \in Int /\ r[x] \in Int /\ q[x] <= r[x]
    PROVE  SumOver(q, S) <= SumOver(r, S)
  <1> DEFINE T == {n \in Nat : \A s \in SUBSET S : Cardinality(s) = n => SumOver(q, s) <= SumOver(r, s)}
  <1>0. /\ \A s \in SUBSET S : IsFiniteSet(s) /\ Cardinality(s) \in Nat /\ (Cardinality(s) = 0 <=> s = {})
        /\ \A s \in SUBSET S : \A x \in s : Cardinality(s \ {x}) = Cardinality(s) - 1
    BY FS_Subset, FS_CardinalityType, FS_EmptySet, FS_RemoveElement
  <1>a. \A s \in SUBSET S : SumOver(q, s) \in Int /\ (s = {} => SumOver(q, s) = 0)
    <2>1. \A y \in S : q[y] \in Int
      OBVIOUS
    <2> QED BY <1>0, <2>1, SumInt
  <1>b. \A s \in SUBSET S : SumOver(r, s) \in Int /\ (s = {} => SumOver(r, s) = 0)
    <2>1. \A y \in S : r[y] \in Int
      OBVIOUS
    <2> QED BY <1>0, <2>1, SumInt
  <1>1. 0 \in T
    BY <1>0, <1>a, <1>b
  <1>2. ASSUME NEW n \in Nat, n \in T PROVE n + 1 \in T
    <2> SUFFICES ASSUME NEW s \in SUBSET S, Cardinality(s) = n + 1 PROVE SumOver(q, s) <= SumOver(r, s)
      OBVIOUS
    <2>1. PICK x \in s : TRUE
      BY <1>0
    <2>2. s \ {x} \in SUBSET S /\ Cardinality(s \ {x}) = n
      BY <1>0
    <2>3. SumOver(q, s \ {x}) <= SumOver(r, s \ {x})
      BY <1>2, <2>2
    <2>4. SumOver(q, s) = q[x] + SumOver(q, s \ {x})
      <3>1. \A y \in s : q[y] \in Int
        OBVIOUS
      <3> QED BY <1>0, <3>1, SumRemove
    <2>5. SumOver(r, s) = r[x] + SumOver(r, s \ {x})
      <3>1. \A y \in s : r[y] \in Int
        OBVIOUS
      <3> QED BY <1>0, <3>1, SumRemove
    <2>6. /\ q[x] \in Int /\ r[x] \in Int /\ q[x] <= r[x]
          /\ SumOver(q, s \ {x}) \in Int /\ SumOver(r, s \ {x}) \in Int
      BY <1>a, <1>b, <2>2
    <2> QED BY <2>3, <2>4, <2>5, <2>6
  <1>3. Nat \subseteq T
    <2> HIDE DEF T
    <2> QED BY <1>1, <1>2, NatSet
  <1> QED BY <1>0, <1>3

\* Nothing to add, no sum.
THEOREM SumZero ==
    ASSUME NEW S, IsFiniteSet(S), NEW q, \A x \in S : q[x] = 0
    PROVE  SumOver(q, S) = 0
  <1>1. \A x \in S : q[x] \in Int
    OBVIOUS
  <1> DEFINE T == {n \in Nat : \A s \in SUBSET S : Cardinality(s) = n => SumOver(q, s) = 0}
  <1>0. /\ \A s \in SUBSET S : IsFiniteSet(s) /\ Cardinality(s) \in Nat /\ (Cardinality(s) = 0 <=> s = {})
        /\ \A s \in SUBSET S : \A x \in s : Cardinality(s \ {x}) = Cardinality(s) - 1
    BY FS_Subset, FS_CardinalityType, FS_EmptySet, FS_RemoveElement
  <1>2. 0 \in T
    BY <1>0, <1>1, SumInt
  <1>3. ASSUME NEW n \in Nat, n \in T PROVE n + 1 \in T
    <2> SUFFICES ASSUME NEW s \in SUBSET S, Cardinality(s) = n + 1 PROVE SumOver(q, s) = 0
      OBVIOUS
    <2>1. PICK x \in s : TRUE
      BY <1>0
    <2>2. s \ {x} \in SUBSET S /\ Cardinality(s \ {x}) = n
      BY <1>0
    <2>3. SumOver(q, s \ {x}) = 0
      BY <1>3, <2>2
    <2>4. IsFiniteSet(s) /\ \A y \in s : q[y] \in Int
      BY <1>0, <1>1
    <2>5. SumOver(q, s) = q[x] + SumOver(q, s \ {x})
      BY <2>4, SumRemove
    <2> QED BY <1>1, <2>3, <2>5
  <1>4. Nat \subseteq T
    <2> HIDE DEF T
    <2> QED BY <1>2, <1>3, NatSet
  <1> QED BY <1>0, <1>4
=============================================================================
