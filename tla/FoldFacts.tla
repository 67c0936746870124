------------------------------ MODULE FoldFacts ------------------------------
(***************************************************************************)
(* Folds over finite sets and sequences, for the proofs about updates that *)
(* the code makes by looping over a collection.  A fold of the community   *)
(* modules is a function on subsets that is defined by recursion: such a   *)
(* function exists (SetRecursion), and what it computes is shown for a     *)
(* subset that would be a smallest counterexample (SmallestSubset).        *)
(***************************************************************************)
EXTENDS Naturals, FiniteSetsExt, FiniteSetTheorems, WellFoundedInduction, TLAPS

\* A non-empty set of subsets of a finite set has a smallest member: one that has
\* no other member as a subset.
LEMMA SmallestSubset ==
  ASSUME NEW S, IsFiniteSet(S), NEW T \in SUBSET SUBSET S, T # {}
  PROVE  \E x \in T : \A y \in T : y \subseteq x => y = x
<1>1. IsWellFoundedOn(StrictSubsetOrdering(S), FiniteSubsetsOf(S))
  BY FS_StrictSubsetOrderingWellFounded
<1>2. FiniteSubsetsOf(S) = SUBSET S
  BY FS_FiniteSubsetsOfFinite
<1>3. PICK x \in T : \A y \in T : ~ (<<y, x>> \in StrictSubsetOrdering(S))
  BY <1>1, <1>2, WFMin
<1>4. \A y \in T : y \subseteq x => y = x
  BY <1>3 DEF StrictSubsetOrdering
<1> QED BY <1>4

\* h is the result of the recursion for all subsets of s.
Solves(h, s, base, F, c, A) ==
  /\ h \in [SUBSET s -> A]
  /\ \A u \in SUBSET s : h[u] = IF u = {} THEN base ELSE F[<<c[u], h[u \ {c[u]}]>>]

\* Two solutions agree where both are defined.
LEMMA SolutionsAgree ==
  ASSUME NEW S, IsFiniteSet(S), NEW A, NEW base \in A, NEW F,
         NEW c, \A s \in (SUBSET S) \ {{}} : c[s] \in s,
         NEW s \in SUBSET S, NEW k, NEW h, NEW r \in SUBSET s,
         Solves(k, s, base, F, c, A), Solves(h, r, base, F, c, A)
  PROVE  k[r] = h[r]
<1> DEFINE T == {u \in SUBSET r : k[u] # h[u]}
<1>1. SUFFICES ASSUME T # {} PROVE FALSE
  OBVIOUS
<1>2. IsFiniteSet(r)
  BY FS_Subset
<1>3. PICK u \in T : \A y \in T : y \subseteq u => y = u
  <2>1. T \in SUBSET SUBSET r
    OBVIOUS
  <2> HIDE DEF T
  <2> QED BY <1>1, <1>2, <2>1, SmallestSubset
<1>4. u # {}
  BY <1>3 DEF Solves
<1>5. c[u] \in u
  BY <1>3, <1>4
<1>6. u \ {c[u]} \notin T
  BY <1>3, <1>5
<1>7. k[u \ {c[u]}] = h[u \ {c[u]}]
  BY <1>3, <1>6
<1>8. k[u] = F[<<c[u], k[u \ {c[u]}]>>]
  BY <1>3, <1>4 DEF Solves
<1>9. h[u] = F[<<c[u], h[u \ {c[u]}]>>]
  BY <1>3, <1>4 DEF Solves
<1> QED BY <1>3, <1>7, <1>8, <1>9

\* c takes elements out of the non-empty subsets of S, F adds one to a result.
Recursive(S, A, base, F, c) ==
  /\ IsFiniteSet(S) /\ base \in A /\ F \in [S \X A -> A]
  /\ \A s \in (SUBSET S) \ {{}} : c[s] \in s
Solvable(S, A, base, F, c) ==
  \E h \in [SUBSET S -> A] :
    h = [s \in SUBSET S |-> IF s = {} THEN base ELSE F[<<c[s], h[s \ {c[s]}]>>]]

\* A recursion over the subsets of a finite set that takes out one element at a
\* time has a solution.
LEMMA SetRecursion ==
  ASSUME NEW S, NEW A, NEW base, NEW F, NEW c, Recursive(S, A, base, F, c)
  PROVE  Solvable(S, A, base, F, c)
<1> USE DEF Recursive
<1> DEFINE T == {s \in SUBSET S : \A h : ~ Solves(h, s, base, F, c, A)}
           H(s) == CHOOSE h : Solves(h, s, base, F, c, A)
<1>1. ASSUME T # {} PROVE FALSE
  <2>1. PICK s \in T : \A y \in T : y \subseteq s => y = s
    <3>1. T \in SUBSET SUBSET S
      OBVIOUS
    <3> HIDE DEF T
    <3> QED BY <1>1, <3>1, SmallestSubset
  <2>2. ASSUME NEW u \in SUBSET s, u # s PROVE Solves(H(u), u, base, F, c, A)
    BY <2>1, <2>2
  <2> DEFINE less(u) == u \ {c[u]}
             h == [u \in SUBSET s |-> IF u = {} THEN base ELSE F[<<c[u], H(less(u))[less(u)]>>]]
  <2>3. ASSUME NEW u \in SUBSET s, u # {}
        PROVE  c[u] \in u /\ less(u) \in SUBSET s /\ less(u) # s /\ c[u] \in S
    BY <2>1, <2>3
  <2>4. ASSUME NEW u \in SUBSET s, u # s PROVE H(u)[u] \in A
    <3>1. Solves(H(u), u, base, F, c, A)
      BY <2>2, <2>4
    <3> HIDE DEF H
    <3> QED BY <3>1 DEF Solves
  <2>5. ASSUME NEW u \in SUBSET s, u # {}
        PROVE  F[<<c[u], H(less(u))[less(u)]>>] \in A
    <3>1. H(less(u))[less(u)] \in A
      BY <2>3, <2>4, <2>5
    <3> HIDE DEF H, less
    <3> QED BY <3>1, <2>3, <2>5
  <2>6. h \in [SUBSET s -> A]
    <3> HIDE DEF H
    <3> QED BY <2>5
  <2>7. ASSUME NEW v \in SUBSET s, v # s PROVE h[v] = H(v)[v]
    <3>1. CASE v = {}
      <4>1. Solves(H(v), v, base, F, c, A)
        BY <2>2, <2>7
      <4> HIDE DEF H
      <4> QED BY <3>1, <4>1 DEF Solves
    <3>2. CASE v # {}
      <4>1. c[v] \in v /\ less(v) \in SUBSET v /\ less(v) \in SUBSET s /\ less(v) # s /\ v \in SUBSET S
        BY <2>1, <2>3, <3>2
      <4>2. Solves(H(v), v, base, F, c, A) /\ Solves(H(less(v)), less(v), base, F, c, A)
        BY <2>2, <2>7, <4>1
      <4> HIDE DEF H, less
      <4>3. H(v)[less(v)] = H(less(v))[less(v)]
        BY <4>1, <4>2, SolutionsAgree
      <4>4. H(v)[v] = F[<<c[v], H(v)[less(v)]>>]
        BY <3>2, <4>2 DEF Solves, less
      <4> QED BY <3>2, <4>3, <4>4
    <3> QED BY <3>1, <3>2
  <2>8. ASSUME NEW u \in SUBSET s PROVE h[u] = IF u = {} THEN base ELSE F[<<c[u], h[less(u)]>>]
    <3>1. CASE u = {}
      BY <3>1
    <3>2. CASE u # {}
      <4>1. h[less(u)] = H(less(u))[less(u)]
        BY <2>3, <2>7, <3>2
      <4> HIDE DEF H, less
      <4> QED BY <3>2, <4>1
    <3> QED BY <3>1, <3>2
  <2>9. Solves(h, s, base, F, c, A)
    <3> HIDE DEF h
    <3> QED BY <2>6, <2>8 DEF Solves
  <2> QED BY <2>1, <2>9
<1>2. PICK h : Solves(h, S, base, F, c, A)
  BY <1>1
<1>3. h = [s \in SUBSET S |-> IF s = {} THEN base ELSE F[<<c[s], h[s \ {c[s]}]>>]]
  BY <1>2 DEF Solves
<1> QED BY <1>2, <1>3 DEF Solves, Solvable

Top(u) == \E x \in u : \A y \in u : x >= y
Numbers(u) == u # {} /\ u \subseteq Nat

\* A finite, non-empty set of numbers has a greatest one.
LEMMA TopExists ==
  ASSUME NEW s, IsFiniteSet(s), Numbers(s)
  PROVE  Top(s)
<1> DEFINE T == {u \in SUBSET s : Numbers(u) /\ ~ Top(u)}
<1>1. SUFFICES ASSUME T # {} PROVE FALSE
  OBVIOUS
<1>2. PICK u \in T : \A y \in T : y \subseteq u => y = u
  <2>1. T \in SUBSET SUBSET s
    OBVIOUS
  <2> HIDE DEF T
  <2> QED BY <1>1, <2>1, SmallestSubset
<1>3. PICK x \in u : TRUE
  BY <1>2 DEF Numbers
<1>4. CASE u = {x}
  BY <1>2, <1>3, <1>4 DEF Numbers, Top
<1>5. CASE u # {x}
  <2>1. Numbers(u \ {x}) /\ u \ {x} \notin T
    BY <1>2, <1>3, <1>5 DEF Numbers
  <2>2. PICK m \in u \ {x} : \A y \in u \ {x} : m >= y
    BY <1>2, <2>1 DEF Top
  <2>3. m \in Nat /\ x \in Nat /\ u \in SUBSET Nat
    BY <1>2, <1>3, <2>2 DEF Numbers
  <2>4. \A y \in u : (IF x >= m THEN x ELSE m) >= y
    BY <2>2, <2>3
  <2> QED BY <1>2, <1>3, <2>2, <2>4 DEF Top
<1> QED BY <1>4, <1>5

\* Max chooses a member of such a set.
LEMMA MaxMember ==
  ASSUME NEW s, IsFiniteSet(s), Numbers(s)
  PROVE  Max(s) \in s
BY TopExists DEF Top, Max

\* A non-empty set of numbers has a least one.
LEMMA SmallestNumber ==
  ASSUME NEW T \in SUBSET Nat, T # {}
  PROVE  \E x \in T : \A y \in T : x <= y
<1>1. IsWellFoundedOn(OpToRel(<, Nat), Nat)
  BY NatLessThanWellFounded
<1>2. PICK x \in T : \A y \in T : ~ (<<y, x>> \in OpToRel(<, Nat))
  BY <1>1, WFMin
<1>3. \A y \in T : ~ (y < x)
  BY <1>2 DEF OpToRel
<1> QED BY <1>3

\* F takes the result for i - 1 to the one for i.
StepFunction(n, A, F) == F \in [(1 .. n) \X A -> A]
Iterates(h, n, A, base, F) ==
  /\ h \in [0 .. n -> A]
  /\ h = [i \in 0 .. n |-> IF i = 0 THEN base ELSE F[<<i, h[i - 1]>>]]

\* A recursion over the numbers up to n has a solution.
LEMMA IntervalRecursion ==
  ASSUME NEW n \in Nat, NEW A, NEW base \in A, NEW F, StepFunction(n, A, F)
  PROVE  \E h : Iterates(h, n, A, base, F)
<1> USE DEF StepFunction
<1> DEFINE Last(s, x) == \A k \in 1 .. n : s = 1 .. k => x = k
           c == [s \in SUBSET (1 .. n) |-> CHOOSE x \in s : Last(s, x)]
<1>1. ASSUME NEW s \in (SUBSET (1 .. n)) \ {{}} PROVE \E x \in s : Last(s, x)
  <2>1. CASE \E k \in 1 .. n : s = 1 .. k
    <3>1. PICK k \in 1 .. n : s = 1 .. k
      BY <2>1
    <3>2. \A j \in 1 .. n : 1 .. j = 1 .. k => j = k
      <4> SUFFICES ASSUME NEW j \in 1 .. n, 1 .. j = 1 .. k PROVE j = k
        OBVIOUS
      <4>1. j \in 1 .. k /\ k \in 1 .. j
        OBVIOUS
      <4> QED BY <4>1
    <3>3. k \in s /\ Last(s, k)
      BY <3>1, <3>2
    <3> QED BY <3>3
  <2>2. CASE ~ \E k \in 1 .. n : s = 1 .. k
    BY <2>2
  <2> QED BY <2>1, <2>2
<1>2. \A s \in (SUBSET (1 .. n)) \ {{}} : c[s] \in s /\ Last(s, c[s])
  BY <1>1
<1>3. IsFiniteSet(1 .. n)
  BY FS_Interval
<1> HIDE DEF c
<1>8. \A s \in (SUBSET (1 .. n)) \ {{}} : c[s] \in s
  BY <1>2
<1>4. PICK H \in [SUBSET (1 .. n) -> A] :
        H = [s \in SUBSET (1 .. n) |-> IF s = {} THEN base ELSE F[<<c[s], H[s \ {c[s]}]>>]]
  <2>1. Recursive(1 .. n, A, base, F, c)
    BY <1>3, <1>8 DEF Recursive
  <2>2. Solvable(1 .. n, A, base, F, c)
    BY <2>1, SetRecursion, Zenon
  <2> QED BY <2>2 DEF Solvable
<1> DEFINE h == [i \in 0 .. n |-> H[1 .. i]]
<1>5. h \in [0 .. n -> A]
  <2>1. \A i \in 0 .. n : 1 .. i \in SUBSET (1 .. n)
    OBVIOUS
  <2> QED BY <1>4, <2>1
<1>6. ASSUME NEW i \in 0 .. n PROVE h[i] = IF i = 0 THEN base ELSE F[<<i, h[i - 1]>>]
  <2>1. CASE i = 0
    <3>1. 1 .. i = {}
      BY <2>1
    <3>2. h[i] = H[{}]
      BY <3>1
    <3>3. H[{}] = base
      BY <1>4
    <3> QED BY <2>1, <3>2, <3>3
  <2>2. CASE i # 0
    <3>1. 1 .. i \in (SUBSET (1 .. n)) \ {{}} /\ i \in 1 .. n /\ i - 1 \in 0 .. n
      <4>1. i \in 1 .. i
        BY <2>2
      <4> QED BY <2>2, <4>1
    <3>2. c[1 .. i] = i
      BY <1>2, <3>1
    <3>3. (1 .. i) \ {i} = 1 .. (i - 1)
      BY <3>1
    <3>4. H[1 .. i] = F[<<c[1 .. i], H[(1 .. i) \ {c[1 .. i]}]>>]
      BY <1>4, <3>1
    <3> QED BY <2>2, <3>1, <3>2, <3>3, <3>4
  <2> QED BY <2>1, <2>2
<1>7. h = [i \in 0 .. n |-> IF i = 0 THEN base ELSE F[<<i, h[i - 1]>>]]
  <2> HIDE DEF h
  <2> QED BY <1>5, <1>6
<1> HIDE DEF h
<1> QED BY <1>5, <1>7 DEF Iterates
=============================================================================
