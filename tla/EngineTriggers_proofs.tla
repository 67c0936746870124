----------------------- MODULE EngineTriggers_proofs -----------------------
(***************************************************************************)
(* Theorems about the triggers of EngineUpdate: all that it keeps has its  *)
(* type (TypeCorrect), no change of a published table is missed            *)
(* (ChangesReachTriggers), and every action table has a trigger that       *)
(* executes its action (ActionsHaveTriggers).                              *)
(*                                                                         *)
(* An update looks for the relevant triggers in an index that belongs to   *)
(* the rules of before.  That is enough because a table depends only on    *)
(* what is reachable from it (ReachableClosed): if none of its             *)
(* dependencies of before is the head of a changed rule or has changed     *)
(* data, then they are its dependencies afterwards, too, and its contents  *)
(* stay (SameContents).                                                    *)
(***************************************************************************)
EXTENDS EngineUpdate_proofs

-----------------------------------------------------------------------------
(***************************************************************************)
(* What is reachable.                                                      *)
(***************************************************************************)
\* X is left by no edge of E.
ClosedUnder(E, X) == \A e \in E : e[1] \in X => e[2] \in X

\* A step along the edges of such a set stays in it, and the other way round.
LEMMA ClosedStep ==
  ASSUME NEW E, NEW X
  PROVE  ClosedUnder(E, X) <=> StepAlong(E, X) = X
BY DEF ClosedUnder, StepAlong

\* The roots are reachable.
LEMMA ReachableRoots ==
  ASSUME NEW E \in SUBSET Edge, NEW roots \in SUBSET Table
  PROVE  roots \subseteq Reachable(E, roots) /\ Reachable(E, roots) \subseteq Table
<1> DEFINE n == Cardinality(Table)
<1>1. n \in Nat
  BY FiniteTable
<1>2. PICK h \in [0 .. n -> SUBSET Table] : Chain(h, E, roots) /\ Reachable(E, roots) = h[n]
  BY ReachableChain
<1> DEFINE B == {i \in 0 .. n : ~ (roots \subseteq h[i])}
<1>3. h[0] = roots /\ \A i \in 1 .. n : h[i] = StepAlong(E, h[i - 1])
  BY <1>2 DEF Chain
<1> HIDE DEF n
<1>4. ASSUME B # {} PROVE FALSE
  <2>1. B \in SUBSET Nat
    BY <1>1
  <2>2. PICK i \in B : \A y \in B : i <= y
    <3> HIDE DEF B
    <3> QED BY <1>4, <2>1, SmallestNumber
  <2>3. i \in 1 .. n
    BY <1>1, <1>3, <2>2
  <2>4. i - 1 \in 0 .. n /\ ~ (i <= i - 1)
    BY <1>1, <2>3
  <2>5. roots \subseteq h[i - 1]
    BY <2>2, <2>4
  <2> QED BY <1>3, <2>2, <2>3, <2>5 DEF StepAlong
<1>5. n \in 0 .. n
  BY <1>1
<1> QED BY <1>2, <1>4, <1>5

\* Nothing is reachable outside of a set that has the roots and that no edge leaves.
LEMMA ReachableLeast ==
  ASSUME NEW E \in SUBSET Edge, NEW roots \in SUBSET Table, NEW X,
         roots \subseteq X, ClosedUnder(E, X)
  PROVE  Reachable(E, roots) \subseteq X
<1> DEFINE n == Cardinality(Table)
<1>1. n \in Nat
  BY FiniteTable
<1>2. PICK h \in [0 .. n -> SUBSET Table] : Chain(h, E, roots) /\ Reachable(E, roots) = h[n]
  BY ReachableChain
<1> DEFINE B == {i \in 0 .. n : ~ (h[i] \subseteq X)}
<1>3. h[0] = roots /\ \A i \in 1 .. n : h[i] = StepAlong(E, h[i - 1])
  BY <1>2 DEF Chain
<1> HIDE DEF n
<1>4. ASSUME B # {} PROVE FALSE
  <2>1. B \in SUBSET Nat
    BY <1>1
  <2>2. PICK i \in B : \A y \in B : i <= y
    <3> HIDE DEF B
    <3> QED BY <1>4, <2>1, SmallestNumber
  <2>3. i \in 1 .. n
    BY <1>1, <1>3, <2>2
  <2>4. i - 1 \in 0 .. n /\ ~ (i <= i - 1)
    BY <1>1, <2>3
  <2>5. h[i - 1] \subseteq X
    BY <2>2, <2>4
  <2> QED BY <1>3, <2>2, <2>3, <2>5 DEF StepAlong, ClosedUnder
<1>5. n \in 0 .. n
  BY <1>1
<1> QED BY <1>2, <1>4, <1>5

\* No edge leaves what is reachable: the chain grows by a table in each step until it
\* stays, and has as many steps as there are tables.
LEMMA ReachableClosed ==
  ASSUME NEW E \in SUBSET Edge, NEW roots \in SUBSET Table
  PROVE  ClosedUnder(E, Reachable(E, roots))
<1> DEFINE n == Cardinality(Table)
<1>1. n \in Nat /\ IsFiniteSet(Table)
  BY FiniteTable
<1>2. PICK h \in [0 .. n -> SUBSET Table] : Chain(h, E, roots) /\ Reachable(E, roots) = h[n]
  BY ReachableChain
<1>3. h[0] = roots /\ \A i \in 1 .. n : h[i] = StepAlong(E, h[i - 1])
  BY <1>2 DEF Chain
<1>4. \A X \in SUBSET Table : Cardinality(X) >= n => X = Table
  <2> SUFFICES ASSUME NEW X \in SUBSET Table, Cardinality(X) >= n PROVE X = Table
    OBVIOUS
  <2>1. IsFiniteSet(X) /\ Cardinality(X) <= n /\ (n = Cardinality(X) => X = Table)
    BY <1>1, FS_Subset
  <2>2. Cardinality(X) \in Nat
    BY <2>1, FS_CardinalityType
  <2> HIDE DEF n
  <2> QED BY <1>1, <2>1, <2>2
<1>5. ClosedUnder(E, Table)
  BY EdgeShape DEF ClosedUnder
<1> HIDE DEF n
<1> DEFINE Good(i) == ClosedUnder(E, h[i]) \/ Cardinality(h[i]) >= i
           B == {i \in 0 .. n : ~ Good(i)}
<1>6. ASSUME B # {} PROVE FALSE
  <2>1. B \in SUBSET Nat
    BY <1>1
  <2>2. PICK i \in B : \A y \in B : i <= y
    <3> HIDE DEF B
    <3> QED BY <1>6, <2>1, SmallestNumber
  <2>3. i # 0
    <3>1. Cardinality(h[0]) \in Nat
      BY <1>1, FS_Subset, FS_CardinalityType
    <3> QED BY <2>2, <3>1
  <2>4. i \in 1 .. n /\ i - 1 \in 0 .. n /\ ~ (i <= i - 1)
    BY <1>1, <2>2, <2>3
  <2>5. Good(i - 1)
    BY <2>2, <2>4
  <2> DEFINE x == h[i - 1]
             y == h[i]
  <2>6. x \in SUBSET Table /\ y \in SUBSET Table /\ y = StepAlong(E, x)
    BY <1>3, <2>4
  <2>7. ~ ClosedUnder(E, y) /\ ~ (Cardinality(y) >= i)
    BY <2>2
  <2>8. ClosedUnder(E, x) \/ Cardinality(x) >= i - 1
    BY <2>5
  <2> HIDE DEF x, y
  <2>9. ~ ClosedUnder(E, x) /\ x # y
    BY <2>6, <2>7, ClosedStep
  <2>10. IsFiniteSet(y) /\ x \in SUBSET y
    BY <1>1, <2>6, FS_Subset DEF StepAlong
  <2>11. IsFiniteSet(x) /\ Cardinality(x) <= Cardinality(y) /\ (Cardinality(y) = Cardinality(x) => x = y)
    BY <2>10, FS_Subset
  <2>12. Cardinality(x) \in Nat /\ Cardinality(y) \in Nat
    BY <2>10, <2>11, FS_CardinalityType
  <2> QED BY <2>4, <2>7, <2>8, <2>9, <2>11, <2>12
<1>7. n \in 0 .. n
  BY <1>1
<1>8. ClosedUnder(E, h[n]) \/ Cardinality(h[n]) >= n
  BY <1>6, <1>7
<1>9. h[n] \in SUBSET Table
  BY <1>7
<1> QED BY <1>2, <1>4, <1>5, <1>8, <1>9

\* In a graph that counts the rules R, a table's dependencies are what is reachable
\* from it, whether or not it is a node.
LEMMA DependenciesReachable ==
  ASSUME NEW g \in Graph, NEW R \in [Policy -> SUBSET Rule], Exact(g, Pairs(R)), NEW t \in Table
  PROVE  Dependencies(g, t) = Reachable(RuleEdges(R), {t}) /\ RuleEdges(R) \in SUBSET Edge
<1> DEFINE E == RuleEdges(R)
           Q == Pairs(R)
<1>1. LiveEdges(g) = E /\ E \in SUBSET Edge
  BY LiveEdgesExact DEF LiveEdges
<1>2. CASE g.nodes[t] # 0
  BY <1>1, <1>2 DEF Dependencies
<1>3. CASE g.nodes[t] = 0
  <2>1. Q \in SUBSET Pair /\ NodeUsers(t) \in SUBSET Pair
    BY DEF Pairs, NodeUsers
  <2>2. Q \cap NodeUsers(t) = {}
    <3>1. g.nodes[t] = References(Q, t)
      BY DEF Exact
    <3> HIDE DEF Q
    <3>2. ~ (References(Q, t) > 0)
      BY <1>3, <3>1
    <3> QED BY <2>1, <3>2, LiveReferences, LiveCounts
  <2>3. ASSUME NEW e \in E, e[1] = t PROVE FALSE
    <3>0. PICK p \in Policy : \E r \in R[p] : e \in FormulaEdges(p, r)
      BY DEF RuleEdges
    <3>1. PICK r \in R[p] : e \in FormulaEdges(p, r)
      BY <3>0
    <3>2. e[1] = HeadTable(p, r)
      BY <3>1 DEF FormulaEdges
    <3>3. <<p, r>> \in Q /\ <<p, r>> \in NodeUsers(t)
      BY <2>3, <3>1, <3>2 DEF Pairs, Pair, NodeUsers, NodesOf, FormulaNodes
    <3> QED BY <2>2, <3>3
  <2> HIDE DEF E
  <2>4. ClosedUnder(E, {t}) /\ {t} \in SUBSET Table
    BY <2>3 DEF ClosedUnder
  <2>5. Reachable(E, {t}) = {t}
    BY <1>1, <2>4, ReachableLeast, ReachableRoots
  <2> QED BY <1>1, <1>3, <2>5 DEF Dependencies, E
<1> QED BY <1>1, <1>2, <1>3

-----------------------------------------------------------------------------
(***************************************************************************)
(* What the contents of a table depend on.                                 *)
(***************************************************************************)
RulesOf(R, t) == {r \in R[t[1]] : r.head = t[2]}
Theories == [Policy -> SUBSET Rule]
Facts == [DataTable -> SUBSET Row]
Values == [Table -> SUBSET Row]

\* One level of views more, and none.
Base(F) == [t \in Table |-> IF t \in DataTable THEN F[t] ELSE {}]
LevelUp(R, F, val) == [t \in Table |-> IF t \in DataTable THEN F[t] ELSE Derived(R, val, t, FALSE)]

\* h has the contents of all tables with 0, 1, ... levels of views evaluated.
Levels(h, R, F) ==
  /\ h[0] = Base(F)
  /\ \A i \in 1 .. Cardinality(PolicyTable) : h[i] = LevelUp(R, F, h[i - 1])

\* There are finitely many tables of policies.
LEMMA FinitePolicyTable == IsFiniteSet(PolicyTable) /\ Cardinality(PolicyTable) \in Nat
<1>1. IsFiniteSet(PolicyTable)
  BY FiniteNames, FS_Product DEF PolicyTable
<1> QED BY <1>1, FS_CardinalityType

\* A level has rows.
LEMMA LevelTypes ==
  ASSUME NEW F \in Facts
  PROVE  Base(F) \in Values /\ \A R, val : LevelUp(R, F, val) \in Values
<1>1. \A R, val, t, m : Derived(R, val, t, m) \in SUBSET Row
  BY DEF Derived
<1> QED BY <1>1 DEF Base, LevelUp, Values, Facts

\* The value of the tables is the last of such levels.
LEMMA ValueLevels ==
  ASSUME NEW R, NEW F \in Facts
  PROVE  \E h \in [0 .. Cardinality(PolicyTable) -> Values] :
           Levels(h, R, F) /\ Value(R, F) = h[Cardinality(PolicyTable)]
<1> DEFINE n == Cardinality(PolicyTable)
           A == Values
           G == [ix \in (1 .. n) \X A |-> LevelUp(R, F, ix[2])]
           level == CHOOSE f : f = [i \in 0 .. n |->
                      IF i = 0 THEN [t \in Table |-> IF t \in DataTable THEN F[t] ELSE {}]
                      ELSE [t \in Table |-> IF t \in DataTable THEN F[t]
                                            ELSE Derived(R, f[i - 1], t, FALSE)]]
<1>1. n \in Nat
  BY FinitePolicyTable
<1>2. Value(R, F) = level[n]
  BY DEF Value
<1> HIDE DEF n
<1>3. Base(F) \in A /\ \A x : LevelUp(R, F, x) \in A
  BY LevelTypes
<1>4. G \in [(1 .. n) \X A -> A]
  <2> HIDE DEF A
  <2> QED BY <1>3
<1>5. PICK h : Iterates(h, n, A, Base(F), G)
  <2>1. StepFunction(n, A, G)
    BY <1>4 DEF StepFunction
  <2> HIDE DEF A, G
  <2> QED BY <1>1, <1>3, <2>1, IntervalRecursion
<1>6. ASSUME NEW i \in 1 .. n PROVE h[i] = LevelUp(R, F, h[i - 1])
  <2>1. i - 1 \in 0 .. n /\ i \in 0 .. n /\ i # 0
    BY <1>1
  <2>2. h[i - 1] \in A /\ h[i] = G[<<i, h[i - 1]>>]
    <3> HIDE DEF G, A
    <3> QED BY <1>5, <2>1 DEF Iterates
  <2> HIDE DEF A
  <2> QED BY <2>2
<1>7. h[0] = Base(F)
  BY <1>1, <1>5 DEF Iterates
<1>8. h = [i \in 0 .. n |-> IF i = 0 THEN Base(F) ELSE LevelUp(R, F, h[i - 1])]
  <2>1. ASSUME NEW i \in 0 .. n
        PROVE  h[i] = IF i = 0 THEN Base(F) ELSE LevelUp(R, F, h[i - 1])
    <3>1. CASE i = 0
      BY <1>7, <3>1
    <3>2. CASE i # 0
      <4>1. i \in 1 .. n
        BY <1>1, <3>2
      <4> QED BY <1>6, <3>2, <4>1
    <3> QED BY <3>1, <3>2
  <2> HIDE DEF A, G
  <2> QED BY <1>5, <2>1 DEF Iterates
<1>9. level = [i \in 0 .. n |-> IF i = 0 THEN Base(F) ELSE LevelUp(R, F, level[i - 1])]
  <2>1. level = CHOOSE f : f = [i \in 0 .. n |-> IF i = 0 THEN Base(F) ELSE LevelUp(R, F, f[i - 1])]
    BY DEF Base, LevelUp
  <2> HIDE DEF level
  <2> QED BY <1>8, <2>1
<1> HIDE DEF level
<1>10. \A i \in 1 .. n : level[i] = LevelUp(R, F, level[i - 1])
  BY <1>1, <1>9
<1>11. level[0] = Base(F)
  BY <1>1, <1>9
<1>12. level \in [0 .. n -> A]
  <2>1. \A i \in 0 .. n : level[i] \in A
    <3> HIDE DEF A
    <3> QED BY <1>3, <1>9
  <2> HIDE DEF A
  <2> QED BY <1>9, <2>1
<1>13. Levels(level, R, F)
  BY <1>10, <1>11 DEF Levels, n
<1> QED BY <1>2, <1>12, <1>13 DEF n

\* Nothing changes in the tables D when R and F become S and G.
Untouched(D, R, F, S, G) ==
  /\ \A t \in D \cap PolicyTable : RulesOf(R, t) = RulesOf(S, t)
  /\ \A d \in D \cap DataTable : F[d] = G[d]

\* What a table is derived from, if its rules and the tables they mention stay.
LEMMA DerivedSame ==
  ASSUME NEW R \in Theories, NEW S \in Theories, NEW D, ClosedUnder(RuleEdges(R), D),
         NEW t \in PolicyTable, t \in D, RulesOf(R, t) = RulesOf(S, t),
         NEW x, NEW y, \A u \in D : x[u] = y[u], NEW m
  PROVE  Derived(R, x, t, m) = Derived(S, y, t, m)
<1> DEFINE own(T) == {s \in T[t[1]] : s.head = t[2] /\ s.modal = m}
           rows(r, val) == {z \in Row : \A l \in r.body : (z \in val[Global(t[1], l.table)]) # l.neg}
<1>1. own(R) = own(S)
  BY DEF RulesOf
<1>2. ASSUME NEW r \in own(R), NEW l \in r.body PROVE x[Global(t[1], l.table)] = y[Global(t[1], l.table)]
  <2> DEFINE e == <<HeadTable(t[1], r), Global(t[1], l.table), l.neg>>
  <2>1. t[1] \in Policy /\ t = HeadTable(t[1], r)
    BY <1>2 DEF HeadTable, PolicyTable
  <2>2. e \in FormulaEdges(t[1], r) /\ r \in R[t[1]]
    BY <1>2 DEF FormulaEdges
  <2>3. e \in RuleEdges(R)
    BY <2>1, <2>2 DEF RuleEdges
  <2>4. e[1] \in D /\ e[2] = Global(t[1], l.table)
    BY <2>1
  <2> HIDE DEF e
  <2> QED BY <2>3, <2>4 DEF ClosedUnder
<1>3. \A r \in own(R) : rows(r, x) = rows(r, y)
  BY <1>2
<1>4. UNION {rows(r, x) : r \in own(R)} = UNION {rows(r, y) : r \in own(S)}
  <2> HIDE DEF rows, own
  <2> QED BY <1>1, <1>3
<1> QED BY <1>4 DEF Derived

\* The contents of a table stay if nothing changes that it depends on.
LEMMA SameContents ==
  ASSUME NEW R \in Theories, NEW S \in Theories, NEW F \in Facts, NEW G \in Facts,
         RuleEdges(R) \in SUBSET Edge, NEW t \in PolicyTable,
         Untouched(Reachable(RuleEdges(R), {t}), R, F, S, G), NEW m
  PROVE  Contents(R, F, t, m) = Contents(S, G, t, m)
<1> DEFINE D == Reachable(RuleEdges(R), {t})
           n == Cardinality(PolicyTable)
<1>1. /\ t \in D /\ D \subseteq Table /\ ClosedUnder(RuleEdges(R), D)
      /\ Untouched(D, R, F, S, G)
  <2>1. {t} \in SUBSET Table
    BY DEF Table
  <2> QED BY <2>1, ReachableRoots, ReachableClosed
<1>2. n \in Nat
  BY FinitePolicyTable
<1>3. PICK h \in [0 .. n -> Values] : Levels(h, R, F) /\ Value(R, F) = h[n]
  BY ValueLevels
<1>4. PICK k \in [0 .. n -> Values] : Levels(k, S, G) /\ Value(S, G) = k[n]
  BY ValueLevels
<1>5. /\ h[0] = Base(F) /\ k[0] = Base(G)
      /\ \A i \in 1 .. n : h[i] = LevelUp(R, F, h[i - 1]) /\ k[i] = LevelUp(S, G, k[i - 1])
  BY <1>3, <1>4 DEF Levels
<1> HIDE DEF n, D
<1> DEFINE Good(i) == \A u \in D : h[i][u] = k[i][u]
           B == {i \in 0 .. n : ~ Good(i)}
<1>6. Good(0)
  BY <1>1, <1>5 DEF Base, Untouched
<1>7. ASSUME B # {} PROVE FALSE
  <2>1. B \in SUBSET Nat
    BY <1>2
  <2>2. PICK i \in B : \A y \in B : i <= y
    <3> HIDE DEF B
    <3> QED BY <1>7, <2>1, SmallestNumber
  <2>3. i \in 1 .. n
    BY <1>2, <1>6, <2>2
  <2>4. i - 1 \in 0 .. n /\ ~ (i <= i - 1)
    BY <1>2, <2>3
  <2>5. Good(i - 1)
    BY <2>2, <2>4
  <2>6. ASSUME NEW u \in D PROVE h[i][u] = k[i][u]
    <3>1. u \in Table /\ h[i] = LevelUp(R, F, h[i - 1]) /\ k[i] = LevelUp(S, G, k[i - 1])
      BY <1>1, <1>5, <2>3
    <3>2. CASE u \in DataTable
      BY <1>1, <3>1, <3>2 DEF LevelUp, Untouched
    <3>3. CASE u \notin DataTable
      <4>1. u \in PolicyTable /\ RulesOf(R, u) = RulesOf(S, u)
        BY <1>1, <3>1, <3>3 DEF Table, Untouched
      <4> DEFINE x == h[i - 1]
                 y == k[i - 1]
      <4>2. \A w \in D : x[w] = y[w]
        BY <2>5
      <4> HIDE DEF x, y
      <4>3. ClosedUnder(RuleEdges(R), D)
        BY <1>1
      <4>4. ASSUME NEW b PROVE Derived(R, x, u, b) = Derived(S, y, u, b)
        BY <4>1, <4>2, <4>3, DerivedSame
      <4>5. Derived(R, x, u, FALSE) = Derived(S, y, u, FALSE)
        BY <4>4, Zenon
      <4> QED BY <3>1, <3>3, <4>5 DEF LevelUp, x, y
    <3> QED BY <3>2, <3>3
  <2> QED BY <2>2, <2>6
<1>8. n \in 0 .. n
  BY <1>2
<1>9. \A u \in D : h[n][u] = k[n][u]
  BY <1>7, <1>8
<1>10. RulesOf(R, t) = RulesOf(S, t)
  BY <1>1 DEF Untouched
<1>11. Derived(R, h[n], t, m) = Derived(S, k[n], t, m)
  BY <1>1, <1>9, <1>10, DerivedSame
<1> QED BY <1>3, <1>4, <1>11 DEF Contents

-----------------------------------------------------------------------------
(***************************************************************************)
(* The index of the registry.                                              *)
(***************************************************************************)
Index == UNION {[D -> SUBSET Trigger] : D \in SUBSET Table}
Entries(idx, t) == IF t \in DOMAIN idx THEN idx[t] ELSE {}

\* An index is a function from tables to sets of triggers.
LEMMA IndexShape ==
  ASSUME NEW idx
  PROVE  idx \in Index <=> /\ idx = [t \in DOMAIN idx |-> idx[t]] /\ DOMAIN idx \in SUBSET Table
                           /\ \A t \in DOMAIN idx : idx[t] \in SUBSET Trigger
<1> DEFINE A == SUBSET Trigger
<1>1. ASSUME idx \in Index
      PROVE  /\ idx = [t \in DOMAIN idx |-> idx[t]] /\ DOMAIN idx \in SUBSET Table
             /\ \A t \in DOMAIN idx : idx[t] \in A
  <2>1. PICK D \in SUBSET Table : idx \in [D -> A]
    BY <1>1 DEF Index
  <2> HIDE DEF A
  <2> QED BY <2>1
<1>2. ASSUME idx = [t \in DOMAIN idx |-> idx[t]], DOMAIN idx \in SUBSET Table,
             \A t \in DOMAIN idx : idx[t] \in A
      PROVE  idx \in Index
  <2>1. idx \in [DOMAIN idx -> A]
    <3> HIDE DEF A
    <3> QED BY <1>2
  <2> QED BY <1>2, <2>1 DEF Index
<1> QED BY <1>1, <1>2

\* There are finitely many triggers.
LEMMA FiniteTrigger == IsFiniteSet(Trigger)
<1> DEFINE P == PolicyTable
           C == (P \X BOOLEAN) \X P
           f == [c \in C |-> [table |-> c[1][1], modal |-> c[1][2], action |-> c[2]]]
<1>1. IsFiniteSet(P)
  BY FinitePolicyTable
<1>2. IsFiniteSet(BOOLEAN)
  <2>1. IsFiniteSet({TRUE}) /\ IsFiniteSet({FALSE})
    BY FS_Singleton, Zenon
  <2>2. IsFiniteSet({TRUE} \cup {FALSE})
    BY <2>1, FS_Union, Zenon
  <2>3. BOOLEAN = {TRUE} \cup {FALSE}
    BY Zenon
  <2> QED BY <2>2, <2>3, Zenon
<1> HIDE DEF P
<1>3. IsFiniteSet(P \X BOOLEAN)
  BY <1>1, <1>2, FS_Product
<1>4. IsFiniteSet(C)
  BY <1>1, <1>3, FS_Product
<1>5. f \in Surjection(C, Trigger)
  <2>1. f \in [C -> Trigger]
    BY DEF Trigger, P
  <2>2. ASSUME NEW x \in Trigger PROVE \E c \in C : f[c] = x
    <3> DEFINE c == <<<<x.table, x.modal>>, x.action>>
    <3>1. /\ x.table \in P /\ x.modal \in BOOLEAN /\ x.action \in P
          /\ x = [table |-> x.table, modal |-> x.modal, action |-> x.action]
      BY DEF Trigger, P
    <3>2. c \in C /\ f[c] = x
      BY <3>1
    <3> QED BY <3>2
  <2> HIDE DEF f, C
  <2> QED BY <2>1, <2>2 DEF Surjection
<1> HIDE DEF f, C
<1> QED BY <1>4, <1>5, FS_Surjection

\* A table is among its dependencies, which are tables.
LEMMA DependenciesType ==
  ASSUME NEW g, NEW t \in Table
  PROVE  t \in Dependencies(g, t) /\ Dependencies(g, t) \subseteq Table
<1>1. LiveEdges(g) \in SUBSET Edge /\ {t} \in SUBSET Table
  BY DEF LiveEdges
<1> QED BY <1>1, ReachableRoots DEF Dependencies

\* The dependencies of a trigger's table.
Watched(g, x) == Dependencies(g, x.table)

LEMMA WatchedType ==
  ASSUME NEW g, NEW x \in Trigger
  PROVE  x.table \in Watched(g, x) /\ Watched(g, x) \subseteq Table
<1>1. x.table \in Table
  BY DEF Trigger, Table
<1> QED BY <1>1, DependenciesType DEF Watched

\* Adding a trigger to the index adds it to what it watches.
LEMMA AddIndexesEffect ==
  ASSUME NEW idx \in Index, NEW g, NEW x \in Trigger
  PROVE  /\ AddIndexes(idx, g, x) \in Index
         /\ \A t : Entries(AddIndexes(idx, g, x), t) =
                     Entries(idx, t) \cup (IF t \in Watched(g, x) THEN {x} ELSE {})
<1> DEFINE W == Watched(g, x)
           D == DOMAIN idx \cup W
           f == AddIndexes(idx, g, x)
<1>1. W \subseteq Table /\ DOMAIN idx \in SUBSET Table /\ \A t \in DOMAIN idx : idx[t] \in SUBSET Trigger
  BY WatchedType, IndexShape
<1>2. f = [t \in D |-> Entries(idx, t) \cup (IF t \in W THEN {x} ELSE {})]
  BY DEF AddIndexes, Entries, Watched
<1> HIDE DEF f, W
<1>3. ASSUME NEW t \in D PROVE Entries(idx, t) \cup (IF t \in W THEN {x} ELSE {}) \in SUBSET Trigger
  BY <1>1 DEF Entries
<1>4. f = [t \in DOMAIN f |-> f[t]] /\ DOMAIN f \in SUBSET Table /\ \A t \in DOMAIN f : f[t] \in SUBSET Trigger
  BY <1>1, <1>2, <1>3
<1>5. f \in Index
  BY <1>4, IndexShape
<1>6. ASSUME NEW t PROVE Entries(f, t) = Entries(idx, t) \cup (IF t \in W THEN {x} ELSE {})
  <2>1. CASE t \in D
    BY <1>2, <2>1 DEF Entries
  <2>2. CASE t \notin D
    BY <1>2, <2>2 DEF Entries
  <2> QED BY <2>1, <2>2
<1> QED BY <1>5, <1>6 DEF f, W

\* Deleting it takes it away from there, if the loop reaches all tables.
LEMMA DeleteIndexesEffect ==
  ASSUME NEW idx \in Index, NEW g, NEW x \in Trigger, NEW reached
  PROVE  LET f == DeleteIndexes(idx, g, x, reached)
         IN  /\ f \in Index
             /\ \A t : Entries(f, t) \subseteq Entries(idx, t) /\ Entries(idx, t) \ {x} \subseteq Entries(f, t)
             /\ {x} \X Table \subseteq reached =>
                  \A t : Entries(f, t) = Entries(idx, t) \ (IF t \in Watched(g, x) THEN {x} ELSE {})
<1> DEFINE W == Watched(g, x)
           V == IF W \subseteq DOMAIN idx THEN W ELSE {t \in W : <<x, t>> \in reached}
           f == DeleteIndexes(idx, g, x, reached)
<1>1. DOMAIN idx \in SUBSET Table /\ \A t \in DOMAIN idx : idx[t] \in SUBSET Trigger
  BY IndexShape
<1>2. f = [t \in DOMAIN idx |-> idx[t] \ (IF t \in V THEN {x} ELSE {})]
  BY DEF DeleteIndexes, Watched
<1>3. {x} \X Table \subseteq reached => V = W
  <2>1. W \subseteq Table
    BY WatchedType
  <2> HIDE DEF W
  <2> QED BY <2>1
<1> HIDE DEF f, W, V
<1>4. f = [t \in DOMAIN f |-> f[t]] /\ DOMAIN f \in SUBSET Table /\ \A t \in DOMAIN f : f[t] \in SUBSET Trigger
  BY <1>1, <1>2
<1>5. f \in Index
  BY <1>4, IndexShape
<1>6. \A t : Entries(f, t) = Entries(idx, t) \ (IF t \in V THEN {x} ELSE {})
  BY <1>2 DEF Entries
<1> QED BY <1>3, <1>5, <1>6 DEF f, W

\* What holds of idx, and with one of N more whenever it holds with fewer, holds of
\* Register(idx, g, N): K has the pairs of those taken so far and the index with them.
LEMMA RegisterInduction ==
  ASSUME NEW idx \in Index, NEW g, NEW N \in SUBSET Trigger, NEW K, <<{}, idx>> \in K,
         \A s \in SUBSET N : \A x \in s : \A d \in Index :
           <<s \ {x}, d>> \in K => <<s, AddIndexes(d, g, x)>> \in K
  PROVE  Register(idx, g, N) \in Index /\ <<N, Register(idx, g, N)>> \in K
<1> DEFINE pick(s) == CHOOSE x \in s : TRUE
           c == [s \in SUBSET N |-> pick(s)]
           F == [xa \in N \X Index |-> AddIndexes(xa[2], g, xa[1])]
           iter == CHOOSE f : f = [s \in SUBSET N |->
                                     IF s = {} THEN idx ELSE AddIndexes(f[s \ {pick(s)}], g, pick(s))]
<1>0. IsFiniteSet(N)
  BY FiniteTrigger, FS_Subset
<1>1. Register(idx, g, N) = iter[N]
  BY DEF Register, FoldSet, MapThenFoldSet
<1>2. \A s \in (SUBSET N) \ {{}} : pick(s) \in s /\ c[s] = pick(s)
  OBVIOUS
<1> HIDE DEF pick
<1>3. F \in [N \X Index -> Index]
  BY AddIndexesEffect
<1>4. PICK k \in [SUBSET N -> Index] :
        k = [s \in SUBSET N |-> IF s = {} THEN idx ELSE F[<<c[s], k[s \ {c[s]}]>>]]
  <2> HIDE DEF F, c
  <2>1. Recursive(N, Index, idx, F, c)
    BY <1>0, <1>2, <1>3 DEF Recursive
  <2>2. Solvable(N, Index, idx, F, c)
    BY <2>1, SetRecursion
  <2> QED BY <2>2 DEF Solvable
<1>5. k = [s \in SUBSET N |-> IF s = {} THEN idx ELSE AddIndexes(k[s \ {pick(s)}], g, pick(s))]
  <2>1. ASSUME NEW s \in SUBSET N, s # {}
        PROVE  F[<<c[s], k[s \ {c[s]}]>>] = AddIndexes(k[s \ {pick(s)}], g, pick(s))
    <3>1. pick(s) \in N /\ c[s] = pick(s) /\ k[s \ {pick(s)}] \in Index
      BY <1>2, <2>1
    <3> HIDE DEF c
    <3> QED BY <3>1
  <2> HIDE DEF F, c
  <2>2. \A s \in SUBSET N : k[s] = IF s = {} THEN idx ELSE AddIndexes(k[s \ {pick(s)}], g, pick(s))
    BY <1>4, <2>1
  <2> QED BY <2>2
<1>6. iter = [s \in SUBSET N |-> IF s = {} THEN idx ELSE AddIndexes(iter[s \ {pick(s)}], g, pick(s))]
  BY <1>5
<1> HIDE DEF iter
<1> DEFINE Good(s) == iter[s] \in Index /\ <<s, iter[s]>> \in K
           B == {s \in SUBSET N : ~ Good(s)}
<1>7. ASSUME B # {} PROVE FALSE
  <2>1. PICK s \in B : \A y \in B : y \subseteq s => y = s
    <3>1. B \in SUBSET SUBSET N
      OBVIOUS
    <3> HIDE DEF B
    <3> QED BY <1>0, <1>7, <3>1, SmallestSubset
  <2>2. Good({})
    BY <1>6
  <2>3. s \in SUBSET N /\ s # {}
    BY <2>1, <2>2
  <2>4. pick(s) \in s /\ iter[s] = AddIndexes(iter[s \ {pick(s)}], g, pick(s))
    BY <1>2, <1>6, <2>3
  <2>5. s \ {pick(s)} \notin B
    BY <2>1, <2>4
  <2>6. Good(s \ {pick(s)})
    BY <2>3, <2>5
  <2>7. iter[s] \in Index
    BY <2>3, <2>4, <2>6, AddIndexesEffect
  <2>8. <<s, iter[s]>> \in K
    BY <2>3, <2>4, <2>6
  <2> QED BY <2>1, <2>7, <2>8
<1>8. Good(N)
  BY <1>7
<1> QED BY <1>1, <1>8

\* What holds of idx, and with one of N more whenever it holds with fewer, holds of
\* Unregister(idx, g, N): K has the pairs of those taken so far and the index with them.
LEMMA UnregisterInduction ==
  ASSUME NEW idx \in Index, NEW g, NEW reached, NEW N \in SUBSET Trigger, NEW K, <<{}, idx>> \in K,
         \A s \in SUBSET N : \A x \in s : \A d \in Index :
           <<s \ {x}, d>> \in K => <<s, DeleteIndexes(d, g, x, reached)>> \in K
  PROVE  Unregister(idx, g, N, reached) \in Index /\ <<N, Unregister(idx, g, N, reached)>> \in K
<1> DEFINE pick(s) == CHOOSE x \in s : TRUE
           c == [s \in SUBSET N |-> pick(s)]
           F == [xa \in N \X Index |-> DeleteIndexes(xa[2], g, xa[1], reached)]
           iter == CHOOSE f : f = [s \in SUBSET N |->
                                     IF s = {} THEN idx ELSE DeleteIndexes(f[s \ {pick(s)}], g, pick(s), reached)]
<1>0. IsFiniteSet(N)
  BY FiniteTrigger, FS_Subset
<1>1. Unregister(idx, g, N, reached) = iter[N]
  BY DEF Unregister, FoldSet, MapThenFoldSet
<1>2. \A s \in (SUBSET N) \ {{}} : pick(s) \in s /\ c[s] = pick(s)
  OBVIOUS
<1> HIDE DEF pick
<1>a. \A x \in N : \A d \in Index : DeleteIndexes(d, g, x, reached) \in Index
  BY DeleteIndexesEffect
<1>3. F \in [N \X Index -> Index]
  BY <1>a
<1>4. PICK k \in [SUBSET N -> Index] :
        k = [s \in SUBSET N |-> IF s = {} THEN idx ELSE F[<<c[s], k[s \ {c[s]}]>>]]
  <2> HIDE DEF F, c
  <2>1. Recursive(N, Index, idx, F, c)
    BY <1>0, <1>2, <1>3 DEF Recursive
  <2>2. Solvable(N, Index, idx, F, c)
    BY <2>1, SetRecursion
  <2> QED BY <2>2 DEF Solvable
<1>5. k = [s \in SUBSET N |-> IF s = {} THEN idx ELSE DeleteIndexes(k[s \ {pick(s)}], g, pick(s), reached)]
  <2>1. ASSUME NEW s \in SUBSET N, s # {}
        PROVE  F[<<c[s], k[s \ {c[s]}]>>] = DeleteIndexes(k[s \ {pick(s)}], g, pick(s), reached)
    <3>1. pick(s) \in N /\ c[s] = pick(s) /\ k[s \ {pick(s)}] \in Index
      BY <1>2, <2>1
    <3> HIDE DEF c
    <3> QED BY <3>1
  <2> HIDE DEF F, c
  <2>2. \A s \in SUBSET N : k[s] = IF s = {} THEN idx ELSE DeleteIndexes(k[s \ {pick(s)}], g, pick(s), reached)
    BY <1>4, <2>1
  <2> QED BY <2>2
<1>6. iter = [s \in SUBSET N |-> IF s = {} THEN idx ELSE DeleteIndexes(iter[s \ {pick(s)}], g, pick(s), reached)]
  BY <1>5
<1> HIDE DEF iter
<1> DEFINE Good(s) == iter[s] \in Index /\ <<s, iter[s]>> \in K
           B == {s \in SUBSET N : ~ Good(s)}
<1>7. ASSUME B # {} PROVE FALSE
  <2>1. PICK s \in B : \A y \in B : y \subseteq s => y = s
    <3>1. B \in SUBSET SUBSET N
      OBVIOUS
    <3> HIDE DEF B
    <3> QED BY <1>0, <1>7, <3>1, SmallestSubset
  <2>2. Good({})
    BY <1>6
  <2>3. s \in SUBSET N /\ s # {}
    BY <2>1, <2>2
  <2>4. pick(s) \in s /\ iter[s] = DeleteIndexes(iter[s \ {pick(s)}], g, pick(s), reached)
    BY <1>2, <1>6, <2>3
  <2>5. s \ {pick(s)} \notin B
    BY <2>1, <2>4
  <2>6. Good(s \ {pick(s)})
    BY <2>3, <2>5
  <2>7. iter[s] \in Index
    BY <1>a, <2>3, <2>4, <2>6
  <2>8. <<s, iter[s]>> \in K
    BY <2>3, <2>4, <2>6
  <2> QED BY <2>1, <2>7, <2>8
<1>8. Good(N)
  BY <1>7
<1> QED BY <1>1, <1>8

\* Those of N that watch t.
Watching(g, N, t) == {x \in N : t \in Watched(g, x)}

\* The index after registering the triggers N.
LEMMA RegisterEffect ==
  ASSUME NEW idx \in Index, NEW g, NEW N \in SUBSET Trigger
  PROVE  /\ Register(idx, g, N) \in Index
         /\ \A t : Entries(Register(idx, g, N), t) = Entries(idx, t) \cup Watching(g, N, t)
<1> DEFINE K == {sd \in (SUBSET N) \X Index :
                   \A t \in Table : Entries(sd[2], t) = Entries(idx, t) \cup Watching(g, sd[1], t)}
<1>1. <<{}, idx>> \in K
  BY DEF Watching
<1>2. ASSUME NEW s \in SUBSET N, NEW x \in s, NEW d \in Index, <<s \ {x}, d>> \in K
      PROVE  <<s, AddIndexes(d, g, x)>> \in K
  <2> DEFINE f == AddIndexes(d, g, x)
  <2>1. /\ f \in Index
        /\ \A t : Entries(f, t) = Entries(d, t) \cup (IF t \in Watched(g, x) THEN {x} ELSE {})
    BY AddIndexesEffect
  <2> HIDE DEF f
  <2>2. \A t \in Table : Entries(d, t) = Entries(idx, t) \cup Watching(g, s \ {x}, t)
    BY <1>2
  <2>3. \A t : Watching(g, s, t) =
                 Watching(g, s \ {x}, t) \cup (IF t \in Watched(g, x) THEN {x} ELSE {})
    BY DEF Watching
  <2>4. \A t \in Table : Entries(f, t) = Entries(idx, t) \cup Watching(g, s, t)
    BY <2>1, <2>2, <2>3
  <2>5. <<s, f>> \in K
    BY <2>1, <2>4
  <2> QED BY <2>5 DEF f
<1> HIDE DEF K
<1>3. Register(idx, g, N) \in Index /\ <<N, Register(idx, g, N)>> \in K
  BY <1>1, <1>2, RegisterInduction
<1> DEFINE f == Register(idx, g, N)
<1>4. f \in Index /\ \A t \in Table : Entries(f, t) = Entries(idx, t) \cup Watching(g, N, t)
  BY <1>3 DEF K
<1> HIDE DEF f
<1>5. ASSUME NEW t, t \notin Table PROVE Entries(f, t) = Entries(idx, t) \cup Watching(g, N, t)
  <2>1. t \notin DOMAIN f /\ t \notin DOMAIN idx
    BY <1>4, <1>5, IndexShape
  <2>2. Watching(g, N, t) = {}
    BY <1>5, WatchedType DEF Watching
  <2> QED BY <2>1, <2>2 DEF Entries
<1> QED BY <1>4, <1>5 DEF f

\* The index after unregistering them: others stay, and they are gone if no loop over
\* their tables broke off.
LEMMA UnregisterEffect ==
  ASSUME NEW idx \in Index, NEW g, NEW reached, NEW N \in SUBSET Trigger
  PROVE  LET f == Unregister(idx, g, N, reached)
         IN  /\ f \in Index
             /\ \A t : Entries(f, t) \subseteq Entries(idx, t) /\ Entries(idx, t) \ N \subseteq Entries(f, t)
             /\ N \X Table \subseteq reached =>
                  \A t : Entries(f, t) = Entries(idx, t) \ Watching(g, N, t)
<1> DEFINE full == N \X Table \subseteq reached
           Between(s, d) == \A t \in Table : /\ Entries(d, t) \subseteq Entries(idx, t)
                                             /\ Entries(idx, t) \ s \subseteq Entries(d, t)
           Without(s, d) == \A t \in Table : Entries(d, t) = Entries(idx, t) \ Watching(g, s, t)
           K == {sd \in (SUBSET N) \X Index : Between(sd[1], sd[2]) /\ (full => Without(sd[1], sd[2]))}
<1>1. <<{}, idx>> \in K
  BY DEF Watching
<1>2. ASSUME NEW s \in SUBSET N, NEW x \in s, NEW d \in Index, <<s \ {x}, d>> \in K
      PROVE  <<s, DeleteIndexes(d, g, x, reached)>> \in K
  <2> DEFINE f == DeleteIndexes(d, g, x, reached)
  <2>1. /\ f \in Index
        /\ \A t : Entries(f, t) \subseteq Entries(d, t) /\ Entries(d, t) \ {x} \subseteq Entries(f, t)
        /\ {x} \X Table \subseteq reached =>
             \A t : Entries(f, t) = Entries(d, t) \ (IF t \in Watched(g, x) THEN {x} ELSE {})
    BY DeleteIndexesEffect
  <2> HIDE DEF f
  <2>2. Between(s \ {x}, d) /\ (full => Without(s \ {x}, d))
    BY <1>2
  <2>3. Between(s, f)
    BY <2>1, <2>2
  <2>4. ASSUME full PROVE Without(s, f)
    <3>1. \A t : Entries(f, t) = Entries(d, t) \ (IF t \in Watched(g, x) THEN {x} ELSE {})
      BY <2>1, <2>4
    <3>2. \A t : Watching(g, s, t) =
                   Watching(g, s \ {x}, t) \cup (IF t \in Watched(g, x) THEN {x} ELSE {})
      BY DEF Watching
    <3> QED BY <2>2, <2>4, <3>1, <3>2
  <2> HIDE DEF Between, Without, full
  <2>5. <<s, f>> \in K
    BY <2>1, <2>3, <2>4
  <2> QED BY <2>5 DEF f
<1> HIDE DEF K
<1> DEFINE f == Unregister(idx, g, N, reached)
<1>3. f \in Index /\ <<N, f>> \in K
  BY <1>1, <1>2, UnregisterInduction
<1> HIDE DEF f
<1>4. Between(N, f) /\ (full => Without(N, f))
  BY <1>3 DEF K
<1>5. ASSUME NEW t, t \notin Table
      PROVE  Entries(f, t) = {} /\ Entries(idx, t) = {} /\ Watching(g, N, t) = {}
  <2>1. t \notin DOMAIN f /\ t \notin DOMAIN idx
    BY <1>3, <1>5, IndexShape
  <2>2. Watching(g, N, t) = {}
    BY <1>5, WatchedType DEF Watching
  <2> QED BY <2>1, <2>2 DEF Entries
<1>6. \A t : Entries(f, t) \subseteq Entries(idx, t) /\ Entries(idx, t) \ N \subseteq Entries(f, t)
  BY <1>4, <1>5
<1>7. full => \A t : Entries(f, t) = Entries(idx, t) \ Watching(g, N, t)
  BY <1>4, <1>5
<1> QED BY <1>3, <1>6, <1>7 DEF f

-----------------------------------------------------------------------------
(***************************************************************************)
(* The registry.                                                           *)
(***************************************************************************)
ActionTables(g) == {t \in PolicyTable : g.modals[t] > 0}
ActionTrigger(t, a) == [table |-> t, modal |-> TRUE, action |-> a]

\* exe has, for some tables of policies, a trigger that waits for actions.
Executes(exe) ==
  /\ exe = [t \in DOMAIN exe |-> exe[t]] /\ DOMAIN exe \in SUBSET PolicyTable
  /\ \A t \in DOMAIN exe : \E a \in PolicyTable : exe[t] = ActionTrigger(t, a)

Registry(reg) ==
  reg.triggers \in SUBSET Trigger /\ reg.index \in Index /\ Executes(reg.execution)

\* The triggers that _maintain_triggers makes, and those that it gives up.
Made(exe, g, last) == {ActionTrigger(t, last) : t \in ActionTables(g) \ DOMAIN exe}
Gone(exe, g) == {exe[t] : t \in DOMAIN exe \ ActionTables(g)}

\* A trigger of an action table is a trigger.
LEMMA ActionTriggerType ==
  ASSUME NEW t \in PolicyTable, NEW a \in PolicyTable
  PROVE  /\ ActionTrigger(t, a) \in Trigger
         /\ ActionTrigger(t, a).table = t /\ ActionTrigger(t, a).action = a
         /\ ActionTrigger(t, a).modal = TRUE
<1>1. ActionTrigger(t, a) \in Trigger
  BY DEF ActionTrigger, Trigger
<1> QED BY <1>1 DEF ActionTrigger

\* What MaintainTriggers leaves of the registry.
Maintained(m, reg, g, last) ==
  LET exe  == reg.execution
      made == Made(exe, g, last)
      gone == Gone(exe, g)
  IN  /\ Registry(m)
      /\ m.triggers = (reg.triggers \cup made) \ gone
      /\ \A t : LET all == Entries(reg.index, t) \cup Watching(g, made, t)
                IN  Entries(m.index, t) \subseteq all /\ all \ gone \subseteq Entries(m.index, t)
      /\ ActionTables(g) \subseteq DOMAIN m.execution
      /\ \A t \in DOMAIN m.execution :
           \/ t \in DOMAIN exe /\ m.execution[t] = exe[t]
           \/ t \in ActionTables(g) \ DOMAIN exe /\ m.execution[t] = ActionTrigger(t, last)
      /\ \A t \in DOMAIN m.execution \ ActionTables(g) :
           UnregisterFails(Register(reg.index, g, made), reg.triggers \cup made, g, exe[t])

LEMMA MaintainEffect ==
  ASSUME NEW reg, Registry(reg), NEW g, NEW last, NEW reached,
         ActionTables(g) \ DOMAIN reg.execution # {} => last \in PolicyTable
  PROVE  Maintained(MaintainTriggers(reg, g, last, reached), reg, g, last)
<1> DEFINE exe == reg.execution
           curr == ActionTables(g)
           made == Made(exe, g, last)
           gone == Gone(exe, g)
           idx1 == Register(reg.index, g, made)
           trg1 == reg.triggers \cup made
           kept == {x \in gone : UnregisterFails(idx1, trg1, g, x)}
           exe1 == [t \in DOMAIN exe \cup {x.table : x \in made} |->
                      IF t \in DOMAIN exe THEN exe[t] ELSE CHOOSE x \in made : x.table = t]
           D == DOMAIN exe1 \ {x.table : x \in gone \ kept}
           m == MaintainTriggers(reg, g, last, reached)
<1>1. m = [triggers |-> trg1 \ gone, index |-> Unregister(idx1, g, gone \cap trg1, reached),
           execution |-> [t \in D |-> exe1[t]]]
  BY DEF MaintainTriggers, Made, Gone, ActionTrigger, ActionTables
<1>2. /\ reg.triggers \in SUBSET Trigger /\ reg.index \in Index /\ DOMAIN exe \in SUBSET PolicyTable
      /\ \A t \in DOMAIN exe : \E a \in PolicyTable : exe[t] = ActionTrigger(t, a)
  BY DEF Registry, Executes
<1>3. curr \in SUBSET PolicyTable
  BY DEF ActionTables
<1>4. ASSUME NEW t \in curr \ DOMAIN exe
      PROVE  /\ last \in PolicyTable /\ ActionTrigger(t, last) \in made
             /\ ActionTrigger(t, last) \in Trigger /\ ActionTrigger(t, last).table = t
  BY <1>3, ActionTriggerType DEF Made
<1>5. \A x \in made : \E t \in curr \ DOMAIN exe : x = ActionTrigger(t, last)
  BY DEF Made
<1>6. made \in SUBSET Trigger /\ {x.table : x \in made} = curr \ DOMAIN exe
  BY <1>4, <1>5
<1>7. ASSUME NEW t \in DOMAIN exe PROVE exe[t] \in Trigger /\ exe[t].table = t
  <2> HIDE DEF exe
  <2>1. PICK a \in PolicyTable : exe[t] = ActionTrigger(t, a)
    BY <1>2
  <2>2. t \in PolicyTable
    BY <1>2
  <2>3. ActionTrigger(t, a) \in Trigger /\ ActionTrigger(t, a).table = t
    BY <2>2, ActionTriggerType
  <2> QED BY <2>1, <2>3
<1>8. \A x \in gone : \E t \in DOMAIN exe \ curr : x = exe[t]
  BY DEF Gone
<1>9. gone \in SUBSET Trigger /\ {x.table : x \in gone} = DOMAIN exe \ curr
  BY <1>7, <1>8 DEF Gone
<1>10. ASSUME NEW t \in curr \ DOMAIN exe
       PROVE  (CHOOSE x \in made : x.table = t) = ActionTrigger(t, last)
  <2>1. \A x \in made : x.table = t => x = ActionTrigger(t, last)
    BY <1>4, <1>5
  <2> QED BY <1>4, <2>1
<1> HIDE DEF m, curr, made, gone, exe
<1>11. DOMAIN exe1 = DOMAIN exe \cup curr
  BY <1>6
<1>12. ASSUME NEW t \in DOMAIN exe1
       PROVE  \/ t \in DOMAIN exe /\ exe1[t] = exe[t]
              \/ t \in curr \ DOMAIN exe /\ exe1[t] = ActionTrigger(t, last)
  BY <1>10, <1>11
<1> HIDE DEF exe1
<1>13. idx1 \in Index /\ \A t : Entries(idx1, t) = Entries(reg.index, t) \cup Watching(g, made, t)
  BY <1>2, <1>6, RegisterEffect
<1> HIDE DEF idx1
<1> DEFINE idx2 == Unregister(idx1, g, gone \cap trg1, reached)
<1>14. /\ idx2 \in Index
       /\ \A t : Entries(idx2, t) \subseteq Entries(idx1, t) /\ Entries(idx1, t) \ gone \subseteq Entries(idx2, t)
  <2>1. gone \cap trg1 \in SUBSET Trigger
    BY <1>9
  <2> QED BY <1>13, <2>1, UnregisterEffect
<1> HIDE DEF idx2
<1>15. m.triggers = trg1 \ gone /\ m.index = idx2 /\ m.execution = [t \in D |-> exe1[t]]
  BY <1>1 DEF idx2
<1>16. ASSUME NEW t \in curr PROVE t \in D
  BY <1>7, <1>8, <1>9, <1>11
<1>17. ASSUME NEW t \in D \ curr PROVE UnregisterFails(idx1, trg1, g, exe[t])
  <2>1. t \in DOMAIN exe \ curr
    BY <1>11
  <2>2. exe[t] \in gone /\ exe[t].table = t
    BY <1>7, <2>1 DEF Gone, gone, exe, curr
  <2> QED BY <1>17, <2>2
<1> HIDE DEF kept
<1>18. D \subseteq DOMAIN exe1
  OBVIOUS
<1> HIDE DEF D
<1>19. DOMAIN m.execution = D /\ \A t \in D : m.execution[t] = exe1[t]
  BY <1>15
<1>20. Executes(m.execution)
  <2>1. m.execution = [t \in DOMAIN m.execution |-> m.execution[t]]
    BY <1>15
  <2>2. DOMAIN m.execution \in SUBSET PolicyTable
    BY <1>2, <1>3, <1>11, <1>18, <1>19
  <2>3. ASSUME NEW t \in D PROVE \E a \in PolicyTable : exe1[t] = ActionTrigger(t, a)
    BY <1>2, <1>4, <1>12, <1>18
  <2> QED BY <1>19, <2>1, <2>2, <2>3 DEF Executes
<1>21. Registry(m)
  BY <1>2, <1>6, <1>14, <1>15, <1>20 DEF Registry
<1>22. \A t : LET all == Entries(reg.index, t) \cup Watching(g, made, t)
              IN  Entries(m.index, t) \subseteq all /\ all \ gone \subseteq Entries(m.index, t)
  BY <1>13, <1>14, <1>15
<1>23. \A t \in D : \/ t \in DOMAIN exe /\ m.execution[t] = exe[t]
                    \/ t \in curr \ DOMAIN exe /\ m.execution[t] = ActionTrigger(t, last)
  BY <1>12, <1>18, <1>19
<1> QED BY <1>15, <1>16, <1>17, <1>19, <1>21, <1>22, <1>23
        DEF Maintained, m, exe, curr, made, gone, idx1

\* The registry of a state.
registry == [triggers |-> triggers, index |-> index, execution |-> execution]

LEMMA RegistryFields ==
  registry.triggers = triggers /\ registry.index = index /\ registry.execution = execution
BY DEF registry

\* Calls are made for what tables have afterwards, and for every trigger in trigs whose
\* table has changed.
CallsFor(calls, trigs, R, F) ==
  /\ \A c \in calls :
       c.trigger \in trigs /\ c.new = Contents(R, F, c.trigger.table, c.trigger.modal)
  /\ \A x \in trigs : Contents(rules, facts, x.table, x.modal) # Contents(R, F, x.table, x.modal)
       => \E c \in calls : c.trigger = x

\* The calls an update makes: for relevant triggers, with different contents of
\* before and after.
LEMMA ChangedCallsEffect ==
  ASSUME NEW trigs \in SUBSET Trigger, NEW R, NEW F
  PROVE  ChangedCalls(trigs, R, F) \in SUBSET Call /\ CallsFor(ChangedCalls(trigs, R, F), trigs, R, F)
<1> DEFINE old(x) == Contents(rules, facts, x.table, x.modal)
           new(x) == Contents(R, F, x.table, x.modal)
           call(x) == [trigger |-> x, old |-> old(x), new |-> new(x)]
           calls == ChangedCalls(trigs, R, F)
<1>1. calls = {c \in {call(x) : x \in trigs} : c.old # c.new}
  BY DEF ChangedCalls
<1>2. \A x \in trigs : old(x) \in SUBSET Row /\ new(x) \in SUBSET Row
  BY DEF Contents, Derived
<1> HIDE DEF old, new, calls
<1>3. \A x \in trigs : call(x) \in Call
  BY <1>2 DEF Call
<1>4. \A x \in trigs : call(x).trigger = x /\ call(x).old = old(x) /\ call(x).new = new(x)
  OBVIOUS
<1> HIDE DEF call
<1>5. calls \in SUBSET Call
  BY <1>1, <1>3
<1>6. \A c \in calls : c.trigger \in trigs /\ c.new = new(c.trigger)
  BY <1>1, <1>4
<1>7. \A x \in trigs : old(x) # new(x) => \E c \in calls : c.trigger = x
  BY <1>1, <1>4
<1> QED BY <1>5, <1>6, <1>7 DEF CallsFor, calls, old, new

\* The relevant triggers are those that are indexed under the tables.
LEMMA RelevantEntries ==
  ASSUME NEW idx \in Index, NEW T
  PROVE  /\ RelevantTriggers(idx, T) = UNION {Entries(idx, t) : t \in T}
         /\ RelevantTriggers(idx, T) \in SUBSET Trigger
<1>1. RelevantTriggers(idx, T) = UNION {Entries(idx, t) : t \in T}
  BY DEF RelevantTriggers, Entries
<1>2. \A t : Entries(idx, t) \in SUBSET Trigger
  BY IndexShape DEF Entries
<1> QED BY <1>1, <1>2

\* The index that an update builds afresh.
LEMMA UpdateDependenciesEffect ==
  ASSUME NEW g, NEW N \in SUBSET Trigger
  PROVE  /\ UpdateDependencies(g, N) \in Index
         /\ \A t : Entries(UpdateDependencies(g, N), t) = Watching(g, N, t)
<1> DEFINE none == [t \in {} |-> {}]
<1>1. none \in Index /\ \A t : Entries(none, t) = {}
  <2>1. none = [t \in DOMAIN none |-> none[t]] /\ DOMAIN none = {}
    OBVIOUS
  <2> HIDE DEF none
  <2> QED BY <2>1, IndexShape DEF Entries
<1>2. UpdateDependencies(g, N) = Register(none, g, N)
  BY DEF UpdateDependencies
<1> HIDE DEF none
<1>3. /\ Register(none, g, N) \in Index
      /\ \A t : Entries(Register(none, g, N), t) = Entries(none, t) \cup Watching(g, N, t)
  BY <1>1, RegisterEffect
<1> QED BY <1>1, <1>2, <1>3

\* What an update that is not refused does: m is the registry it maintained, calls
\* are the calls it makes.
Applied(t, g, changed, R, F, j, m, last, calls) ==
  /\ ActionTables(g) \subseteq DOMAIN execution \/ last \in ActionTables(g) \ DOMAIN execution
  /\ Maintained(m, registry, g, last)
  /\ calls = ChangedCalls(RelevantTriggers(m.index, changed), R, F)
  /\ triggers' = m.triggers /\ execution' = m.execution
  /\ index' = UpdateDependencies(g, m.triggers)
  /\ SameCounts(graph', g)
  /\ rules' = R /\ facts' = F
  /\ Continue(t, [j EXCEPT !.calls = calls], R)
  /\ Owes(calls)
  /\ overtakes' \in {overtakes, overtakes + 1} /\ overtakes' <= MaxOvertakes
  /\ UNCHANGED <<subVars, dropped, aborted>>

LEMMA ApplyUpdateEffect ==
  ASSUME Registry(registry), overtakes \in Nat, NEW g \in Graph,
         NEW t, NEW changed, NEW R, NEW F, NEW j, ApplyUpdate(t, g, changed, R, F, j)
  PROVE  \E m, last, calls : Applied(t, g, changed, R, F, j, m, last, calls)
<1> DEFINE new == ActionTables(g) \ DOMAIN execution
           m(last, reached) == MaintainTriggers(registry, g, last, reached)
           calls(last, reached) == ChangedCalls(RelevantTriggers(m(last, reached).index, changed), R, F)
<1>1. NewActionTables(g) = new
  BY DEF NewActionTables, ActionTables
<1>2. PICK last, reached, ts :
        /\ last \in (IF new = {} THEN {Nobody} ELSE new)
        /\ triggers' = m(last, reached).triggers /\ execution' = m(last, reached).execution
        /\ index' = UpdateDependencies(g, m(last, reached).triggers)
        /\ graph' = AfterDependencies(g, ts)
        /\ rules' = R /\ facts' = F
        /\ Continue(t, [j EXCEPT !.calls = calls(last, reached)], R)
        /\ Owes(calls(last, reached))
        /\ overtakes' = overtakes + (IF R # rules /\ Overtakes(t) THEN 1 ELSE 0)
        /\ overtakes' <= MaxOvertakes
        /\ UNCHANGED <<subVars, dropped, aborted>>
  BY <1>1 DEF ApplyUpdate, registry
<1>3. SameCounts(graph', g)
  BY <1>2, AfterDependenciesEffect
<1>4. overtakes' \in {overtakes, overtakes + 1}
  BY <1>2
<1>5. new # {} => last \in new /\ last \in PolicyTable
  BY <1>2 DEF ActionTables
<1>6. Maintained(m(last, reached), registry, g, last)
  BY <1>5, MaintainEffect, RegistryFields
<1> HIDE DEF m
<1>7. Applied(t, g, changed, R, F, j, m(last, reached), last, calls(last, reached))
  BY <1>2, <1>3, <1>4, <1>5, <1>6 DEF Applied
<1> QED BY <1>7

-----------------------------------------------------------------------------
(***************************************************************************)
(* Types.                                                                  *)
(***************************************************************************)
\* Who holds the rule lock is working.
LockHeld(jobs, lock) ==
  /\ lock \in Thread \cup {Nobody}
  /\ lock # Nobody => jobs[lock].step \in {"locked", "subscribing"}

TheoryTypes == rules \in Theories /\ facts \in Facts /\ graph \in Graph
JobTypes == job \in [Thread -> Job] /\ subscribed \in SUBSET DataTable /\ LockHeld(job, ruleLock)
OutputTypes == published \in [Observed -> SUBSET Row]
OwedTypes == owed \in [Observed -> SUBSET Row]
RegistryTypes ==
  Registry(registry) /\ policySubData \in SUBSET Observed /\ wanted \in SUBSET Observed
CountTypes ==
  dropped \in 0 .. MaxDropped /\ overtakes \in 0 .. MaxOvertakes /\ aborted \in BOOLEAN

TypeInv == TheoryTypes /\ JobTypes /\ OutputTypes /\ OwedTypes /\ RegistryTypes /\ CountTypes

\* One thread's job changes.
LEMMA JobTypesStep ==
  ASSUME JobTypes, NEW t \in Thread, NEW k \in Job, job' = [job EXCEPT ![t] = k],
         subscribed' \in SUBSET DataTable,
         \/ ruleLock' = t /\ k.step \in {"locked", "subscribing"}
         \/ ruleLock' = ruleLock /\ (ruleLock = t => k.step \in {"locked", "subscribing"})
         \/ ruleLock' = Nobody
  PROVE  JobTypes'
<1>1. job \in [Thread -> Job] /\ LockHeld(job, ruleLock)
  BY DEF JobTypes
<1>2. job' \in [Thread -> Job] /\ job'[t] = k /\ \A o \in Thread : o # t => job'[o] = job[o]
  <2> DEFINE A == Job
  <2>1. job \in [Thread -> A] /\ k \in A
    BY <1>1
  <2> HIDE DEF A
  <2>2. job' \in [Thread -> A] /\ job'[t] = k /\ \A o \in Thread : o # t => job'[o] = job[o]
    BY <2>1
  <2> QED BY <2>2 DEF A
<1>3. LockHeld(job', ruleLock')
  BY <1>1, <1>2, UpdateBounds DEF LockHeld
<1> QED BY <1>2, <1>3 DEF JobTypes

\* A job in the loop of subscriptions.
LEMMA IdleJobs ==
  /\ Idle \in Job /\ Idle.step = "idle"
  /\ \A add \in SUBSET DataTable, rem \in SUBSET DataTable :
       LET k == [Idle EXCEPT !.step = "subscribing", !.add = add, !.rem = rem]
       IN  k \in Job /\ k.step = "subscribing"
BY DEF Idle, Job

\* A turn of the loop of subscriptions.
LEMMA SubscribeNextTypes ==
  ASSUME JobTypes, NEW t \in Thread, NEW j,
         NEW add \in SUBSET DataTable, NEW rem \in SUBSET DataTable, SubscribeNext(t, j, add, rem)
  PROVE  JobTypes'
<1>1. ASSUME NEW d \in add, subscribed' = subscribed \cup {d},
             job' = [job EXCEPT ![t] = [Idle EXCEPT !.step = "subscribing", !.add = add \ {d},
                                                    !.rem = rem]],
             ruleLock' = IF j.step = "locked" THEN t ELSE ruleLock
      PROVE  JobTypes'
  <2>1. PICK k : k = [Idle EXCEPT !.step = "subscribing", !.add = add \ {d}, !.rem = rem]
    OBVIOUS
  <2>2. add \ {d} \in SUBSET DataTable
    OBVIOUS
  <2>3. k \in Job /\ k.step = "subscribing"
    BY <2>1, <2>2, IdleJobs
  <2>4. subscribed' \in SUBSET DataTable
    BY <1>1 DEF JobTypes
  <2>5. job' = [job EXCEPT ![t] = k]
    BY <1>1, <2>1
  <2>6. ruleLock' = t \/ ruleLock' = ruleLock
    BY <1>1
  <2> QED BY <2>3, <2>4, <2>5, <2>6, JobTypesStep
<1>2. ASSUME subscribed' = subscribed \ rem, job' = [job EXCEPT ![t] = Idle],
             ruleLock' = IF ruleLock = t THEN Nobody ELSE ruleLock
      PROVE  JobTypes'
  <2>1. subscribed' \in SUBSET DataTable
    BY <1>2 DEF JobTypes
  <2>2. ruleLock' = Nobody \/ (ruleLock' = ruleLock /\ ruleLock # t)
    BY <1>2
  <2> QED BY <1>2, <2>1, <2>2, IdleJobs, JobTypesStep
<1> QED BY <1>1, <1>2 DEF SubscribeNext

\* What the rules mention are tables of datasources.
LEMMA BodyTablesType == \A R : BodyTables(R) \in SUBSET DataTable
BY DEF BodyTables

\* What a callback publishes are rows.
LEMMA CallbackTypes ==
  ASSUME OutputTypes, NEW c \in Call, Callback(c)
  PROVE  OutputTypes'
<1>1. c.new \in SUBSET Row
  BY DEF Call
<1> DEFINE A == SUBSET Row
<1>2. published \in [Observed -> A] /\ c.new \in A
  BY <1>1 DEF OutputTypes
<1>3. published' = published \/ published' = [published EXCEPT ![c.trigger.table] = c.new]
  BY DEF Callback
<1> HIDE DEF A
<1>4. published' \in [Observed -> A]
  BY <1>2, <1>3
<1> QED BY <1>4 DEF A, OutputTypes

\* How an update by a thread that was idle leaves it.
LEMMA ContinueTypes ==
  ASSUME JobTypes, OutputTypes, NEW t \in Thread, job[t].step = "idle", NEW R,
         NEW j \in Job, j.step \in {"locked", "unlocked", "policy", "data"}, Continue(t, j, R)
  PROVE  JobTypes' /\ OutputTypes'
<1>1. /\ j.calls \in SUBSET Call /\ j.old \in SUBSET DataTable
      /\ ruleLock # t
  BY UpdateBounds DEF JobTypes, LockHeld, Job
<1>2. ASSUME NEW c \in j.calls, Callback(c),
             job' = [job EXCEPT ![t] = [j EXCEPT !.calls = @ \ {c}]],
             ruleLock' = IF j.step = "locked" THEN t ELSE ruleLock, UNCHANGED subscribed
      PROVE  JobTypes' /\ OutputTypes'
  <2>1. PICK k : k = [j EXCEPT !.calls = @ \ {c}]
    OBVIOUS
  <2>2. k \in Job /\ k.step = j.step
    BY <1>1, <2>1 DEF Job
  <2>3. job' = [job EXCEPT ![t] = k] /\ subscribed' \in SUBSET DataTable
    BY <1>2, <2>1 DEF JobTypes
  <2>4. (ruleLock' = t /\ k.step = "locked") \/ (ruleLock' = ruleLock /\ ruleLock # t)
    BY <1>1, <1>2, <2>2
  <2> QED BY <1>1, <1>2, <2>2, <2>3, <2>4, JobTypesStep, CallbackTypes
<1>3. ASSUME SubscribeNext(t, j, BodyTables(R) \ j.old, j.old \ BodyTables(R)), UNCHANGED published
      PROVE  JobTypes' /\ OutputTypes'
  <2> DEFINE add == BodyTables(R) \ j.old
             rem == j.old \ BodyTables(R)
  <2>1. add \in SUBSET DataTable /\ rem \in SUBSET DataTable /\ SubscribeNext(t, j, add, rem)
    BY <1>1, <1>3, BodyTablesType
  <2> HIDE DEF add, rem
  <2> QED BY <1>3, <2>1, SubscribeNextTypes DEF OutputTypes
<1>4. ASSUME UNCHANGED <<job, ruleLock, subscribed, published>>
      PROVE  JobTypes' /\ OutputTypes'
  BY <1>4 DEF JobTypes, OutputTypes
<1> QED BY <1>2, <1>3, <1>4 DEF Continue

\* What a call is made for are rows.
LEMMA OwesTypes ==
  ASSUME OwedTypes, NEW calls \in SUBSET Call, Owes(calls)
  PROVE  OwedTypes'
<1> DEFINE A == SUBSET Row
           of(v) == {c \in calls : c.trigger = SubTrigger(v)}
           pick(v) == CHOOSE c \in calls : c.trigger = SubTrigger(v)
<1>1. owed' = [v \in Observed |-> IF \E c \in calls : c.trigger = SubTrigger(v)
                                    THEN pick(v).new ELSE owed[v]]
  BY DEF Owes
<1>2. ASSUME NEW v \in Observed, \E c \in calls : c.trigger = SubTrigger(v)
      PROVE  pick(v).new \in A
  <2>1. pick(v) \in calls
    BY <1>2
  <2> HIDE DEF pick
  <2> QED BY <2>1 DEF Call
<1>3. \A v \in Observed : owed[v] \in A
  BY DEF OwedTypes
<1> HIDE DEF pick, A
<1>4. owed' \in [Observed -> A]
  BY <1>1, <1>2, <1>3
<1> QED BY <1>4 DEF A, OwedTypes

\* An update that is not refused.
LEMMA ApplyUpdateTypes ==
  ASSUME TypeInv, NEW t \in Thread, job[t].step = "idle", NEW g \in Graph, NEW changed,
         NEW R \in Theories, NEW F \in Facts,
         NEW j \in Job, j.step \in {"locked", "unlocked", "policy", "data"},
         ApplyUpdate(t, g, changed, R, F, j)
  PROVE  TypeInv'
<1>1. /\ Registry(registry) /\ overtakes \in 0 .. MaxOvertakes /\ JobTypes /\ OutputTypes /\ OwedTypes
      /\ policySubData \in SUBSET Observed /\ wanted \in SUBSET Observed
      /\ dropped \in 0 .. MaxDropped /\ aborted \in BOOLEAN
  BY DEF TypeInv, RegistryTypes, CountTypes
<1>2. PICK m, last, calls : Applied(t, g, changed, R, F, j, m, last, calls)
  BY <1>1, ApplyUpdateEffect
<1>3. /\ Registry(m)
      /\ calls = ChangedCalls(RelevantTriggers(m.index, changed), R, F)
      /\ triggers' = m.triggers /\ execution' = m.execution
      /\ index' = UpdateDependencies(g, m.triggers)
      /\ graph' \in Graph /\ rules' = R /\ facts' = F
      /\ Continue(t, [j EXCEPT !.calls = calls], R) /\ Owes(calls)
  BY <1>2 DEF Applied, Maintained, SameCounts
<1>4. /\ overtakes' \in {overtakes, overtakes + 1} /\ overtakes' <= MaxOvertakes
      /\ policySubData' = policySubData /\ wanted' = wanted
      /\ dropped' = dropped /\ aborted' = aborted
  BY <1>2 DEF Applied, subVars
<1>5. TheoryTypes'
  BY <1>3 DEF TheoryTypes
<1>6. calls \in SUBSET Call
  <2> DEFINE trigs == RelevantTriggers(m.index, changed)
  <2>1. m.index \in Index
    BY <1>3 DEF Registry
  <2>2. trigs \in SUBSET Trigger
    BY <2>1, RelevantEntries
  <2> HIDE DEF trigs
  <2>3. ChangedCalls(trigs, R, F) \in SUBSET Call
    BY <2>2, ChangedCallsEffect
  <2> QED BY <1>3, <2>3 DEF trigs
<1>7. JobTypes' /\ OutputTypes'
  <2>1. PICK k : k = [j EXCEPT !.calls = calls]
    OBVIOUS
  <2>2. k \in Job /\ k.step = j.step
    BY <1>6, <2>1 DEF Job
  <2>3. Continue(t, k, R)
    BY <1>3, <2>1
  <2> QED BY <1>1, <2>2, <2>3, ContinueTypes
<1>8. OwedTypes'
  BY <1>1, <1>3, <1>6, OwesTypes
<1>9. RegistryTypes'
  <2>1. m.triggers \in SUBSET Trigger /\ Executes(m.execution)
    BY <1>3 DEF Registry
  <2>2. index' \in Index
    BY <1>3, <2>1, UpdateDependenciesEffect
  <2>3. /\ registry'.triggers = m.triggers /\ registry'.index = index'
        /\ registry'.execution = m.execution
    BY <1>3 DEF registry
  <2>4. Registry(registry')
    BY <2>1, <2>2, <2>3 DEF Registry
  <2> QED BY <1>1, <1>4, <2>4 DEF RegistryTypes
<1>10. CountTypes'
  <2>1. overtakes' \in 0 .. MaxOvertakes
    BY <1>1, <1>4, UpdateBounds
  <2> QED BY <1>1, <1>4, <2>1 DEF CountTypes
<1> QED BY <1>5, <1>7, <1>8, <1>9, <1>10 DEF TypeInv

\* Updating a graph with events, and undoing them, leaves a graph.
LEMMA GraphUpdateTypes ==
  ASSUME NEW g \in Graph, NEW evs, Log(evs)
  PROVE  GraphUpdate(g, evs) \in Graph /\ UndoChanges(g, evs) \in Graph
<1> DEFINE K == (SUBSET DOMAIN evs) \X Graph
<1>1. <<{}, g>> \in K
  OBVIOUS
<1>2. ASSUME NEW s \in SUBSET DOMAIN evs, NEW i \in s, NEW d \in Graph
      PROVE  <<s, FormulaUpdate(d, evs[i])>> \in K /\ <<s, FormulaUndo(d, evs[i])>> \in K
  <2>1. evs[i] \in Event
    BY DEF Log
  <2> QED BY <2>1, EventTypes
<1> HIDE DEF K
<1>3. GraphUpdate(g, evs) \in Graph
  BY <1>1, <1>2, GraphUpdateInduction
<1>4. UndoChanges(g, evs) \in Graph
  BY <1>1, <1>2, UndoChangesInduction
<1> QED BY <1>3, <1>4

\* A step that leaves all typed variables but the graph alone.
LEMMA RefuseTypes ==
  ASSUME TypeInv, NEW g \in Graph, NEW evs, RefuseUpdate(g, evs)
  PROVE  TypeInv'
<1>1. /\ graph' = g
      /\ UNCHANGED <<rules, facts, triggers, index, execution, policySubData, wanted, published,
                     subscribed, job, ruleLock, dropped, overtakes, owed, aborted>>
  BY DEF RefuseUpdate, triggerVars, subVars
<1>2. TheoryTypes' /\ JobTypes' /\ OutputTypes' /\ OwedTypes' /\ RegistryTypes' /\ CountTypes'
  BY <1>1 DEF TypeInv, TheoryTypes, JobTypes, OutputTypes, OwedTypes, RegistryTypes, CountTypes,
              registry
<1> QED BY <1>2 DEF TypeInv

\* An update of rules, refused or not.
LEMMA UpdateTypes ==
  ASSUME TypeInv, NEW t \in Thread, job[t].step = "idle", NEW evs, Log(evs),
         NEW j \in Job, j.step \in {"locked", "unlocked", "policy", "data"}, Update(t, evs, j)
  PROVE  TypeInv'
<1> DEFINE act == ActualEvents(evs)
           G == GraphUpdate(graph, act)
           g == Searched(G)
           R == TheoryUpdate(rules, act)
<1>1. graph \in Graph /\ rules \in Theories /\ facts \in Facts
  BY DEF TypeInv, TheoryTypes
<1>2. Log(act)
  BY ActualLog
<1>3. \/ RefuseUpdate(UndoChanges(g, act), act)
      \/ \E changed : ApplyUpdate(t, g, changed, R, facts, j)
  BY DEF Update
<1> HIDE DEF act
<1>4. G \in Graph
  BY <1>1, <1>2, GraphUpdateTypes
<1> HIDE DEF G
<1>5. g \in Graph
  BY <1>4, SearchedEffect DEF SameCounts
<1> HIDE DEF g
<1>6. UndoChanges(g, act) \in Graph
  BY <1>2, <1>5, GraphUpdateTypes
<1>7. R \in Theories
  BY <1>1, <1>2, TheoryUpdateType DEF Theories
<1> HIDE DEF R
<1> QED BY <1>1, <1>3, <1>5, <1>6, <1>7, RefuseTypes, ApplyUpdateTypes

\* The operations that change rules, and how they do it: with a batch, or with events
\* of which at most one is an insertion.
ChangesRules(t) ==
  \/ \E p \in Policy, r \in Rule : InsertRule(t, p, r)
  \/ \E p \in Policy, r \in Rule : DeleteRule(t, p, r)
  \/ \E evs \in Batch : SynchronizeRules(t, evs)
  \/ \E p \in Policy : DeletePolicy(t, p)

Distinct(evs) == OneTarget(evs) /\ \A i, k \in DOMAIN evs : evs[i] = evs[k] => i = k
OneInsertion(evs) == \A i, k \in DOMAIN evs : evs[i].insert /\ evs[k].insert => i = k

UpdatesWith(t, evs, j) ==
  /\ job[t].step = "idle" /\ Log(evs) /\ (DistinctBatches => Distinct(evs))
  /\ evs \in Batch \/ OneInsertion(evs)
  /\ j \in Job /\ j.step \in {"locked", "unlocked", "policy"}
  /\ Update(t, evs, j)

LEMMA RuleUpdates ==
  ASSUME rules \in Theories, NEW t \in Thread, ChangesRules(t)
  PROVE  \E evs, j : UpdatesWith(t, evs, j)
<1>1. \A st \in {"locked", "unlocked"} :
        [Idle EXCEPT !.step = st, !.old = BodyTables(rules)] \in Job
  BY BodyTablesType DEF Idle, Job
<1>2. ASSUME NEW evs, NEW st \in {"locked", "unlocked"}, job[t].step = "idle", Log(evs),
             DistinctBatches => Distinct(evs), evs \in Batch \/ OneInsertion(evs),
             Update(t, evs, [Idle EXCEPT !.step = st, !.old = BodyTables(rules)])
      PROVE  \E e, j : UpdatesWith(t, e, j)
  <2>1. PICK j : j = [Idle EXCEPT !.step = st, !.old = BodyTables(rules)]
    OBVIOUS
  <2>2. j \in Job /\ j.step = st /\ Update(t, evs, j)
    BY <1>1, <1>2, <2>1 DEF Idle
  <2>3. UpdatesWith(t, evs, j)
    BY <1>2, <2>2 DEF UpdatesWith
  <2> QED BY <2>3
<1>3. ASSUME NEW p \in Policy, NEW r \in Rule, InsertRule(t, p, r)
      PROVE  \E e, j : UpdatesWith(t, e, j)
  <2> DEFINE evs == <<[insert |-> TRUE, target |-> p, rule |-> r]>>
  <2>1. Update(t, evs, [Idle EXCEPT !.step = "locked", !.old = BodyTables(rules)]) /\ job[t].step = "idle"
    BY <1>3 DEF InsertRule, LockedUpdate
  <2>2. Log(evs) /\ DOMAIN evs = {1}
    BY EventLists, ZenonT(60)
  <2> HIDE DEF evs
  <2>3. Distinct(evs) /\ OneInsertion(evs)
    BY <2>2 DEF Distinct, OneTarget, OneInsertion
  <2> QED BY <1>2, <2>1, <2>2, <2>3
<1>4. ASSUME NEW p \in Policy, NEW r \in Rule, DeleteRule(t, p, r)
      PROVE  \E e, j : UpdatesWith(t, e, j)
  <2> DEFINE evs == <<[insert |-> FALSE, target |-> p, rule |-> r]>>
  <2>1. Update(t, evs, [Idle EXCEPT !.step = "unlocked", !.old = BodyTables(rules)]) /\ job[t].step = "idle"
    BY <1>4 DEF DeleteRule
  <2>2. Log(evs) /\ DOMAIN evs = {1}
    BY EventLists, ZenonT(60)
  <2> HIDE DEF evs
  <2>3. Distinct(evs) /\ OneInsertion(evs)
    BY <2>2 DEF Distinct, OneTarget, OneInsertion
  <2> QED BY <1>2, <2>1, <2>2, <2>3
<1>5. ASSUME NEW evs \in Batch, SynchronizeRules(t, evs)
      PROVE  \E e, j : UpdatesWith(t, e, j)
  <2>1. Update(t, evs, [Idle EXCEPT !.step = "locked", !.old = BodyTables(rules)]) /\ job[t].step = "idle"
    BY <1>5 DEF SynchronizeRules, LockedUpdate
  <2>2. Log(evs) /\ (DistinctBatches => Distinct(evs))
    BY BatchLog DEF DistinctBatches, Distinct
  <2> QED BY <1>2, <2>1, <2>2
<1>6. ASSUME NEW p \in Policy, DeletePolicy(t, p)
      PROVE  \E e, j : UpdatesWith(t, e, j)
  <2> DEFINE evs == [i \in 1 .. Cardinality(rules[p]) |->
                       [insert |-> FALSE, target |-> p, rule |-> SetToSeq(rules[p])[i]]]
  <2>0. PICK j : j = [Idle EXCEPT !.step = "policy", !.drop = {p}]
    OBVIOUS
  <2>1. Update(t, evs, j) /\ job[t].step = "idle"
    BY <1>6, <2>0 DEF DeletePolicy
  <2>2. j \in Job /\ j.step = "policy"
    BY <2>0 DEF Job, Idle
  <2>3. rules[p] \in SUBSET Rule
    BY DEF Theories
  <2>4. Log(evs) /\ Distinct(evs) /\ \A i \in DOMAIN evs : ~ evs[i].insert
    BY <2>3, EventLists DEF Distinct
  <2> HIDE DEF evs
  <2>5. UpdatesWith(t, evs, j)
    BY <2>1, <2>2, <2>4 DEF UpdatesWith, OneInsertion
  <2> QED BY <2>5
<1> QED BY <1>3, <1>4, <1>5, <1>6 DEF ChangesRules

\* The types of the beginning.
LEMMA TypeInit == Init => TypeInv
<1> SUFFICES ASSUME Init PROVE TypeInv
  OBVIOUS
<1>1. TheoryTypes
  BY DEF Init, TheoryTypes, Theories, Facts, EmptyGraph, Graph
<1>2. JobTypes
  BY IdleJobs DEF Init, JobTypes, LockHeld
<1>3. OutputTypes /\ OwedTypes
  BY DEF Init, OutputTypes, OwedTypes
<1>4. CountTypes
  <2>1. dropped \in 0 .. MaxDropped /\ overtakes \in 0 .. MaxOvertakes
    BY UpdateBounds DEF Init
  <2>2. aborted \in BOOLEAN
    BY DEF Init
  <2> QED BY <2>1, <2>2 DEF CountTypes
<1>5. RegistryTypes
  <2>1. index = [t \in DOMAIN index |-> index[t]] /\ DOMAIN index = {}
    BY DEF Init
  <2>2. index \in Index
    BY <2>1, IndexShape
  <2>3. Executes(execution) /\ triggers \in SUBSET Trigger
    BY DEF Init, Executes
  <2> QED BY <2>2, <2>3, RegistryFields DEF Init, RegistryTypes, Registry
<1> QED BY <1>1, <1>2, <1>3, <1>4, <1>5 DEF TypeInv

SubTriggers(V) == {SubTrigger(v) : v \in V}

LEMMA SubTriggersType ==
  ASSUME NEW V \in SUBSET Observed
  PROVE  /\ SubTriggers(V) \in SUBSET Trigger
         /\ \A v \in V : /\ SubTrigger(v) \in Trigger /\ SubTrigger(v).table = v
                         /\ SubTrigger(v).modal = FALSE
<1>1. \A v \in V : v \in PolicyTable
  BY UpdateBounds DEF PolicyTable
<1>2. \A v \in V : SubTrigger(v) \in Trigger /\ SubTrigger(v).table = v
  BY <1>1 DEF SubTrigger, Trigger
<1>3. \A v \in V : SubTrigger(v).modal = FALSE
  BY DEF SubTrigger
<1> QED BY <1>2, <1>3 DEF SubTriggers

\* What the heartbeat does to the registry.
LEMMA SubscribersEffect ==
  ASSUME RegistryTypes, UpdateTablesWithSubscriber
  PROVE  LET added   == SubTriggers(wanted \ policySubData)
             removed == SubTriggers(policySubData \ wanted)
         IN  /\ RegistryTypes'
             /\ triggers' = (triggers \cup added) \ removed
             /\ \A t : Entries(index', t) = (Entries(index, t) \cup Watching(graph, added, t))
                                              \ Watching(graph, removed, t)
<1> DEFINE added == SubTriggers(wanted \ policySubData)
           removed == SubTriggers(policySubData \ wanted)
           idx == Register(index, graph, added)
<1>1. /\ triggers \in SUBSET Trigger /\ index \in Index /\ Executes(execution)
      /\ policySubData \in SUBSET Observed /\ wanted \in SUBSET Observed
  BY RegistryFields DEF RegistryTypes, Registry
<1>2. added \in SUBSET Trigger /\ removed \in SUBSET Trigger
  <2>1. wanted \ policySubData \in SUBSET Observed /\ policySubData \ wanted \in SUBSET Observed
    BY <1>1
  <2> QED BY <2>1, SubTriggersType
<1>3. /\ triggers' = (triggers \cup added) \ removed
      /\ index' = Unregister(idx, graph, removed, removed \X Table)
      /\ policySubData' = wanted /\ UNCHANGED <<execution, wanted>>
  BY DEF UpdateTablesWithSubscriber, SubTriggers
<1> HIDE DEF added, removed
<1>4. idx \in Index /\ \A t : Entries(idx, t) = Entries(index, t) \cup Watching(graph, added, t)
  BY <1>1, <1>2, RegisterEffect
<1> HIDE DEF idx
<1>5. /\ index' \in Index
      /\ \A t : Entries(index', t) = Entries(idx, t) \ Watching(graph, removed, t)
  BY <1>2, <1>3, <1>4, UnregisterEffect
<1>6. \A t : Entries(index', t) = (Entries(index, t) \cup Watching(graph, added, t))
                                    \ Watching(graph, removed, t)
  BY <1>3, <1>4, <1>5
<1>7. triggers' \in SUBSET Trigger /\ index' \in Index /\ Executes(execution')
  BY <1>1, <1>2, <1>3, <1>5
<1>8. registry'.triggers = triggers' /\ registry'.index = index' /\ registry'.execution = execution'
  BY DEF registry
<1>9. RegistryTypes'
  BY <1>1, <1>3, <1>7, <1>8 DEF RegistryTypes, Registry
<1> QED BY <1>3, <1>6, <1>9 DEF added, removed

\* Every step keeps the types.
LEMMA TypeStep == TypeInv /\ [Next]_vars => TypeInv'
<1> SUFFICES ASSUME TypeInv, [Next]_vars PROVE TypeInv'
  OBVIOUS
<1>0. TheoryTypes /\ JobTypes /\ OutputTypes /\ OwedTypes /\ RegistryTypes /\ CountTypes
  BY DEF TypeInv
<1>1. rules \in Theories /\ facts \in Facts /\ graph \in Graph
  BY <1>0 DEF TheoryTypes
<1>2. /\ UNCHANGED <<rules, facts, graph>> => TheoryTypes'
      /\ UNCHANGED <<job, subscribed, ruleLock>> => JobTypes'
      /\ UNCHANGED published => OutputTypes'
      /\ UNCHANGED owed => OwedTypes'
      /\ UNCHANGED <<triggers, index, execution, policySubData, wanted>> => RegistryTypes'
      /\ UNCHANGED <<dropped, overtakes, aborted>> => CountTypes'
  BY <1>0 DEF TheoryTypes, JobTypes, OutputTypes, OwedTypes, RegistryTypes, CountTypes, registry
<1>3. \A t \in Thread : job[t] \in Job
  BY <1>0 DEF JobTypes
<1>4. ASSUME NEW t \in Thread, ChangesRules(t) PROVE TypeInv'
  <2>1. PICK evs, j : UpdatesWith(t, evs, j)
    BY <1>1, <1>4, RuleUpdates
  <2> QED BY <2>1, UpdateTypes DEF UpdatesWith
<1>5. ASSUME NEW d \in DataTable, NEW rows \in SUBSET Row PROVE [facts EXCEPT ![d] = rows] \in Facts
  BY <1>1 DEF Facts
<1>6. ASSUME NEW t \in Thread, NEW d \in DataTable, NEW rows \in SUBSET Row,
             ReceiveDataUpdate(t, d, rows)
      PROVE  TypeInv'
  <2> DEFINE g == Searched(graph)
             F == [facts EXCEPT ![d] = rows]
  <2>1. PICK j : j = [Idle EXCEPT !.step = "data"]
    OBVIOUS
  <2>2. j \in Job /\ j.step = "data"
    BY <2>1 DEF Idle, Job
  <2>3. /\ job[t].step = "idle"
        /\ RefuseUpdate(g, <<>>) \/ ApplyUpdate(t, g, {d}, rules, F, j)
    BY <1>6, <2>1 DEF ReceiveDataUpdate
  <2>4. g \in Graph /\ F \in Facts
    BY <1>1, <1>5, SearchedEffect DEF SameCounts
  <2> HIDE DEF g, F
  <2> QED BY <1>1, <2>2, <2>3, <2>4, RefuseTypes, ApplyUpdateTypes
<1>7. ASSUME NEW t \in Thread, NEW d \in DataTable, NEW rows \in SUBSET Row,
             ReceiveDataFull(t, d, rows)
      PROVE  TypeInv'
  <2> DEFINE F == [facts EXCEPT ![d] = rows]
             trigs == RelevantTriggers(index, {d})
             calls == ChangedCalls(trigs, rules, F)
  <2>1. trigs \in SUBSET Trigger
    BY <1>0, RegistryFields, RelevantEntries DEF RegistryTypes, Registry
  <2>2. /\ job[t].step = "idle" /\ facts' = F
        /\ Continue(t, [Idle EXCEPT !.step = "data", !.calls = calls], rules) /\ Owes(calls)
        /\ UNCHANGED <<rules, graph, triggers, index, execution, policySubData, wanted,
                       dropped, overtakes, aborted>>
    BY <1>7 DEF ReceiveDataFull, triggerVars, subVars
  <2>3. F \in Facts
    BY <1>5
  <2> HIDE DEF trigs
  <2>4. calls \in SUBSET Call
    BY <2>1, ChangedCallsEffect
  <2> HIDE DEF calls, F
  <2>5. PICK j : j = [Idle EXCEPT !.step = "data", !.calls = calls]
    OBVIOUS
  <2>6. j \in Job /\ j.step = "data" /\ Continue(t, j, rules)
    BY <2>2, <2>4, <2>5 DEF Idle, Job
  <2>7. JobTypes' /\ OutputTypes'
    BY <1>0, <2>2, <2>6, ContinueTypes
  <2>8. OwedTypes'
    BY <1>0, <2>2, <2>4, OwesTypes
  <2>9. TheoryTypes'
    BY <1>1, <2>2, <2>3 DEF TheoryTypes
  <2> QED BY <1>2, <2>2, <2>7, <2>8, <2>9 DEF TypeInv
<1>8. ASSUME NEW t \in Thread, NEW c, NextCallback(t, c) PROVE TypeInv'
  <2>1. PICK k : k = [job[t] EXCEPT !.calls = @ \ {c}]
    OBVIOUS
  <2>2. /\ c \in job[t].calls /\ Callback(c) /\ job' = [job EXCEPT ![t] = k]
        /\ UNCHANGED <<rules, facts, graph, triggers, index, execution, policySubData, wanted,
                       subscribed, ruleLock, dropped, overtakes, owed, aborted>>
    BY <1>8, <2>1 DEF NextCallback, triggerVars, subVars
  <2>3. c \in Call /\ k \in Job /\ k.step = job[t].step
    BY <1>3, <2>1, <2>2 DEF Job
  <2>4. OutputTypes'
    BY <1>0, <2>2, <2>3, CallbackTypes
  <2>5. subscribed' \in SUBSET DataTable /\ (ruleLock = t => k.step \in {"locked", "subscribing"})
    BY <1>0, <2>2, <2>3, UpdateBounds DEF JobTypes, LockHeld
  <2>6. JobTypes'
    BY <1>0, <2>2, <2>3, <2>5, JobTypesStep
  <2> QED BY <1>2, <2>2, <2>4, <2>6 DEF TypeInv
<1>9. ASSUME NEW t \in Thread, NEW c, CallbackFails(t, c) PROVE TypeInv'
  <2>1. /\ job' = [job EXCEPT ![t] = Idle] /\ aborted' = TRUE
        /\ ruleLock' = IF ruleLock = t THEN Nobody ELSE ruleLock
        /\ UNCHANGED <<rules, facts, graph, triggers, index, execution, policySubData, wanted,
                       published, subscribed, dropped, overtakes, owed>>
    BY <1>9 DEF CallbackFails, triggerVars, subVars
  <2>2. subscribed' \in SUBSET DataTable
    BY <1>0, <2>1 DEF JobTypes
  <2>3. ruleLock' = Nobody \/ (ruleLock' = ruleLock /\ ruleLock # t)
    BY <2>1
  <2>4. JobTypes'
    BY <1>0, <2>1, <2>2, <2>3, IdleJobs, JobTypesStep
  <2>5. dropped' \in 0 .. MaxDropped /\ overtakes' \in 0 .. MaxOvertakes
    BY <1>0, <2>1 DEF CountTypes
  <2>6. aborted' \in BOOLEAN
    BY <2>1
  <2>7. CountTypes'
    BY <2>5, <2>6 DEF CountTypes
  <2> QED BY <1>2, <2>1, <2>4, <2>7 DEF TypeInv
<1>10. ASSUME NEW t \in Thread, UpdateTableSubscriptions(t) \/ SubscribeReturns(t) PROVE TypeInv'
  <2>1. PICK add, rem :
          /\ SubscribeNext(t, job[t], add, rem)
          /\ \/ add = BodyTables(rules) \ job[t].old /\ rem = job[t].old \ BodyTables(rules)
             \/ add = job[t].add /\ rem = job[t].rem
          /\ UNCHANGED <<rules, facts, graph, triggers, index, execution, policySubData, wanted,
                         published, dropped, overtakes, owed, aborted>>
    BY <1>10 DEF UpdateTableSubscriptions, SubscribeReturns, triggerVars, subVars
  <2>2. job[t].old \in SUBSET DataTable /\ job[t].add \in SUBSET DataTable /\ job[t].rem \in SUBSET DataTable
    BY <1>3 DEF Job
  <2>3. add \in SUBSET DataTable /\ rem \in SUBSET DataTable
    BY <2>1, <2>2, BodyTablesType
  <2>4. JobTypes'
    BY <1>0, <2>1, <2>3, SubscribeNextTypes
  <2> QED BY <1>2, <2>1, <2>4 DEF TypeInv
<1>11. ASSUME NEW t \in Thread, Finish(t) PROVE TypeInv'
  <2>1. /\ job[t].step \in {"policy", "data"} /\ job' = [job EXCEPT ![t] = Idle]
        /\ rules' = [p \in Policy |-> IF p \in job[t].drop THEN {} ELSE rules[p]]
        /\ dropped' = dropped + (IF rules' = rules THEN 0 ELSE 1) /\ dropped' <= MaxDropped
        /\ UNCHANGED <<facts, graph, triggers, index, execution, policySubData, wanted, published,
                       subscribed, ruleLock, overtakes, owed, aborted>>
    BY <1>11 DEF Finish, triggerVars, subVars
  <2>2. subscribed' \in SUBSET DataTable /\ ruleLock # t
    BY <1>0, <2>1, UpdateBounds DEF JobTypes, LockHeld
  <2>3. JobTypes'
    BY <1>0, <2>1, <2>2, IdleJobs, JobTypesStep
  <2>4. TheoryTypes'
    BY <1>1, <2>1 DEF TheoryTypes, Theories
  <2>5. dropped' \in 0 .. MaxDropped
    <3>1. dropped' = dropped \/ dropped' = dropped + 1
      BY <1>0, <2>1 DEF CountTypes
    <3>2. dropped \in 0 .. MaxDropped
      BY <1>0 DEF CountTypes
    <3> QED BY <2>1, <3>1, <3>2, UpdateBounds
  <2>6. CountTypes'
    BY <1>0, <2>1, <2>5 DEF CountTypes
  <2> QED BY <1>2, <2>1, <2>3, <2>4, <2>6 DEF TypeInv
<1>12. ASSUME NEW v \in Observed, PeerSubscribes(v) \/ PeerUnsubscribes(v) PROVE TypeInv'
  <2>1. /\ wanted' \in {wanted \cup {v}, wanted \ {v}}
        /\ \/ published' = published
           \/ published' = [published EXCEPT ![v] = Contents(rules, facts, v, FALSE)]
        /\ UNCHANGED <<rules, facts, graph, triggers, index, execution, policySubData, subscribed,
                       job, ruleLock, dropped, overtakes, owed, aborted>>
    BY <1>12 DEF PeerSubscribes, PeerUnsubscribes, triggerVars
  <2>2. Contents(rules, facts, v, FALSE) \in SUBSET Row
    BY DEF Contents, Derived
  <2>3. OutputTypes'
    <3> DEFINE A == SUBSET Row
               new == Contents(rules, facts, v, FALSE)
    <3>1. published \in [Observed -> A] /\ new \in A
      BY <1>0, <2>2 DEF OutputTypes
    <3>2. published' = published \/ published' = [published EXCEPT ![v] = new]
      BY <2>1
    <3> HIDE DEF A, new
    <3>3. published' \in [Observed -> A]
      BY <3>1, <3>2
    <3> QED BY <3>3 DEF A, OutputTypes
  <2>4. RegistryTypes'
    BY <1>0, <2>1 DEF RegistryTypes, registry
  <2> QED BY <1>2, <2>1, <2>3, <2>4 DEF TypeInv
<1>13. CASE UpdateTablesWithSubscriber
  <2>1. RegistryTypes'
    BY <1>0, <1>13, SubscribersEffect
  <2>2. PICK ts : /\ graph' = AfterDependencies(graph, ts)
                  /\ owed' = [v \in Observed |-> IF v \in wanted \ policySubData
                                         THEN Contents(rules, facts, v, FALSE) ELSE owed[v]]
                  /\ UNCHANGED <<rules, facts, published, subscribed, job, ruleLock, dropped,
                                 overtakes, aborted>>
    BY <1>13 DEF UpdateTablesWithSubscriber
  <2>3. TheoryTypes'
    BY <1>1, <2>2, AfterDependenciesEffect DEF TheoryTypes, SameCounts
  <2>4. OwedTypes'
    <3> DEFINE new(v) == Contents(rules, facts, v, FALSE)
    <3>1. \A v \in Observed : new(v) \in SUBSET Row /\ owed[v] \in SUBSET Row
      BY <1>0 DEF OwedTypes, Contents, Derived
    <3>2. owed' = [v \in Observed |-> IF v \in wanted \ policySubData THEN new(v) ELSE owed[v]]
      BY <2>2
    <3> HIDE DEF new
    <3> QED BY <3>1, <3>2 DEF OwedTypes
  <2> QED BY <1>2, <2>1, <2>2, <2>3, <2>4 DEF TypeInv
<1>14. CASE UNCHANGED vars
  BY <1>2, <1>14 DEF vars, triggerVars, subVars, TypeInv
<1> QED BY <1>4, <1>6, <1>7, <1>8, <1>9, <1>10, <1>11, <1>12, <1>13, <1>14 DEF Next, ChangesRules

\* Type correctness, the rule lock included: the rule lock of the engine
\* (congress_synchronize_rules) is held only by a thread that is between its update
\* of the rules and the end of its subscriptions.  No condition on the batches.
THEOREM TypeCorrect == Spec => []TypeOK
<1>1. Init => TypeInv
  BY TypeInit
<1>2. TypeInv /\ [Next]_vars => TypeInv'
  BY TypeStep
<1>3. TypeInv => TypeOK
  <2> SUFFICES ASSUME TypeInv PROVE TypeOK
    OBVIOUS
  <2>1. /\ rules \in [Policy -> SUBSET Rule] /\ facts \in [DataTable -> SUBSET Row]
        /\ graph.nodes \in [Table -> Nat] /\ graph.edges \in [Edge -> Nat]
        /\ graph.modals \in [PolicyTable -> Nat] /\ graph.cycles \in {"unknown", "none", "some"}
    BY DEF TypeInv, TheoryTypes, Theories, Facts, Graph
  <2>2. /\ triggers \subseteq Trigger /\ index \in Index /\ Executes(execution)
        /\ policySubData \subseteq Observed /\ wanted \subseteq Observed
    BY RegistryFields DEF TypeInv, RegistryTypes, Registry
  <2>3. DOMAIN index \subseteq Table /\ \A t \in DOMAIN index : index[t] \subseteq Trigger
    BY <2>2, IndexShape
  <2>4. DOMAIN execution \subseteq PolicyTable /\ \A v \in DOMAIN execution : execution[v].table = v
    BY <2>2 DEF Executes, ActionTrigger
  <2>5. published \in [Observed -> SUBSET Row] /\ owed \in [Observed -> SUBSET Row]
    BY DEF TypeInv, OutputTypes, OwedTypes
  <2>6. /\ subscribed \subseteq DataTable /\ \A t \in Thread : job[t] \in Job
        /\ ruleLock \in Thread \cup {Nobody}
        /\ ruleLock # Nobody => job[ruleLock].step \in {"locked", "subscribing"}
    BY DEF TypeInv, JobTypes, LockHeld
  <2>7. dropped \in 0 .. MaxDropped /\ overtakes \in 0 .. MaxOvertakes /\ aborted \in BOOLEAN
    BY DEF TypeInv, CountTypes
  <2> QED BY <2>1, <2>2, <2>3, <2>4, <2>5, <2>6, <2>7 DEF TypeOK
<1> QED BY <1>1, <1>2, <1>3, PTL DEF Spec

-----------------------------------------------------------------------------
(***************************************************************************)
(* Published tables.                                                       *)
(***************************************************************************)
\* The trigger x is indexed under all that its table depends on with the rules R.
Indexed(x, R, idx) == \A u \in Reachable(RuleEdges(R), {x.table}) : x \in Entries(idx, u)

\* The rules and the data of the tables outside of changed stay.
Outside(changed, R, F) ==
  \A D \in SUBSET Table : D \cap changed = {} => Untouched(D, rules, facts, R, F)

\* The trigger of each published table is registered and indexed, and was last called
\* for the contents that the table has.
Watches(x, R, trigs, idx) == x \in trigs /\ Indexed(x, R, idx)
PublishInv ==
  \A v \in policySubData :
    /\ Watches(SubTrigger(v), rules, triggers, index)
    /\ owed[v] = Contents(rules, facts, v, FALSE)

\* Whatever the change, the trigger is called for what the table then has, if the
\* index is right for the rules of before.
LEMMA CallsCover ==
  ASSUME rules \in Theories, facts \in Facts, RuleEdges(rules) \in SUBSET Edge,
         NEW v \in Observed, NEW idx \in Index, Indexed(SubTrigger(v), rules, idx),
         owed[v] = Contents(rules, facts, v, FALSE),
         NEW changed, NEW R \in Theories, NEW F \in Facts, Outside(changed, R, F),
         Owes(ChangedCalls(RelevantTriggers(idx, changed), R, F))
  PROVE  owed'[v] = Contents(R, F, v, FALSE)
<1> DEFINE x == SubTrigger(v)
           trigs == RelevantTriggers(idx, changed)
           calls == ChangedCalls(trigs, R, F)
           D == Reachable(RuleEdges(rules), {v})
           old(b) == Contents(rules, facts, v, b)
           new(b) == Contents(R, F, v, b)
<1>1. x \in Trigger /\ x.table = v /\ x.modal = FALSE
  <2>1. Observed \in SUBSET Observed
    OBVIOUS
  <2> QED BY <2>1, SubTriggersType
<1>2. trigs = UNION {Entries(idx, u) : u \in changed} /\ trigs \in SUBSET Trigger
  BY RelevantEntries
<1>3. v \in PolicyTable /\ v \in Table /\ {v} \in SUBSET Table
  BY UpdateBounds DEF PolicyTable, Table
<1>4. D \in SUBSET Table
  BY <1>3, ReachableRoots
<1>5. \A u \in D : x \in Entries(idx, u)
  BY <1>1 DEF Indexed
<1> HIDE DEF trigs
<1>6. /\ \A c \in calls : c.new = Contents(R, F, c.trigger.table, c.trigger.modal)
      /\ \A y \in trigs : Contents(rules, facts, y.table, y.modal) # Contents(R, F, y.table, y.modal)
           => \E c \in calls : c.trigger = y
  <2>1. trigs \in SUBSET Trigger
    BY <1>2
  <2>2. CallsFor(calls, trigs, R, F)
    BY <2>1, ChangedCallsEffect
  <2> HIDE DEF calls
  <2> QED BY <2>2 DEF CallsFor
<1>7. owed' = [w \in Observed |-> IF \E c \in calls : c.trigger = SubTrigger(w)
                 THEN (CHOOSE c \in calls : c.trigger = SubTrigger(w)).new ELSE owed[w]]
  BY DEF Owes, trigs
<1>8. CASE \E c \in calls : c.trigger = x
  <2>1. PICK c : c = CHOOSE d \in calls : d.trigger = x
    OBVIOUS
  <2>2. c \in calls /\ c.trigger = x
    BY <1>8, <2>1
  <2>3. owed'[v] = c.new
    BY <1>7, <1>8, <2>1
  <2>4. c.new = Contents(R, F, v, x.modal)
    BY <1>1, <1>6, <2>2
  <2> HIDE DEF x
  <2>5. c.new = Contents(R, F, v, FALSE)
    BY <1>1, <2>4, Zenon
  <2> QED BY <2>3, <2>5
<1>9. CASE ~ \E c \in calls : c.trigger = x
  <2>1. owed'[v] = owed[v]
    BY <1>7, <1>9
  <2>2. CASE D \cap changed = {}
    <3>1. Untouched(D, rules, facts, R, F)
      BY <1>4, <2>2 DEF Outside
    <3>2. ASSUME NEW b PROVE old(b) = new(b)
      BY <1>3, <3>1, SameContents
    <3> HIDE DEF old, new
    <3>3. old(FALSE) = new(FALSE)
      BY <3>2, Zenon
    <3> QED BY <2>1, <3>3 DEF old, new
  <2>3. CASE D \cap changed # {}
    <3>1. x \in trigs
      BY <1>2, <1>5, <2>3
    <3> HIDE DEF x, calls
    <3>2. old(x.modal) = new(x.modal)
      BY <1>1, <1>6, <1>9, <3>1
    <3> HIDE DEF old, new
    <3>3. old(FALSE) = new(FALSE)
      BY <1>1, <3>2, Zenon
    <3> QED BY <2>1, <3>3 DEF old, new
  <2> QED BY <2>2, <2>3
<1> QED BY <1>8, <1>9

\* The trigger of a published table waits for no actions.
LEMMA PublishesNoAction ==
  ASSUME NEW v \in Observed, NEW exe, Executes(exe), NEW g
  PROVE  SubTrigger(v) \notin Gone(exe, g)
<1>1. ASSUME NEW t \in DOMAIN exe, SubTrigger(v) = exe[t] PROVE FALSE
  <2>1. PICK a \in PolicyTable : exe[t] = ActionTrigger(t, a)
    BY DEF Executes
  <2>2. t \in PolicyTable
    BY DEF Executes
  <2>3. ActionTrigger(t, a).modal = TRUE
    BY <2>2, ActionTriggerType
  <2>4. SubTrigger(v).modal = FALSE
    <3>1. Observed \in SUBSET Observed
      OBVIOUS
    <3> QED BY <3>1, SubTriggersType
  <2>5. SubTrigger(v) = ActionTrigger(t, a)
    BY <1>1, <2>1
  <2> QED BY <2>3, <2>4, <2>5, Zenon
<1> QED BY <1>1 DEF Gone

\* An update that is not refused, with a graph that counts the rules afterwards,
\* keeps the triggers of published tables.
LEMMA PublishApplied ==
  ASSUME TypeInv, GraphInv, PublishInv, NEW g \in Graph, NEW changed,
         NEW R \in Theories, NEW F \in Facts, Exact(g, Pairs(R)), Outside(changed, R, F),
         NEW t, NEW j, NEW m, NEW last, NEW calls,
         Applied(t, g, changed, R, F, j, m, last, calls)
  PROVE  PublishInv'
<1>1. /\ rules \in Theories /\ facts \in Facts /\ Exact(graph, Pairs(rules)) /\ graph \in Graph
      /\ triggers \in SUBSET Trigger /\ index \in Index /\ Executes(execution)
      /\ policySubData \in SUBSET Observed
  BY RegistryFields DEF TypeInv, TheoryTypes, RegistryTypes, Registry, GraphInv, Agree
<1>2. /\ Registry(m)
      /\ m.triggers = (triggers \cup Made(execution, g, last)) \ Gone(execution, g)
      /\ \A u : Entries(index, u) \ Gone(execution, g) \subseteq Entries(m.index, u)
  BY RegistryFields DEF Applied, Maintained
<1>3. /\ calls = ChangedCalls(RelevantTriggers(m.index, changed), R, F)
      /\ triggers' = m.triggers /\ index' = UpdateDependencies(g, m.triggers)
      /\ rules' = R /\ facts' = F /\ Owes(calls) /\ policySubData' = policySubData
  BY DEF Applied, subVars
<1>4. m.triggers \in SUBSET Trigger /\ m.index \in Index
  BY <1>2 DEF Registry
<1>5. \A u : Entries(index', u) = Watching(g, m.triggers, u)
  BY <1>3, <1>4, UpdateDependenciesEffect
<1>6. SUFFICES ASSUME NEW v \in policySubData
               PROVE  /\ Watches(SubTrigger(v), R, triggers', index')
                      /\ owed'[v] = Contents(R, F, v, FALSE)
  BY <1>3 DEF PublishInv
<1> DEFINE x == SubTrigger(v)
<1>7. x \in triggers /\ Indexed(x, rules, index) /\ owed[v] = Contents(rules, facts, v, FALSE)
  BY DEF PublishInv, Watches
<1>8. v \in Observed /\ v \in Table /\ x.table = v
  <2>1. v \in Observed /\ v \in Table
    BY <1>1, UpdateBounds DEF PolicyTable, Table
  <2> QED BY <1>1, <2>1, SubTriggersType
<1>9. x \notin Gone(execution, g)
  BY <1>1, <1>8, PublishesNoAction
<1> HIDE DEF x
<1>10. x \in m.triggers
  BY <1>2, <1>7, <1>9
<1>11. Indexed(x, rules, m.index)
  BY <1>2, <1>7, <1>9 DEF Indexed
<1>12. Indexed(x, R, index')
  <2>1. Dependencies(g, v) = Reachable(RuleEdges(R), {v})
    BY <1>8, DependenciesReachable DEF Theories
  <2> QED BY <1>5, <1>8, <1>10, <2>1 DEF Indexed, Watching, Watched
<1>13. RuleEdges(rules) \in SUBSET Edge
  BY <1>1, <1>8, DependenciesReachable DEF Theories
<1>14. owed'[v] = Contents(R, F, v, FALSE)
  BY <1>1, <1>3, <1>4, <1>7, <1>8, <1>11, <1>13, CallsCover DEF x
<1> QED BY <1>3, <1>10, <1>12, <1>14 DEF Watches, x

\* The tables with an action among the rules R.
ActionHeads(R) == {HeadOf(q) : q \in {s \in Pairs(R) : s[2].modal}}

\* No batch has insertions of rules for two action tables, so that at most one action
\* table is new at a time.
OneActionBatches ==
  \A evs \in Batch : \A i, k \in DOMAIN evs :
    /\ evs[i].insert /\ evs[i].rule.modal /\ evs[k].insert /\ evs[k].rule.modal
    => HeadTable(evs[i].target, evs[i].rule) = HeadTable(evs[k].target, evs[k].rule)

AtMostOneNew(R) ==
  \A u, w \in ActionHeads(R) \ ActionHeads(rules) : u = w

\* What an update of the rules amounts to: nothing, if it is refused, or a change of
\* the rules of the tables changed that the graph g counts.
Outcome(t, j, g, changed, R, m, last, calls) ==
  /\ g \in Graph /\ R \in Theories /\ Exact(g, Pairs(R)) /\ Outside(changed, R, facts)
  /\ OneActionBatches => AtMostOneNew(R)
  /\ Applied(t, g, changed, R, facts, j, m, last, calls)

\* The rules of tables that no event is about stay.
LEMMA OutsideUpdate ==
  ASSUME rules \in Theories, NEW act, Effective(Pairs(rules), act),
         NEW R \in Theories, Pairs(R) = After(Pairs(rules), act, DOMAIN act)
  PROVE  Outside({HeadTable(act[i].target, act[i].rule) : i \in DOMAIN act}, R, facts)
<1> DEFINE changed == {HeadTable(act[i].target, act[i].rule) : i \in DOMAIN act}
           Q == Pairs(rules)
<1>1. SUFFICES ASSUME NEW D \in SUBSET Table, D \cap changed = {}
               PROVE  \A v \in D \cap PolicyTable : RulesOf(rules, v) = RulesOf(R, v)
  BY DEF Outside, Untouched
<1>2. SUFFICES ASSUME NEW v \in PolicyTable, v \notin changed, NEW r \in Rule, r.head = v[2]
               PROVE  r \in rules[v[1]] <=> r \in R[v[1]]
  <2>1. \A v \in D \cap PolicyTable : v \notin changed /\ v[1] \in Policy
    BY <1>1 DEF PolicyTable
  <2>2. \A p \in Policy : rules[p] \subseteq Rule /\ R[p] \subseteq Rule
    BY DEF Theories
  <2> HIDE DEF changed
  <2> QED BY <2>1, <2>2 DEF RulesOf
<1> DEFINE q == <<v[1], r>>
<1>3. q \in Pair /\ v[1] \in Policy /\ v = HeadTable(v[1], r)
  BY <1>2 DEF Pair, PolicyTable, HeadTable
<1>4. (q \in Q <=> r \in rules[v[1]]) /\ (q \in Pairs(R) <=> r \in R[v[1]])
  BY <1>3 DEF Pairs
<1>5. ASSUME NEW i \in DOMAIN act, RuleOf(act[i]) = q PROVE FALSE
  <2>1. act[i].target = v[1] /\ act[i].rule = r
    BY <1>5 DEF RuleOf
  <2>2. HeadTable(act[i].target, act[i].rule) \in changed
    OBVIOUS
  <2> QED BY <1>2, <1>3, <2>1, <2>2
<1>6. q \in After(Q, act, DOMAIN act) <=> q \in Q
  <2> HIDE DEF q
  <2> QED BY <1>5 DEF After, Inserted, Deleted
<1> QED BY <1>4, <1>6

\* A new action table is the head of an inserted rule.
LEMMA NewActions ==
  ASSUME NEW evs, evs \in Batch \/ OneInsertion(evs), OneActionBatches,
         NEW R, Pairs(R) = After(Pairs(rules), ActualEvents(evs), DOMAIN ActualEvents(evs))
  PROVE  AtMostOneNew(R)
<1> DEFINE act == ActualEvents(evs)
           head(i) == HeadTable(evs[i].target, evs[i].rule)
<1>1. DOMAIN act \subseteq DOMAIN evs /\ \A i \in DOMAIN act : act[i] = evs[i]
  BY DEF ActualEvents, Restrict
<1> HIDE DEF act
<1>2. ASSUME NEW u \in ActionHeads(R) \ ActionHeads(rules)
      PROVE  \E i \in DOMAIN evs : evs[i].insert /\ evs[i].rule.modal /\ u = head(i)
  <2>1. PICK q \in Pairs(R) : q[2].modal /\ HeadOf(q) = u
    BY DEF ActionHeads
  <2>2. q \notin Pairs(rules)
    BY <2>1 DEF ActionHeads
  <2>3. q \in Inserted(act, DOMAIN act)
    BY <2>2 DEF After, act
  <2>4. PICK i \in DOMAIN act : act[i].insert /\ RuleOf(act[i]) = q
    BY <2>3 DEF Inserted
  <2>5. q[1] = act[i].target /\ q[2] = act[i].rule /\ act[i] = evs[i] /\ i \in DOMAIN evs
    BY <1>1, <2>4 DEF RuleOf
  <2> QED BY <2>1, <2>4, <2>5 DEF HeadOf
<1>3. SUFFICES ASSUME NEW u \in ActionHeads(R) \ ActionHeads(rules),
                      NEW w \in ActionHeads(R) \ ActionHeads(rules)
               PROVE  u = w
  BY DEF AtMostOneNew
<1>4. PICK i \in DOMAIN evs : evs[i].insert /\ evs[i].rule.modal /\ u = head(i)
  BY <1>2
<1>5. PICK k \in DOMAIN evs : evs[k].insert /\ evs[k].rule.modal /\ w = head(k)
  BY <1>2
<1>6. CASE OneInsertion(evs)
  BY <1>4, <1>5, <1>6 DEF OneInsertion
<1>7. CASE evs \in Batch
  BY <1>4, <1>5, <1>7 DEF OneActionBatches
<1> QED BY <1>6, <1>7

\* An update of the rules is refused, or it is such a change.
LEMMA UpdateOutcome ==
  ASSUME TypeInv, GraphInv, DistinctBatches, NEW t \in Thread, NEW evs, NEW j, UpdatesWith(t, evs, j)
  PROVE  \/ UNCHANGED <<rules, facts, triggers, index, execution, policySubData, owed>>
         \/ \E g, changed, R, m, last, calls : Outcome(t, j, g, changed, R, m, last, calls)
<1> DEFINE act == ActualEvents(evs)
           G == GraphUpdate(graph, act)
           g == Searched(G)
           Q == Pairs(rules)
           A == After(Q, act, DOMAIN act)
           R == TheoryUpdate(rules, act)
           changed == {HeadTable(act[i].target, act[i].rule) : i \in DOMAIN act}
<1>1. /\ rules \in [Policy -> SUBSET Rule] /\ rules \in Theories /\ graph \in Graph
      /\ Exact(graph, Q) /\ CacheSound(graph) /\ Q \in SUBSET Pair
  BY DEF GraphInv, Agree, CacheSound, Theories, Pairs
<1>2. Log(evs) /\ Distinct(evs) /\ (evs \in Batch \/ OneInsertion(evs)) /\ Update(t, evs, j)
  BY DEF UpdatesWith
<1>3. Effective(Q, act) /\ OneTarget(act)
  BY <1>1, <1>2, ActualEffective DEF Distinct
<1>4. \/ RefuseUpdate(UndoChanges(g, act), act)
      \/ ApplyUpdate(t, g, changed, R, facts, j)
  BY <1>2 DEF Update
<1>5. CASE RefuseUpdate(UndoChanges(g, act), act)
  BY <1>5 DEF RefuseUpdate, triggerVars, subVars
<1>6. CASE ApplyUpdate(t, g, changed, R, facts, j)
  <2>1. R \in Theories
    BY <1>1, <1>3, TheoryUpdateType DEF Effective, Theories
  <2>2. Pairs(R) = A
    BY <1>1, <1>3, TheoryUpdateExact
  <2>3. OneActionBatches => AtMostOneNew(R)
    <3> HIDE DEF R
    <3> QED BY <1>2, <2>2, NewActions
  <2> HIDE DEF act, Q
  <2>4. G \in Graph /\ Exact(G, A)
    BY <1>1, <1>3, GraphUpdateExact
  <2>5. Outside(changed, R, facts)
    BY <1>1, <1>3, <2>1, <2>2, OutsideUpdate DEF Q
  <2> HIDE DEF G
  <2>6. SameCounts(g, G)
    BY <2>4, SearchedEffect
  <2> HIDE DEF g, A, R, changed
  <2>7. g \in Graph /\ Exact(g, Pairs(R))
    <3>1. g \in Graph
      BY <2>6 DEF SameCounts
    <3> QED BY <2>2, <2>4, <2>6, <3>1, SameExact
  <2>8. Registry(registry) /\ overtakes \in Nat
    BY DEF TypeInv, RegistryTypes, CountTypes
  <2>9. PICK m, last, calls : Applied(t, g, changed, R, facts, j, m, last, calls)
    BY <1>6, <2>7, <2>8, ApplyUpdateEffect
  <2>10. Outcome(t, j, g, changed, R, m, last, calls)
    BY <2>1, <2>3, <2>5, <2>7, <2>9 DEF Outcome
  <2> QED BY <2>10
<1> QED BY <1>4, <1>5, <1>6

\* A message with data.
LEMMA DataOutcome ==
  ASSUME TypeInv, GraphInv, NEW t \in Thread, NEW d \in DataTable, NEW rows \in SUBSET Row,
         ReceiveDataUpdate(t, d, rows)
  PROVE  \/ UNCHANGED <<rules, facts, triggers, index, execution, policySubData, owed>>
         \/ \E g \in Graph, F \in Facts : \E j, m, last, calls :
              /\ Exact(g, Pairs(rules)) /\ Outside({d}, rules, F)
              /\ Applied(t, g, {d}, rules, F, j, m, last, calls)
<1> DEFINE g == Searched(graph)
           F == [facts EXCEPT ![d] = rows]
<1>1. rules \in Theories /\ facts \in Facts /\ graph \in Graph /\ Exact(graph, Pairs(rules))
  BY DEF TypeInv, TheoryTypes, GraphInv, Agree
<1>2. SameCounts(g, graph)
  BY <1>1, SearchedEffect
<1>3. F \in Facts /\ \A e \in DataTable : e # d => F[e] = facts[e]
  BY <1>1 DEF Facts
<1>4. Outside({d}, rules, F)
  BY <1>3 DEF Outside, Untouched
<1>5. RefuseUpdate(g, <<>>) \/ \E j : ApplyUpdate(t, g, {d}, rules, F, j)
  BY DEF ReceiveDataUpdate
<1> HIDE DEF g, F
<1>6. CASE RefuseUpdate(g, <<>>)
  BY <1>6 DEF RefuseUpdate, triggerVars, subVars
<1>7. ASSUME NEW j, ApplyUpdate(t, g, {d}, rules, F, j)
      PROVE  \E m, last, calls : Applied(t, g, {d}, rules, F, j, m, last, calls)
  <2>1. Registry(registry) /\ overtakes \in Nat /\ g \in Graph
    BY <1>2 DEF TypeInv, RegistryTypes, CountTypes, SameCounts
  <2> QED BY <1>7, <2>1, ApplyUpdateEffect
<1>8. g \in Graph /\ Exact(g, Pairs(rules))
  <2>1. g \in Graph
    BY <1>2 DEF SameCounts
  <2> QED BY <1>1, <1>2, <2>1, SameExact
<1> QED BY <1>3, <1>4, <1>5, <1>6, <1>7, <1>8

\* The heartbeat registers what it finds and leaves the other tables' triggers.
LEMMA PublishSubscribers ==
  ASSUME TypeInv, GraphInv, PublishInv, UpdateTablesWithSubscriber
  PROVE  PublishInv'
<1> DEFINE added == SubTriggers(wanted \ policySubData)
           removed == SubTriggers(policySubData \ wanted)
<1>1. /\ rules \in Theories /\ graph \in Graph /\ Exact(graph, Pairs(rules))
      /\ policySubData \in SUBSET Observed /\ wanted \in SUBSET Observed /\ RegistryTypes
  BY DEF TypeInv, TheoryTypes, RegistryTypes, GraphInv, Agree
<1>2. /\ triggers' = (triggers \cup added) \ removed
      /\ \A u : Entries(index', u) = (Entries(index, u) \cup Watching(graph, added, u))
                                       \ Watching(graph, removed, u)
  BY <1>1, SubscribersEffect
<1>3. /\ policySubData' = wanted /\ rules' = rules /\ facts' = facts
      /\ owed' = [v \in Observed |-> IF v \in wanted \ policySubData
                                       THEN Contents(rules, facts, v, FALSE) ELSE owed[v]]
  BY DEF UpdateTablesWithSubscriber
<1>4. SUFFICES ASSUME NEW v \in wanted
               PROVE  /\ Watches(SubTrigger(v), rules, triggers', index')
                      /\ owed'[v] = Contents(rules, facts, v, FALSE)
  BY <1>3 DEF PublishInv
<1> DEFINE x == SubTrigger(v)
<1>5. \A w \in Observed : SubTrigger(w).table = w
  <2>1. Observed \in SUBSET Observed
    OBVIOUS
  <2> QED BY <2>1, SubTriggersType
<1>6. v \in Observed /\ v \in Table /\ x.table = v
  BY <1>1, <1>5, UpdateBounds DEF PolicyTable, Table
<1>7. x \notin removed
  BY <1>1, <1>5, <1>6 DEF SubTriggers
<1>8. CASE v \in policySubData
  <2>1. x \in triggers /\ Indexed(x, rules, index) /\ owed[v] = Contents(rules, facts, v, FALSE)
    BY <1>8 DEF PublishInv, Watches
  <2>2. owed'[v] = owed[v]
    BY <1>3, <1>6, <1>8
  <2> HIDE DEF x, added, removed
  <2>3. Watches(x, rules, triggers', index')
    BY <1>2, <1>7, <2>1 DEF Watches, Indexed, Watching
  <2> QED BY <2>1, <2>2, <2>3 DEF x
<1>9. CASE v \notin policySubData
  <2>1. x \in added
    BY <1>9 DEF SubTriggers
  <2>2. Dependencies(graph, v) = Reachable(RuleEdges(rules), {v})
    BY <1>1, <1>6, DependenciesReachable DEF Theories
  <2>3. owed'[v] = Contents(rules, facts, v, FALSE)
    BY <1>3, <1>6, <1>9
  <2> HIDE DEF x, added, removed
  <2>4. Watches(x, rules, triggers', index')
    BY <1>2, <1>6, <1>7, <2>1, <2>2 DEF Watches, Indexed, Watching, Watched
  <2> QED BY <2>3, <2>4 DEF x
<1> QED BY <1>8, <1>9

\* Every step keeps them.
LEMMA PublishStep ==
  ASSUME MaxDropped = 0, DistinctBatches, TypeInv, GraphInv, PublishInv, [Next]_vars
  PROVE  PublishInv'
<1>0. /\ rules \in Theories /\ facts \in Facts /\ graph \in Graph /\ Exact(graph, Pairs(rules))
      /\ index \in Index /\ policySubData \in SUBSET Observed /\ dropped \in Nat
  BY RegistryFields DEF TypeInv, TheoryTypes, RegistryTypes, Registry, GraphInv, Agree
<1>1. ASSUME UNCHANGED <<rules, facts, triggers, index, policySubData, owed>> PROVE PublishInv'
  BY <1>1 DEF PublishInv
<1>2. ASSUME NEW t \in Thread, ChangesRules(t) PROVE PublishInv'
  <2>1. PICK evs, j : UpdatesWith(t, evs, j)
    BY <1>0, <1>2, RuleUpdates
  <2>2. ASSUME NEW g, NEW changed, NEW R, NEW m, NEW last, NEW calls,
               Outcome(t, j, g, changed, R, m, last, calls)
        PROVE  PublishInv'
    <3>1. /\ g \in Graph /\ R \in Theories /\ Exact(g, Pairs(R)) /\ Outside(changed, R, facts)
          /\ Applied(t, g, changed, R, facts, j, m, last, calls)
      BY <2>2 DEF Outcome
    <3> QED BY <1>0, <3>1, PublishApplied
  <2> QED BY <1>1, <2>1, <2>2, UpdateOutcome
<1>3. ASSUME NEW t \in Thread, NEW d \in DataTable, NEW rows \in SUBSET Row,
             ReceiveDataUpdate(t, d, rows)
      PROVE  PublishInv'
  <2>1. ASSUME NEW g \in Graph, NEW F \in Facts, NEW j, NEW m, NEW last, NEW calls,
               Exact(g, Pairs(rules)), Outside({d}, rules, F),
               Applied(t, g, {d}, rules, F, j, m, last, calls)
        PROVE  PublishInv'
    BY <1>0, <2>1, PublishApplied
  <2> QED BY <1>1, <1>3, <2>1, DataOutcome
<1>4. ASSUME NEW t \in Thread, NEW d \in DataTable, NEW rows \in SUBSET Row,
             ReceiveDataFull(t, d, rows)
      PROVE  PublishInv'
  <2> DEFINE F == [facts EXCEPT ![d] = rows]
  <2>1. /\ facts' = F /\ Owes(ChangedCalls(RelevantTriggers(index, {d}), rules, F))
        /\ UNCHANGED <<rules, triggers, index, policySubData>>
    BY <1>4 DEF ReceiveDataFull, triggerVars, subVars
  <2>2. F \in Facts /\ \A e \in DataTable : e # d => F[e] = facts[e]
    BY <1>0 DEF Facts
  <2>3. Outside({d}, rules, F)
    BY <2>2 DEF Outside, Untouched
  <2> HIDE DEF F
  <2>4. ASSUME NEW v \in policySubData PROVE owed'[v] = Contents(rules, F, v, FALSE)
    <3>1. Indexed(SubTrigger(v), rules, index) /\ owed[v] = Contents(rules, facts, v, FALSE)
      BY DEF PublishInv, Watches
    <3>2. v \in Observed /\ v \in Table
      BY <1>0, UpdateBounds DEF PolicyTable, Table
    <3>3. RuleEdges(rules) \in SUBSET Edge
      BY <1>0, <3>2, DependenciesReachable DEF Theories
    <3> QED BY <1>0, <2>1, <2>2, <2>3, <3>1, <3>2, <3>3, CallsCover
  <2> QED BY <2>1, <2>4 DEF PublishInv
<1>5. ASSUME NEW t \in Thread, Finish(t) PROVE PublishInv'
  <2>1. /\ dropped' = dropped + (IF rules' = rules THEN 0 ELSE 1) /\ dropped' <= 0
        /\ UNCHANGED <<facts, triggers, index, policySubData, owed>>
    BY <1>5 DEF Finish, triggerVars, subVars
  <2>2. rules' = rules
    BY <1>0, <2>1
  <2> QED BY <1>1, <2>1, <2>2
<1>6. CASE UpdateTablesWithSubscriber
  BY <1>6, PublishSubscribers
<1>7. CASE \/ \E t \in Thread :
                \/ \E c \in job[t].calls : NextCallback(t, c)
                \/ \E c \in job[t].calls : CallbackFails(t, c)
                \/ UpdateTableSubscriptions(t)
                \/ SubscribeReturns(t)
           \/ \E v \in Observed : PeerSubscribes(v)
           \/ \E v \in Observed : PeerUnsubscribes(v)
           \/ UNCHANGED vars
  <2>1. UNCHANGED <<rules, facts, triggers, index, policySubData, owed>>
    BY <1>7 DEF NextCallback, CallbackFails, UpdateTableSubscriptions, SubscribeReturns,
                PeerSubscribes, PeerUnsubscribes, vars, triggerVars, subVars
  <2> QED BY <1>1, <2>1
<1> QED BY <1>2, <1>3, <1>4, <1>5, <1>6, <1>7 DEF Next, ChangesRules

\* Whatever changes a published table of a policy (rules inserted, deleted and
\* synchronized, policies deleted, data of any datasource), the trigger that
\* publishes it is called with the contents after the last change, although
\* Runtime._update_obj_datalog looks for the relevant triggers in the index of the
\* dependencies of before (TriggerRegistry.relevant_triggers): for any number of
\* threads, policies, rules and rows, provided that the batches of synchronize_rules
\* have no event twice and one policy each, and no theory is dropped with rules that
\* came during delete_policy.
THEOREM ChangesReachTriggers ==
  ASSUME MaxDropped = 0, DistinctBatches
  PROVE  Spec => []NoChangeMissed
<1> DEFINE I == TypeInv /\ GraphInv /\ PublishInv
<1>1. Init => I
  <2>1. Init => PublishInv
    BY DEF Init, PublishInv
  <2> QED BY <2>1, TypeInit, GraphInit
<1>2. I /\ [Next]_vars => I'
  BY TypeStep, GraphStep, PublishStep
<1>3. I => NoChangeMissed
  BY DEF PublishInv, NoChangeMissed
<1> HIDE DEF I
<1> QED BY <1>1, <1>2, <1>3, PTL DEF Spec

-----------------------------------------------------------------------------
(***************************************************************************)
(* Action tables.                                                          *)
(***************************************************************************)
\* No table is the head of rules with and of rules without execute[..].
ActionsApart == \A r, s \in Rule : r.head = s.head => r.modal = s.modal

\* Exactly the action tables have an execution trigger, which executes the action of
\* its own table, is registered and is indexed under all that the table depends on.
ActionInv ==
  /\ DOMAIN execution = ActionHeads(rules)
  /\ \A t \in DOMAIN execution :
       execution[t] = ActionTrigger(t, t) /\ Watches(execution[t], rules, triggers, index)

\* The modal index of a graph that counts the rules R has the action tables of R.
LEMMA ActionTablesExact ==
  ASSUME NEW g, NEW R \in Theories, Exact(g, Pairs(R))
  PROVE  ActionTables(g) = ActionHeads(R) /\ ActionHeads(R) \in SUBSET PolicyTable
<1> DEFINE Q == Pairs(R)
<1>1. Q \in SUBSET Pair /\ \A v : ModalUsers(v) \in SUBSET Pair
  BY DEF Pairs, ModalUsers
<1>2. \A v \in PolicyTable : g.modals[v] = Cardinality(Q \cap ModalUsers(v))
  BY DEF Exact
<1>3. \A q \in Pair : HeadOf(q) \in PolicyTable
  BY RuleShape DEF Pair, HeadOf, HeadTable, PolicyTable
<1>4. \A v : v \in ActionHeads(R) <=> Q \cap ModalUsers(v) # {}
  BY <1>1 DEF ActionHeads, ModalUsers
<1> HIDE DEF Q
<1>5. \A v \in PolicyTable : g.modals[v] > 0 <=> Q \cap ModalUsers(v) # {}
  BY <1>1, <1>2, LiveCounts
<1>6. ActionHeads(R) \in SUBSET PolicyTable
  BY <1>1, <1>3 DEF ActionHeads, Q
<1> QED BY <1>4, <1>5, <1>6 DEF ActionTables

\* A table that was an action table and is none has no rules left, so that it depends
\* on nothing else.
LEMMA FormerAction ==
  ASSUME ActionsApart, NEW S \in Theories, NEW R \in Theories, RuleEdges(R) \in SUBSET Edge,
         NEW t \in ActionHeads(S) \ ActionHeads(R), t \in Table
  PROVE  Reachable(RuleEdges(R), {t}) = {t}
<1>1. PICK q \in Pairs(S) : q[2].modal /\ HeadOf(q) = t
  BY DEF ActionHeads
<1>2. ASSUME NEW e \in RuleEdges(R), e[1] = t PROVE FALSE
  <2>1. PICK p \in Policy : \E r \in R[p] : e \in FormulaEdges(p, r)
    BY DEF RuleEdges
  <2>2. PICK r \in R[p] : e \in FormulaEdges(p, r)
    BY <2>1
  <2>3. HeadTable(p, r) = t
    BY <1>2, <2>2 DEF FormulaEdges
  <2>4. r \in Rule /\ q[2] \in Rule /\ r.head = q[2].head
    BY <1>1, <2>3 DEF Theories, Pairs, Pair, HeadOf, HeadTable
  <2>5. r.modal
    BY <1>1, <2>4 DEF ActionsApart
  <2>6. <<p, r>> \in Pairs(R) /\ HeadOf(<<p, r>>) = t
    BY <2>3, <2>4 DEF Pairs, Pair, HeadOf
  <2>7. t \in ActionHeads(R)
    BY <2>5, <2>6 DEF ActionHeads
  <2> QED BY <2>7
<1>3. ClosedUnder(RuleEdges(R), {t}) /\ {t} \in SUBSET Table
  BY <1>2 DEF ClosedUnder
<1> QED BY <1>3, ReachableLeast, ReachableRoots

\* An update that is not refused keeps the triggers of action tables.
LEMMA ActionsApplied ==
  ASSUME TypeInv, GraphInv, ActionInv, ActionsApart, NEW g \in Graph, NEW changed,
         NEW R \in Theories, NEW F, Exact(g, Pairs(R)), AtMostOneNew(R),
         NEW t, NEW j, NEW m, NEW last, NEW calls,
         Applied(t, g, changed, R, F, j, m, last, calls)
  PROVE  ActionInv'
<1> DEFINE made == Made(execution, g, last)
           gone == Gone(execution, g)
           curr == ActionTables(g)
           idx1 == Register(index, g, made)
<1>1. /\ rules \in Theories /\ Exact(graph, Pairs(rules)) /\ graph \in Graph
      /\ triggers \in SUBSET Trigger /\ index \in Index /\ Executes(execution)
  BY RegistryFields DEF TypeInv, TheoryTypes, RegistryTypes, Registry, GraphInv, Agree
<1>2. /\ Registry(m) /\ m.triggers = (triggers \cup made) \ gone
      /\ curr \subseteq DOMAIN m.execution
      /\ \A u \in DOMAIN m.execution :
           \/ u \in DOMAIN execution /\ m.execution[u] = execution[u]
           \/ u \in curr \ DOMAIN execution /\ m.execution[u] = ActionTrigger(u, last)
      /\ \A u \in DOMAIN m.execution \ curr :
           UnregisterFails(idx1, triggers \cup made, g, execution[u])
  BY RegistryFields DEF Applied, Maintained
<1>3. /\ curr \subseteq DOMAIN execution \/ last \in curr \ DOMAIN execution
      /\ triggers' = m.triggers /\ index' = UpdateDependencies(g, m.triggers)
      /\ execution' = m.execution /\ rules' = R
  BY DEF Applied
<1>4. curr = ActionHeads(R) /\ curr \in SUBSET PolicyTable /\ RuleEdges(R) \in SUBSET Edge
  <2>1. RuleEdges(R) \in SUBSET Edge
    BY LiveEdgesExact DEF Theories, LiveEdges
  <2> QED BY <2>1, ActionTablesExact
<1>5. /\ DOMAIN execution = ActionHeads(rules) /\ DOMAIN execution \in SUBSET PolicyTable
      /\ \A u \in DOMAIN execution : /\ execution[u] = ActionTrigger(u, u) /\ execution[u] \in triggers
                                     /\ Indexed(execution[u], rules, index)
  BY <1>1 DEF ActionInv, Watches, Executes
<1>6. \A u \in PolicyTable : ActionTrigger(u, u) \in Trigger /\ ActionTrigger(u, u).table = u
  BY ActionTriggerType
<1>7. \A u \in curr \ DOMAIN execution : last = u
  BY <1>3, <1>4, <1>5 DEF AtMostOneNew
<1>8. made \in SUBSET Trigger /\ \A u \in curr \ DOMAIN execution : ActionTrigger(u, u) \in made
  BY <1>4, <1>6, <1>7 DEF Made
<1>9. \A u \in PolicyTable : ActionTrigger(u, u) \in gone => u \in DOMAIN execution \ curr
  BY <1>5, <1>6 DEF Gone
<1>10. PolicyTable \subseteq Table
  BY DEF Table
<1>11. \A u \in Table : Entries(index, u) \subseteq Entries(idx1, u)
  BY <1>1, <1>8, RegisterEffect
<1> HIDE DEF made, gone, curr, idx1
<1>12. DOMAIN m.execution = curr
  <2>1. ASSUME NEW u \in DOMAIN m.execution \ curr PROVE FALSE
    <3> DEFINE x == execution[u]
    <3>1. u \in DOMAIN execution /\ UnregisterFails(idx1, triggers \cup made, g, x)
      BY <1>2
    <3>2. x \in triggers /\ x.table = u /\ Indexed(x, rules, index) /\ u \in PolicyTable /\ u \in Table
      BY <1>5, <1>6, <1>10, <3>1
    <3>3. Dependencies(g, u) = Reachable(RuleEdges(R), {u})
      BY <3>2, DependenciesReachable DEF Theories
    <3>4. Reachable(RuleEdges(R), {u}) = {u}
      BY <1>1, <1>4, <1>5, <3>1, <3>2, FormerAction
    <3>5. u \in Reachable(RuleEdges(rules), {u})
      <4>1. RuleEdges(rules) \in SUBSET Edge /\ {u} \in SUBSET Table
        BY <1>1, <3>2, LiveEdgesExact DEF Theories, LiveEdges
      <4> QED BY <4>1, ReachableRoots
    <3> HIDE DEF x
    <3>6. x \in Entries(index, u)
      BY <3>2, <3>5 DEF Indexed
    <3>7. u \in DOMAIN idx1
      BY <1>11, <3>2, <3>6 DEF Entries
    <3> QED BY <3>1, <3>2, <3>3, <3>4, <3>7 DEF UnregisterFails
  <2> QED BY <1>2, <2>1
<1>13. \A u \in curr : m.execution[u] = ActionTrigger(u, u) /\ ActionTrigger(u, u) \in m.triggers
  <2> SUFFICES ASSUME NEW u \in curr
               PROVE  m.execution[u] = ActionTrigger(u, u) /\ ActionTrigger(u, u) \in m.triggers
    OBVIOUS
  <2>1. u \in PolicyTable /\ ActionTrigger(u, u) \notin gone
    BY <1>4, <1>9
  <2>2. CASE u \in DOMAIN execution
    BY <1>2, <1>5, <2>1, <2>2
  <2>3. CASE u \notin DOMAIN execution
    BY <1>2, <1>7, <1>8, <2>1, <2>3
  <2> QED BY <2>2, <2>3
<1>14. m.triggers \in SUBSET Trigger
  BY <1>2 DEF Registry
<1>15. \A u : Entries(index', u) = Watching(g, m.triggers, u)
  BY <1>3, <1>14, UpdateDependenciesEffect
<1>16. ASSUME NEW u \in curr PROVE Indexed(ActionTrigger(u, u), R, index')
  <2> DEFINE x == ActionTrigger(u, u)
  <2>1. x \in m.triggers /\ x.table = u /\ u \in Table
    BY <1>4, <1>6, <1>10, <1>13
  <2>2. Dependencies(g, u) = Reachable(RuleEdges(R), {u})
    BY <2>1, DependenciesReachable DEF Theories
  <2> HIDE DEF x
  <2>3. Indexed(x, R, index')
    BY <1>15, <2>1, <2>2 DEF Indexed, Watching, Watched
  <2> QED BY <2>3 DEF x
<1> QED BY <1>3, <1>4, <1>12, <1>13, <1>16 DEF ActionInv, Watches

\* So does the heartbeat, which registers and unregisters triggers that publish.
LEMMA ActionsSubscribers ==
  ASSUME TypeInv, ActionInv, UpdateTablesWithSubscriber
  PROVE  ActionInv'
<1> DEFINE added == SubTriggers(wanted \ policySubData)
           removed == SubTriggers(policySubData \ wanted)
<1>1. policySubData \in SUBSET Observed /\ RegistryTypes /\ DOMAIN execution \in SUBSET PolicyTable
  BY RegistryFields DEF TypeInv, RegistryTypes, Registry, Executes
<1>2. /\ triggers' = (triggers \cup added) \ removed
      /\ \A u : Entries(index', u) = (Entries(index, u) \cup Watching(graph, added, u))
                                       \ Watching(graph, removed, u)
  BY <1>1, SubscribersEffect
<1>3. rules' = rules /\ execution' = execution
  BY DEF UpdateTablesWithSubscriber
<1>4. ASSUME NEW t \in DOMAIN execution PROVE execution[t] \notin removed
  <2>1. ASSUME NEW v \in policySubData, execution[t] = SubTrigger(v) PROVE FALSE
    <3>0. t \in PolicyTable /\ execution[t] = ActionTrigger(t, t)
      BY <1>1, <1>4 DEF ActionInv
    <3>1. ActionTrigger(t, t).modal = TRUE
      BY <3>0, ActionTriggerType
    <3>2. SubTrigger(v).modal = FALSE
      BY <1>1, SubTriggersType
    <3>3. SubTrigger(v) = ActionTrigger(t, t)
      BY <2>1, <3>0
    <3> QED BY <3>1, <3>2, <3>3, Zenon
  <2> QED BY <2>1 DEF SubTriggers
<1> HIDE DEF added, removed
<1>5. ASSUME NEW t \in DOMAIN execution PROVE Watches(execution[t], rules, triggers', index')
  <2>1. Watches(execution[t], rules, triggers, index)
    BY DEF ActionInv
  <2> QED BY <1>2, <1>4, <2>1 DEF Watches, Indexed, Watching
<1> QED BY <1>3, <1>5 DEF ActionInv

\* Every step keeps them.
LEMMA ActionsStep ==
  ASSUME MaxDropped = 0, DistinctBatches, ActionsApart, OneActionBatches,
         TypeInv, GraphInv, ActionInv, [Next]_vars
  PROVE  ActionInv'
<1>0. rules \in Theories /\ dropped \in Nat
  BY DEF TypeInv, TheoryTypes, GraphInv
<1>1. ASSUME UNCHANGED <<rules, triggers, index, execution>> PROVE ActionInv'
  BY <1>1 DEF ActionInv
<1>2. ASSUME NEW t \in Thread, ChangesRules(t) PROVE ActionInv'
  <2>1. PICK evs, j : UpdatesWith(t, evs, j)
    BY <1>0, <1>2, RuleUpdates
  <2>2. ASSUME NEW g, NEW changed, NEW R, NEW m, NEW last, NEW calls,
               Outcome(t, j, g, changed, R, m, last, calls)
        PROVE  ActionInv'
    <3>1. /\ g \in Graph /\ R \in Theories /\ Exact(g, Pairs(R)) /\ AtMostOneNew(R)
          /\ Applied(t, g, changed, R, facts, j, m, last, calls)
      BY <2>2 DEF Outcome
    <3> QED BY <3>1, ActionsApplied
  <2> QED BY <1>1, <2>1, <2>2, UpdateOutcome
<1>3. ASSUME NEW t \in Thread, NEW d \in DataTable, NEW rows \in SUBSET Row,
             ReceiveDataUpdate(t, d, rows)
      PROVE  ActionInv'
  <2>1. AtMostOneNew(rules)
    BY DEF AtMostOneNew
  <2>2. ASSUME NEW g \in Graph, NEW F \in Facts, NEW j, NEW m, NEW last, NEW calls,
               Exact(g, Pairs(rules)), Outside({d}, rules, F),
               Applied(t, g, {d}, rules, F, j, m, last, calls)
        PROVE  ActionInv'
    BY <1>0, <2>1, <2>2, ActionsApplied
  <2> QED BY <1>1, <1>3, <2>2, DataOutcome
<1>4. ASSUME NEW t \in Thread, Finish(t) PROVE ActionInv'
  <2>1. /\ dropped' = dropped + (IF rules' = rules THEN 0 ELSE 1) /\ dropped' <= 0
        /\ UNCHANGED <<triggers, index, execution>>
    BY <1>4 DEF Finish, triggerVars
  <2>2. rules' = rules
    BY <1>0, <2>1
  <2> QED BY <1>1, <2>1, <2>2
<1>5. CASE UpdateTablesWithSubscriber
  BY <1>5, ActionsSubscribers
<1>6. CASE \/ \E t \in Thread :
                \/ \E d \in DataTable, rows \in SUBSET Row : ReceiveDataFull(t, d, rows)
                \/ \E c \in job[t].calls : NextCallback(t, c)
                \/ \E c \in job[t].calls : CallbackFails(t, c)
                \/ UpdateTableSubscriptions(t)
                \/ SubscribeReturns(t)
           \/ \E v \in Observed : PeerSubscribes(v)
           \/ \E v \in Observed : PeerUnsubscribes(v)
           \/ UNCHANGED vars
  <2>1. UNCHANGED <<rules, triggers, index, execution>>
    BY <1>6 DEF ReceiveDataFull, NextCallback, CallbackFails, UpdateTableSubscriptions,
                SubscribeReturns, PeerSubscribes, PeerUnsubscribes, vars, triggerVars
  <2> QED BY <1>1, <2>1
<1> QED BY <1>2, <1>3, <1>4, <1>5, <1>6 DEF Next, ChangesRules

\* Every action table has a registered trigger that executes its own action and is
\* indexed under all tables it depends on (Runtime._maintain_triggers and
\* TriggerRegistry), for any number of threads, policies and rules, provided that
\* the batches of synchronize_rules have no event twice and one policy each, no
\* theory is dropped with rules that came during delete_policy, no batch makes two
\* action tables (the callbacks made in one call all execute the action of the last),
\* and no table is the head of both kinds of rules (the trigger of an action table
\* that stays an ordinary one may fail to be unregistered).
THEOREM ActionsHaveTriggers ==
  ASSUME MaxDropped = 0, DistinctBatches, ActionsApart, OneActionBatches
  PROVE  Spec => []ActionsTriggered
<1> DEFINE I == TypeInv /\ GraphInv /\ ActionInv
<1>1. Init => I
  <2>1. ASSUME Init PROVE ActionInv
    <3>1. DOMAIN execution = {} /\ Pairs(rules) = {}
      BY <2>1 DEF Init, Pairs, Pair
    <3> QED BY <3>1 DEF ActionInv, ActionHeads
  <2> QED BY <2>1, TypeInit, GraphInit
<1>2. I /\ [Next]_vars => I'
  BY TypeStep, GraphStep, ActionsStep
<1>3. I => ActionsTriggered
  <2> SUFFICES ASSUME I, NEW p \in Policy, NEW r \in rules[p], r.modal
               PROVE  LET head == HeadTable(p, r)
                      IN  /\ head \in DOMAIN execution /\ execution[head] \in triggers
                          /\ execution[head].action = head
                          /\ \A t \in Reachable(RuleEdges(rules), {head}) :
                               t \in DOMAIN index /\ execution[head] \in index[t]
    BY DEF ActionsTriggered
  <2> DEFINE head == HeadTable(p, r)
             x == execution[head]
  <2>1. <<p, r>> \in Pairs(rules) /\ HeadOf(<<p, r>>) = head
    BY DEF TypeInv, TheoryTypes, Theories, Pairs, Pair, HeadOf
  <2>2. head \in ActionHeads(rules)
    BY <2>1 DEF ActionHeads
  <2> HIDE DEF head
  <2>3. /\ head \in DOMAIN execution /\ x = ActionTrigger(head, head)
        /\ x \in triggers /\ Indexed(x, rules, index)
    BY <2>2 DEF ActionInv, Watches
  <2>4. x.table = head /\ x.action = head
    BY <2>3 DEF ActionTrigger
  <2> HIDE DEF x
  <2>5. \A t \in Reachable(RuleEdges(rules), {head}) : t \in DOMAIN index /\ x \in index[t]
    BY <2>3, <2>4 DEF Indexed, Entries
  <2> QED BY <2>3, <2>4, <2>5 DEF x, head
<1> HIDE DEF I
<1> QED BY <1>1, <1>2, <1>3, PTL DEF Spec
=============================================================================
