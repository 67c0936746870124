------------------------ MODULE EngineUpdate_proofs ------------------------
(***************************************************************************)
(* Theorems about EngineUpdate: the dependency graph counts exactly the    *)
(* rules that the theories hold (GraphCountsRules), which therefore never  *)
(* become recursive (NeverRecursive), and the engine ends up subscribed to *)
(* all tables that its rules mention (SubscriptionsComplete).              *)
(*                                                                         *)
(* The graph is updated by loops over the nodes and edges of a rule and    *)
(* over the events of an update.  What a loop computes is proved with an   *)
(* induction lemma per loop: K relates what has been done so far to the    *)
(* result so far, and a smallest counterexample is impossible.             *)
(***************************************************************************)
EXTENDS EngineUpdate, FoldFacts

\* Dependency graphs.
Graph == [nodes : [Table -> Nat], edges : [Edge -> Nat], modals : [PolicyTable -> Nat],
          cycles : {"unknown", "none", "some"}]
-----------------------------------------------------------------------------
(***************************************************************************)
(* The steps of the graph, one by one.                                     *)
(***************************************************************************)
\* Edges start at tables of policies and lead to tables.
LEMMA EdgeShape == \A e \in Edge : e[1] \in PolicyTable /\ e[1] \in Table /\ e[2] \in Table
<1> SUFFICES ASSUME NEW p \in Policy, NEW r \in Rule, NEW l \in r.body
             PROVE  LET e == <<HeadTable(p, r), Global(p, l.table), l.neg>>
                    IN  e[1] \in PolicyTable /\ e[1] \in Table /\ e[2] \in Table
  BY DEF Edge, FormulaEdges
<1>1. HeadTable(p, r) \in PolicyTable
  BY RuleShape DEF HeadTable, PolicyTable
<1>2. Global(p, l.table) \in Table
  BY RuleShape DEF Global, Table, PolicyTable
<1> QED BY <1>1, <1>2 DEF Table

\* The edges and nodes of a rule are finitely many.
LEMMA FormulaShape ==
  ASSUME NEW p \in Policy, NEW r \in Rule
  PROVE  /\ FormulaEdges(p, r) \in SUBSET Edge /\ IsFiniteSet(FormulaEdges(p, r))
         /\ FormulaNodes(p, r) \in SUBSET Table /\ IsFiniteSet(FormulaNodes(p, r))
         /\ HeadTable(p, r) \in PolicyTable
<1>1. HeadTable(p, r) \in PolicyTable
  BY RuleShape DEF HeadTable, PolicyTable
<1>2. FormulaEdges(p, r) \in SUBSET Edge
  BY DEF Edge
<1>3. IsFiniteSet(r.body)
  BY RuleShape
<1>4. IsFiniteSet(FormulaEdges(p, r))
  <2> DEFINE B == r.body
             E == FormulaEdges(p, r)
             f == [l \in B |-> <<HeadTable(p, r), Global(p, l.table), l.neg>>]
  <2>1. f \in Surjection(B, E)
    BY DEF Surjection, FormulaEdges
  <2> HIDE DEF f, B, E
  <2> QED BY <1>3, <2>1, FS_Surjection DEF B, E
<1>5. IsFiniteSet({e[2] : e \in FormulaEdges(p, r)})
  <2> DEFINE E == FormulaEdges(p, r)
             D == {e[2] : e \in E}
             f == [e \in E |-> e[2]]
  <2>1. f \in Surjection(E, D)
    BY DEF Surjection
  <2> HIDE DEF f, E
  <2>2. IsFiniteSet(E)
    BY <1>4 DEF E
  <2> HIDE DEF D
  <2>3. IsFiniteSet(D)
    BY <2>1, <2>2, FS_Surjection
  <2> QED BY <2>3 DEF D, E
<1>6. IsFiniteSet(FormulaNodes(p, r))
  <2>1. IsFiniteSet({HeadTable(p, r)})
    BY FS_Singleton
  <2> QED BY <1>5, <2>1, FS_Union DEF FormulaNodes
<1>7. FormulaNodes(p, r) \in SUBSET Table
  BY <1>1, <1>2, EdgeShape DEF FormulaNodes, Table
<1> QED BY <1>1, <1>2, <1>4, <1>6, <1>7

\* Adding a node counts it.
LEMMA AddNodeEffect ==
  ASSUME NEW g \in Graph, NEW n \in Table
  PROVE  /\ AddNode(g, n) \in Graph
         /\ \A t \in Table : AddNode(g, n).nodes[t] = g.nodes[t] + (IF t = n THEN 1 ELSE 0)
         /\ AddNode(g, n).edges = g.edges /\ AddNode(g, n).modals = g.modals
         /\ AddNode(g, n).cycles = g.cycles
BY DEF AddNode, Graph

\* Deleting a node takes off one, if there is one.
LEMMA DeleteNodeEffect ==
  ASSUME NEW g \in Graph, NEW n \in Table
  PROVE  /\ DeleteNode(g, n) \in Graph
         /\ \A t \in Table : DeleteNode(g, n).nodes[t] =
              IF t = n /\ g.nodes[n] > 0 THEN g.nodes[t] - 1 ELSE g.nodes[t]
         /\ DeleteNode(g, n).edges = g.edges /\ DeleteNode(g, n).modals = g.modals
         /\ DeleteNode(g, n).cycles = g.cycles
<1>1. CASE g.nodes[n] = 0
  BY <1>1 DEF DeleteNode, Graph
<1>2. CASE g.nodes[n] # 0
  <2>1. g.nodes[n] \in Nat /\ g.nodes[n] > 0 /\ g.nodes[n] - 1 \in Nat
    BY <1>2 DEF Graph
  <2>2. DeleteNode(g, n) = [g EXCEPT !.nodes[n] = @ - 1]
    BY <1>2 DEF DeleteNode
  <2> QED BY <2>1, <2>2 DEF Graph
<1> QED BY <1>1, <1>2

\* How often a table is an end of the edges E.
Ends(E, t) == Cardinality({e \in E : e[1] = t}) + Cardinality({e \in E : e[2] = t})

\* Adding an edge counts it and its ends, and forgets what is known of cycles.
LEMMA AddEdgeEffect ==
  ASSUME NEW g \in Graph, NEW e \in Edge
  PROVE  /\ AddEdge(g, e) \in Graph
         /\ \A t \in Table : AddEdge(g, e).nodes[t] =
              g.nodes[t] + (IF t = e[1] THEN 1 ELSE 0) + (IF t = e[2] THEN 1 ELSE 0)
         /\ \A f \in Edge : AddEdge(g, e).edges[f] = g.edges[f] + (IF f = e THEN 1 ELSE 0)
         /\ AddEdge(g, e).modals = g.modals /\ AddEdge(g, e).cycles = "unknown"
<1> DEFINE f == AddNode(g, e[1])
           h == AddNode(f, e[2])
           d == AddEdge(g, e)
<1>0. e[1] \in Table /\ e[2] \in Table
  BY EdgeShape
<1>1. /\ f \in Graph /\ f.edges = g.edges /\ f.modals = g.modals
      /\ \A t \in Table : f.nodes[t] = g.nodes[t] + (IF t = e[1] THEN 1 ELSE 0)
  BY <1>0, AddNodeEffect
<1>2. d = [h EXCEPT !.edges[e] = @ + 1, !.cycles = "unknown"]
  BY DEF AddEdge
<1> HIDE DEF f, d
<1>3. /\ h \in Graph /\ h.edges = g.edges /\ h.modals = g.modals
      /\ \A t \in Table : h.nodes[t] = f.nodes[t] + (IF t = e[2] THEN 1 ELSE 0)
  BY <1>0, <1>1, AddNodeEffect
<1> HIDE DEF h
<1>4. h.edges[e] \in Nat
  BY <1>3 DEF Graph
<1>5. [h.edges EXCEPT ![e] = @ + 1] \in [Edge -> Nat]
  BY <1>3, <1>4 DEF Graph
<1>6. d \in Graph
  BY <1>2, <1>3, <1>5 DEF Graph
<1>7. \A t \in Table : d.nodes[t] =
        g.nodes[t] + (IF t = e[1] THEN 1 ELSE 0) + (IF t = e[2] THEN 1 ELSE 0)
  BY <1>1, <1>2, <1>3 DEF Graph
<1>8. \A k \in Edge : d.edges[k] = g.edges[k] + (IF k = e THEN 1 ELSE 0)
  BY <1>2, <1>3 DEF Graph
<1>9. d.modals = g.modals /\ d.cycles = "unknown"
  BY <1>2, <1>3 DEF Graph
<1> QED BY <1>6, <1>7, <1>8, <1>9 DEF d

\* Deleting an edge that exists takes one off its count and off those of its ends.
LEMMA DeleteEdgeEffect ==
  ASSUME NEW g \in Graph, NEW e \in Edge
  PROVE  /\ DeleteEdge(g, e) \in Graph
         /\ DeleteEdge(g, e).modals = g.modals
         /\ DeleteEdge(g, e).cycles \in {g.cycles, "unknown"}
         /\ g.edges[e] > 0 =>
              \A f \in Edge : DeleteEdge(g, e).edges[f] = g.edges[f] - (IF f = e THEN 1 ELSE 0)
         /\ g.edges[e] > 0 =>
              \A t \in Table :
                g.nodes[t] >= (IF t = e[1] THEN 1 ELSE 0) + (IF t = e[2] THEN 1 ELSE 0) =>
                  DeleteEdge(g, e).nodes[t] =
                    g.nodes[t] - ((IF t = e[1] THEN 1 ELSE 0) + (IF t = e[2] THEN 1 ELSE 0))
<1> DEFINE f == DeleteNode(g, e[1])
           h == DeleteNode(f, e[2])
<1>0. e[1] \in Table /\ e[2] \in Table
  BY EdgeShape
<1>1. /\ f \in Graph /\ f.edges = g.edges /\ f.modals = g.modals /\ f.cycles = g.cycles
      /\ \A t \in Table : f.nodes[t] = IF t = e[1] /\ g.nodes[e[1]] > 0 THEN g.nodes[t] - 1 ELSE g.nodes[t]
  BY <1>0, DeleteNodeEffect
<1> HIDE DEF f
<1>2. /\ h \in Graph /\ h.edges = g.edges /\ h.modals = g.modals /\ h.cycles = g.cycles
      /\ \A t \in Table : h.nodes[t] = IF t = e[2] /\ f.nodes[e[2]] > 0 THEN f.nodes[t] - 1 ELSE f.nodes[t]
  BY <1>0, <1>1, DeleteNodeEffect
<1>3. DeleteEdge(g, e) = IF g.edges[e] = 0 THEN g
        ELSE [h EXCEPT !.edges[e] = @ - 1,
                       !.cycles = IF g.edges[e] = 1 /\ h.nodes[e[1]] > 0 THEN "unknown" ELSE @]
  BY DEF DeleteEdge, f
<1> HIDE DEF h
<1>4. g.edges[e] \in Nat
  BY DEF Graph
<1>5. CASE g.edges[e] = 0
  BY <1>3, <1>5
<1>6. CASE g.edges[e] # 0
  <2> DEFINE d == DeleteEdge(g, e)
  <2>1. d = [h EXCEPT !.edges[e] = @ - 1,
                      !.cycles = IF g.edges[e] = 1 /\ h.nodes[e[1]] > 0 THEN "unknown" ELSE @]
    BY <1>3, <1>6
  <2> HIDE DEF d
  <2>2. d \in Graph
    <3>1. h.edges[e] - 1 \in Nat
      BY <1>2, <1>4, <1>6
    <3>2. [h.edges EXCEPT ![e] = @ - 1] \in [Edge -> Nat]
      BY <1>2, <3>1 DEF Graph
    <3> QED BY <1>2, <2>1, <3>2 DEF Graph
  <2>3. d.modals = g.modals /\ d.cycles \in {g.cycles, "unknown"} /\ d.nodes = h.nodes
    BY <1>2, <2>1 DEF Graph
  <2>4. \A k \in Edge : d.edges[k] = g.edges[k] - (IF k = e THEN 1 ELSE 0)
    BY <1>2, <2>1 DEF Graph
  <2>5. ASSUME NEW t \in Table,
               g.nodes[t] >= (IF t = e[1] THEN 1 ELSE 0) + (IF t = e[2] THEN 1 ELSE 0)
        PROVE  h.nodes[t] = g.nodes[t] - ((IF t = e[1] THEN 1 ELSE 0) + (IF t = e[2] THEN 1 ELSE 0))
    <3>1. g.nodes[t] \in Nat
      BY DEF Graph
    <3> QED BY <1>1, <1>2, <2>5, <3>1
  <2> QED BY <2>2, <2>3, <2>4, <2>5 DEF d
<1> QED BY <1>5, <1>6
-----------------------------------------------------------------------------
(***************************************************************************)
(* Folds of those steps over the nodes and edges of a rule.                *)
(***************************************************************************)
\* What holds of g, and with one of N more whenever it holds with fewer, holds of
\* AddNodes(g, N): K has the pairs of those taken so far and the graph with them.
LEMMA AddNodesInduction ==
  ASSUME NEW g \in Graph, NEW N \in SUBSET Table, IsFiniteSet(N), NEW K, <<{}, g>> \in K,
         \A s \in SUBSET N : \A x \in s : \A d \in Graph :
           <<s \ {x}, d>> \in K => <<s, AddNode(d, x)>> \in K
  PROVE  AddNodes(g, N) \in Graph /\ <<N, AddNodes(g, N)>> \in K
<1> DEFINE pick(s) == CHOOSE x \in s : TRUE
           c == [s \in SUBSET N |-> pick(s)]
           F == [xa \in N \X Graph |-> AddNode(xa[2], xa[1])]
           iter == CHOOSE f : f = [s \in SUBSET N |->
                                     IF s = {} THEN g ELSE AddNode(f[s \ {pick(s)}], pick(s))]
<1>1. AddNodes(g, N) = iter[N]
  BY DEF AddNodes, FoldSet, MapThenFoldSet
<1>2. \A s \in (SUBSET N) \ {{}} : pick(s) \in s /\ c[s] = pick(s)
  OBVIOUS
<1> HIDE DEF pick
<1>3. F \in [N \X Graph -> Graph]
  BY AddNodeEffect
<1>4. Recursive(N, Graph, g, F, c)
  <2> HIDE DEF F, c
  <2> QED BY <1>2, <1>3 DEF Recursive
<1>5. Solvable(N, Graph, g, F, c)
  <2> HIDE DEF F, c
  <2> QED BY <1>4, SetRecursion
<1>6. PICK k \in [SUBSET N -> Graph] :
        k = [s \in SUBSET N |-> IF s = {} THEN g ELSE F[<<c[s], k[s \ {c[s]}]>>]]
  <2> HIDE DEF F, c
  <2> QED BY <1>5 DEF Solvable
<1>7. k = [s \in SUBSET N |-> IF s = {} THEN g ELSE AddNode(k[s \ {pick(s)}], pick(s))]
  <2>1. ASSUME NEW s \in SUBSET N, s # {}
        PROVE  F[<<c[s], k[s \ {c[s]}]>>] = AddNode(k[s \ {pick(s)}], pick(s))
    <3>1. pick(s) \in N /\ c[s] = pick(s) /\ k[s \ {pick(s)}] \in Graph
      BY <1>2, <2>1
    <3> HIDE DEF c
    <3> QED BY <3>1
  <2> HIDE DEF F, c
  <2>2. \A s \in SUBSET N : k[s] = IF s = {} THEN g ELSE AddNode(k[s \ {pick(s)}], pick(s))
    BY <1>6, <2>1
  <2> QED BY <2>2
<1>8. iter = [s \in SUBSET N |-> IF s = {} THEN g ELSE AddNode(iter[s \ {pick(s)}], pick(s))]
  BY <1>7
<1> HIDE DEF iter
<1> DEFINE Good(s) == iter[s] \in Graph /\ <<s, iter[s]>> \in K
           B == {s \in SUBSET N : ~ Good(s)}
<1>9. ASSUME B # {} PROVE FALSE
  <2>1. PICK s \in B : \A y \in B : y \subseteq s => y = s
    <3>1. B \in SUBSET SUBSET N
      OBVIOUS
    <3> HIDE DEF B
    <3> QED BY <1>9, <3>1, SmallestSubset
  <2>2. Good({})
    BY <1>8
  <2>3. s \in SUBSET N /\ s # {}
    BY <2>1, <2>2
  <2>4. pick(s) \in s /\ iter[s] = AddNode(iter[s \ {pick(s)}], pick(s))
    BY <1>2, <1>8, <2>3
  <2>5. s \ {pick(s)} \notin B
    BY <2>1, <2>4
  <2>6. Good(s \ {pick(s)})
    BY <2>3, <2>5
  <2>7. iter[s] \in Graph
    BY <2>3, <2>4, <2>6, AddNodeEffect
  <2>8. <<s, iter[s]>> \in K
    BY <2>3, <2>4, <2>6
  <2> QED BY <2>1, <2>7, <2>8
<1>10. Good(N)
  BY <1>9
<1> QED BY <1>1, <1>10

\* What holds of g, and with one of N more whenever it holds with fewer, holds of
\* AddEdges(g, N): K has the pairs of those taken so far and the graph with them.
LEMMA AddEdgesInduction ==
  ASSUME NEW g \in Graph, NEW N \in SUBSET Edge, IsFiniteSet(N), NEW K, <<{}, g>> \in K,
         \A s \in SUBSET N : \A x \in s : \A d \in Graph :
           <<s \ {x}, d>> \in K => <<s, AddEdge(d, x)>> \in K
  PROVE  AddEdges(g, N) \in Graph /\ <<N, AddEdges(g, N)>> \in K
<1> DEFINE pick(s) == CHOOSE x \in s : TRUE
           c == [s \in SUBSET N |-> pick(s)]
           F == [xa \in N \X Graph |-> AddEdge(xa[2], xa[1])]
           iter == CHOOSE f : f = [s \in SUBSET N |->
                                     IF s = {} THEN g ELSE AddEdge(f[s \ {pick(s)}], pick(s))]
<1>1. AddEdges(g, N) = iter[N]
  BY DEF AddEdges, FoldSet, MapThenFoldSet
<1>2. \A s \in (SUBSET N) \ {{}} : pick(s) \in s /\ c[s] = pick(s)
  OBVIOUS
<1> HIDE DEF pick
<1>3. F \in [N \X Graph -> Graph]
  BY AddEdgeEffect
<1>4. Recursive(N, Graph, g, F, c)
  <2> HIDE DEF F, c
  <2> QED BY <1>2, <1>3 DEF Recursive
<1>5. Solvable(N, Graph, g, F, c)
  <2> HIDE DEF F, c
  <2> QED BY <1>4, SetRecursion
<1>6. PICK k \in [SUBSET N -> Graph] :
        k = [s \in SUBSET N |-> IF s = {} THEN g ELSE F[<<c[s], k[s \ {c[s]}]>>]]
  <2> HIDE DEF F, c
  <2> QED BY <1>5 DEF Solvable
<1>7. k = [s \in SUBSET N |-> IF s = {} THEN g ELSE AddEdge(k[s \ {pick(s)}], pick(s))]
  <2>1. ASSUME NEW s \in SUBSET N, s # {}
        PROVE  F[<<c[s], k[s \ {c[s]}]>>] = AddEdge(k[s \ {pick(s)}], pick(s))
    <3>1. pick(s) \in N /\ c[s] = pick(s) /\ k[s \ {pick(s)}] \in Graph
      BY <1>2, <2>1
    <3> HIDE DEF c
    <3> QED BY <3>1
  <2> HIDE DEF F, c
  <2>2. \A s \in SUBSET N : k[s] = IF s = {} THEN g ELSE AddEdge(k[s \ {pick(s)}], pick(s))
    BY <1>6, <2>1
  <2> QED BY <2>2
<1>8. iter = [s \in SUBSET N |-> IF s = {} THEN g ELSE AddEdge(iter[s \ {pick(s)}], pick(s))]
  BY <1>7
<1> HIDE DEF iter
<1> DEFINE Good(s) == iter[s] \in Graph /\ <<s, iter[s]>> \in K
           B == {s \in SUBSET N : ~ Good(s)}
<1>9. ASSUME B # {} PROVE FALSE
  <2>1. PICK s \in B : \A y \in B : y \subseteq s => y = s
    <3>1. B \in SUBSET SUBSET N
      OBVIOUS
    <3> HIDE DEF B
    <3> QED BY <1>9, <3>1, SmallestSubset
  <2>2. Good({})
    BY <1>8
  <2>3. s \in SUBSET N /\ s # {}
    BY <2>1, <2>2
  <2>4. pick(s) \in s /\ iter[s] = AddEdge(iter[s \ {pick(s)}], pick(s))
    BY <1>2, <1>8, <2>3
  <2>5. s \ {pick(s)} \notin B
    BY <2>1, <2>4
  <2>6. Good(s \ {pick(s)})
    BY <2>3, <2>5
  <2>7. iter[s] \in Graph
    BY <2>3, <2>4, <2>6, AddEdgeEffect
  <2>8. <<s, iter[s]>> \in K
    BY <2>3, <2>4, <2>6
  <2> QED BY <2>1, <2>7, <2>8
<1>10. Good(N)
  BY <1>9
<1> QED BY <1>1, <1>10

\* What holds of g, and with one of N more whenever it holds with fewer, holds of
\* DeleteNodes(g, N): K has the pairs of those taken so far and the graph with them.
LEMMA DeleteNodesInduction ==
  ASSUME NEW g \in Graph, NEW N \in SUBSET Table, IsFiniteSet(N), NEW K, <<{}, g>> \in K,
         \A s \in SUBSET N : \A x \in s : \A d \in Graph :
           <<s \ {x}, d>> \in K => <<s, DeleteNode(d, x)>> \in K
  PROVE  DeleteNodes(g, N) \in Graph /\ <<N, DeleteNodes(g, N)>> \in K
<1> DEFINE pick(s) == CHOOSE x \in s : TRUE
           c == [s \in SUBSET N |-> pick(s)]
           F == [xa \in N \X Graph |-> DeleteNode(xa[2], xa[1])]
           iter == CHOOSE f : f = [s \in SUBSET N |->
                                     IF s = {} THEN g ELSE DeleteNode(f[s \ {pick(s)}], pick(s))]
<1>1. DeleteNodes(g, N) = iter[N]
  BY DEF DeleteNodes, FoldSet, MapThenFoldSet
<1>2. \A s \in (SUBSET N) \ {{}} : pick(s) \in s /\ c[s] = pick(s)
  OBVIOUS
<1> HIDE DEF pick
<1>3. F \in [N \X Graph -> Graph]
  BY DeleteNodeEffect
<1>4. Recursive(N, Graph, g, F, c)
  <2> HIDE DEF F, c
  <2> QED BY <1>2, <1>3 DEF Recursive
<1>5. Solvable(N, Graph, g, F, c)
  <2> HIDE DEF F, c
  <2> QED BY <1>4, SetRecursion
<1>6. PICK k \in [SUBSET N -> Graph] :
        k = [s \in SUBSET N |-> IF s = {} THEN g ELSE F[<<c[s], k[s \ {c[s]}]>>]]
  <2> HIDE DEF F, c
  <2> QED BY <1>5 DEF Solvable
<1>7. k = [s \in SUBSET N |-> IF s = {} THEN g ELSE DeleteNode(k[s \ {pick(s)}], pick(s))]
  <2>1. ASSUME NEW s \in SUBSET N, s # {}
        PROVE  F[<<c[s], k[s \ {c[s]}]>>] = DeleteNode(k[s \ {pick(s)}], pick(s))
    <3>1. pick(s) \in N /\ c[s] = pick(s) /\ k[s \ {pick(s)}] \in Graph
      BY <1>2, <2>1
    <3> HIDE DEF c
    <3> QED BY <3>1
  <2> HIDE DEF F, c
  <2>2. \A s \in SUBSET N : k[s] = IF s = {} THEN g ELSE DeleteNode(k[s \ {pick(s)}], pick(s))
    BY <1>6, <2>1
  <2> QED BY <2>2
<1>8. iter = [s \in SUBSET N |-> IF s = {} THEN g ELSE DeleteNode(iter[s \ {pick(s)}], pick(s))]
  BY <1>7
<1> HIDE DEF iter
<1> DEFINE Good(s) == iter[s] \in Graph /\ <<s, iter[s]>> \in K
           B == {s \in SUBSET N : ~ Good(s)}
<1>9. ASSUME B # {} PROVE FALSE
  <2>1. PICK s \in B : \A y \in B : y \subseteq s => y = s
    <3>1. B \in SUBSET SUBSET N
      OBVIOUS
    <3> HIDE DEF B
    <3> QED BY <1>9, <3>1, SmallestSubset
  <2>2. Good({})
    BY <1>8
  <2>3. s \in SUBSET N /\ s # {}
    BY <2>1, <2>2
  <2>4. pick(s) \in s /\ iter[s] = DeleteNode(iter[s \ {pick(s)}], pick(s))
    BY <1>2, <1>8, <2>3
  <2>5. s \ {pick(s)} \notin B
    BY <2>1, <2>4
  <2>6. Good(s \ {pick(s)})
    BY <2>3, <2>5
  <2>7. iter[s] \in Graph
    BY <2>3, <2>4, <2>6, DeleteNodeEffect
  <2>8. <<s, iter[s]>> \in K
    BY <2>3, <2>4, <2>6
  <2> QED BY <2>1, <2>7, <2>8
<1>10. Good(N)
  BY <1>9
<1> QED BY <1>1, <1>10

\* What holds of g, and with one of N more whenever it holds with fewer, holds of
\* DeleteEdges(g, N): K has the pairs of those taken so far and the graph with them.
LEMMA DeleteEdgesInduction ==
  ASSUME NEW g \in Graph, NEW N \in SUBSET Edge, IsFiniteSet(N), NEW K, <<{}, g>> \in K,
         \A s \in SUBSET N : \A x \in s : \A d \in Graph :
           <<s \ {x}, d>> \in K => <<s, DeleteEdge(d, x)>> \in K
  PROVE  DeleteEdges(g, N) \in Graph /\ <<N, DeleteEdges(g, N)>> \in K
<1> DEFINE pick(s) == CHOOSE x \in s : TRUE
           c == [s \in SUBSET N |-> pick(s)]
           F == [xa \in N \X Graph |-> DeleteEdge(xa[2], xa[1])]
           iter == CHOOSE f : f = [s \in SUBSET N |->
                                     IF s = {} THEN g ELSE DeleteEdge(f[s \ {pick(s)}], pick(s))]
<1>1. DeleteEdges(g, N) = iter[N]
  BY DEF DeleteEdges, FoldSet, MapThenFoldSet
<1>2. \A s \in (SUBSET N) \ {{}} : pick(s) \in s /\ c[s] = pick(s)
  OBVIOUS
<1> HIDE DEF pick
<1>3. F \in [N \X Graph -> Graph]
  BY DeleteEdgeEffect
<1>4. Recursive(N, Graph, g, F, c)
  <2> HIDE DEF F, c
  <2> QED BY <1>2, <1>3 DEF Recursive
<1>5. Solvable(N, Graph, g, F, c)
  <2> HIDE DEF F, c
  <2> QED BY <1>4, SetRecursion
<1>6. PICK k \in [SUBSET N -> Graph] :
        k = [s \in SUBSET N |-> IF s = {} THEN g ELSE F[<<c[s], k[s \ {c[s]}]>>]]
  <2> HIDE DEF F, c
  <2> QED BY <1>5 DEF Solvable
<1>7. k = [s \in SUBSET N |-> IF s = {} THEN g ELSE DeleteEdge(k[s \ {pick(s)}], pick(s))]
  <2>1. ASSUME NEW s \in SUBSET N, s # {}
        PROVE  F[<<c[s], k[s \ {c[s]}]>>] = DeleteEdge(k[s \ {pick(s)}], pick(s))
    <3>1. pick(s) \in N /\ c[s] = pick(s) /\ k[s \ {pick(s)}] \in Graph
      BY <1>2, <2>1
    <3> HIDE DEF c
    <3> QED BY <3>1
  <2> HIDE DEF F, c
  <2>2. \A s \in SUBSET N : k[s] = IF s = {} THEN g ELSE DeleteEdge(k[s \ {pick(s)}], pick(s))
    BY <1>6, <2>1
  <2> QED BY <2>2
<1>8. iter = [s \in SUBSET N |-> IF s = {} THEN g ELSE DeleteEdge(iter[s \ {pick(s)}], pick(s))]
  BY <1>7
<1> HIDE DEF iter
<1> DEFINE Good(s) == iter[s] \in Graph /\ <<s, iter[s]>> \in K
           B == {s \in SUBSET N : ~ Good(s)}
<1>9. ASSUME B # {} PROVE FALSE
  <2>1. PICK s \in B : \A y \in B : y \subseteq s => y = s
    <3>1. B \in SUBSET SUBSET N
      OBVIOUS
    <3> HIDE DEF B
    <3> QED BY <1>9, <3>1, SmallestSubset
  <2>2. Good({})
    BY <1>8
  <2>3. s \in SUBSET N /\ s # {}
    BY <2>1, <2>2
  <2>4. pick(s) \in s /\ iter[s] = DeleteEdge(iter[s \ {pick(s)}], pick(s))
    BY <1>2, <1>8, <2>3
  <2>5. s \ {pick(s)} \notin B
    BY <2>1, <2>4
  <2>6. Good(s \ {pick(s)})
    BY <2>3, <2>5
  <2>7. iter[s] \in Graph
    BY <2>3, <2>4, <2>6, DeleteEdgeEffect
  <2>8. <<s, iter[s]>> \in K
    BY <2>3, <2>4, <2>6
  <2> QED BY <2>1, <2>7, <2>8
<1>10. Good(N)
  BY <1>9
<1> QED BY <1>1, <1>10

\* The number of edges with an end at t when an edge is left out.
LEMMA EndsOfOneMore ==
  ASSUME NEW E, IsFiniteSet(E), NEW x \in E, NEW t
  PROVE  /\ Ends(E, t) \in Nat /\ Ends(E \ {x}, t) \in Nat
         /\ Ends(E, t) = Ends(E \ {x}, t)
                           + (IF t = x[1] THEN 1 ELSE 0) + (IF t = x[2] THEN 1 ELSE 0)
<1> DEFINE A(D) == {e \in D : e[1] = t}
           B(D) == {e \in D : e[2] = t}
<1>1. A(E) \in SUBSET E /\ B(E) \in SUBSET E
  OBVIOUS
<1>2. IsFiniteSet(A(E)) /\ IsFiniteSet(B(E))
  <2> HIDE DEF A, B
  <2> QED BY <1>1, FS_Subset
<1>3. A(E \ {x}) = A(E) \ {x} /\ B(E \ {x}) = B(E) \ {x}
  OBVIOUS
<1>4. (x \in A(E) <=> t = x[1]) /\ (x \in B(E) <=> t = x[2])
  OBVIOUS
<1>5. /\ Ends(E, t) = Cardinality(A(E)) + Cardinality(B(E))
      /\ Ends(E \ {x}, t) = Cardinality(A(E \ {x})) + Cardinality(B(E \ {x}))
  BY DEF Ends
<1> HIDE DEF A, B
<1>6. /\ Cardinality(A(E)) \in Nat /\ Cardinality(B(E)) \in Nat
      /\ Cardinality(A(E) \ {x}) \in Nat /\ Cardinality(B(E) \ {x}) \in Nat
  BY <1>2, FS_CardinalityType, FS_RemoveElement
<1>7. /\ Cardinality(A(E) \ {x}) = IF x \in A(E) THEN Cardinality(A(E)) - 1 ELSE Cardinality(A(E))
      /\ Cardinality(B(E) \ {x}) = IF x \in B(E) THEN Cardinality(B(E)) - 1 ELSE Cardinality(B(E))
  BY <1>2, FS_RemoveElement
<1> DEFINE a == Cardinality(A(E))
           b == Cardinality(B(E))
           i == IF t = x[1] THEN 1 ELSE 0
           j == IF t = x[2] THEN 1 ELSE 0
<1>8. Cardinality(A(E \ {x})) = a - i /\ Cardinality(B(E \ {x})) = b - j
  <2>1. /\ Cardinality(A(E \ {x})) = IF x \in A(E) THEN a - 1 ELSE a
        /\ Cardinality(B(E \ {x})) = IF x \in B(E) THEN b - 1 ELSE b
    BY <1>3, <1>7
  <2>2. a \in Nat /\ b \in Nat
    BY <1>6
  <2> HIDE DEF a, b
  <2>3. CASE t = x[1]
    <3>1. Cardinality(A(E \ {x})) = a - i
      BY <1>4, <2>1, <2>3
    <3> QED BY <1>4, <2>1, <2>2, <3>1
  <2>4. CASE t # x[1]
    <3>1. Cardinality(A(E \ {x})) = a - i
      BY <1>4, <2>1, <2>2, <2>4
    <3> QED BY <1>4, <2>1, <2>2, <3>1
  <2> QED BY <2>3, <2>4
<1>9. a \in Nat /\ b \in Nat /\ a - i \in Nat /\ b - j \in Nat /\ i \in {0, 1} /\ j \in {0, 1}
  BY <1>3, <1>6, <1>8
<1>10. Ends(E, t) = a + b /\ Ends(E \ {x}, t) = (a - i) + (b - j)
  BY <1>5, <1>8
<1> HIDE DEF a, b, i, j
<1>11. Ends(E, t) \in Nat /\ Ends(E \ {x}, t) \in Nat /\ Ends(E, t) = Ends(E \ {x}, t) + i + j
  BY <1>9, <1>10
<1> QED BY <1>11 DEF i, j

\* More edges have no fewer ends.
LEMMA EndsGrow ==
  ASSUME NEW E, IsFiniteSet(E), NEW D \in SUBSET E, NEW t
  PROVE  Ends(D, t) \in Nat /\ Ends(E, t) \in Nat /\ Ends(E, t) >= Ends(D, t)
<1> DEFINE A1 == {e \in D : e[1] = t}
           A2 == {e \in E : e[1] = t}
           B1 == {e \in D : e[2] = t}
           B2 == {e \in E : e[2] = t}
<1>1. A1 \in SUBSET A2 /\ B1 \in SUBSET B2 /\ A2 \in SUBSET E /\ B2 \in SUBSET E
  OBVIOUS
<1>2. Ends(D, t) = Cardinality(A1) + Cardinality(B1) /\ Ends(E, t) = Cardinality(A2) + Cardinality(B2)
  BY DEF Ends
<1> HIDE DEF A1, A2, B1, B2
<1>3. IsFiniteSet(A2) /\ IsFiniteSet(B2)
  BY <1>1, FS_Subset
<1>4. /\ IsFiniteSet(A1) /\ Cardinality(A1) <= Cardinality(A2)
      /\ IsFiniteSet(B1) /\ Cardinality(B1) <= Cardinality(B2)
  BY <1>1, <1>3, FS_Subset
<1>5. /\ Cardinality(A1) \in Nat /\ Cardinality(A2) \in Nat
      /\ Cardinality(B1) \in Nat /\ Cardinality(B2) \in Nat
  BY <1>3, <1>4, FS_CardinalityType
<1> QED BY <1>2, <1>4, <1>5

\* Without edges there are no ends.
LEMMA EndsOfNone == \A t : Ends({}, t) = 0
BY FS_EmptySet DEF Ends

\* One for t if it is x.
One(t, x) == IF t = x THEN 1 ELSE 0

\* d is g with each of s counted once more.
NodesAdded(d, g, s) ==
  /\ \A t \in Table : d.nodes[t] = g.nodes[t] + (IF t \in s THEN 1 ELSE 0)
  /\ d.edges = g.edges /\ d.modals = g.modals /\ d.cycles = g.cycles

\* Adding the nodes N counts each of them once.
LEMMA AddNodesEffect ==
  ASSUME NEW g \in Graph, NEW N \in SUBSET Table, IsFiniteSet(N)
  PROVE  AddNodes(g, N) \in Graph /\ NodesAdded(AddNodes(g, N), g, N)
<1> DEFINE K == {sd \in (SUBSET N) \X Graph : NodesAdded(sd[2], g, sd[1])}
<1>1. <<{}, g>> \in K
  BY DEF NodesAdded, Graph
<1>2. ASSUME NEW s \in SUBSET N, NEW x \in s, NEW d \in Graph, NodesAdded(d, g, s \ {x})
      PROVE  NodesAdded(AddNode(d, x), g, s)
  <2>1. \A t \in Table : g.nodes[t] \in Nat
    BY DEF Graph
  <2>2. x \in Table
    OBVIOUS
  <2> QED BY <1>2, <2>1, <2>2, AddNodeEffect DEF NodesAdded
<1>3. ASSUME NEW s \in SUBSET N, NEW x \in s, NEW d \in Graph, <<s \ {x}, d>> \in K
      PROVE  <<s, AddNode(d, x)>> \in K
  <2>1. AddNode(d, x) \in Graph
    BY AddNodeEffect
  <2> QED BY <1>2, <1>3, <2>1
<1> HIDE DEF K
<1>4. AddNodes(g, N) \in Graph /\ <<N, AddNodes(g, N)>> \in K
  BY <1>1, <1>3, AddNodesInduction
<1> QED BY <1>4 DEF K

\* d is g with each of the edges s counted once more, and their ends.
EdgesAdded(d, g, s) ==
  /\ \A t \in Table : d.nodes[t] = g.nodes[t] + Ends(s, t)
  /\ \A e \in Edge : d.edges[e] = g.edges[e] + (IF e \in s THEN 1 ELSE 0)
  /\ d.modals = g.modals
  /\ d.cycles = IF s = {} THEN g.cycles ELSE "unknown"

\* Adding the edges N counts each of them once, and their ends.
LEMMA AddEdgesEffect ==
  ASSUME NEW g \in Graph, NEW N \in SUBSET Edge, IsFiniteSet(N)
  PROVE  AddEdges(g, N) \in Graph /\ EdgesAdded(AddEdges(g, N), g, N)
<1> DEFINE K == {sd \in (SUBSET N) \X Graph : EdgesAdded(sd[2], g, sd[1])}
<1>1. <<{}, g>> \in K
  BY EndsOfNone DEF EdgesAdded, Graph
<1>2. ASSUME NEW s \in SUBSET N, NEW x \in s, NEW d \in Graph, EdgesAdded(d, g, s \ {x})
      PROVE  EdgesAdded(AddEdge(d, x), g, s)
  <2>1. (\A t \in Table : g.nodes[t] \in Nat) /\ (\A e \in Edge : g.edges[e] \in Nat)
    BY DEF Graph
  <2>2. x \in Edge /\ IsFiniteSet(s)
    BY FS_Subset
  <2>3. ASSUME NEW t \in Table PROVE AddEdge(d, x).nodes[t] = g.nodes[t] + Ends(s, t)
    <3>1. /\ Ends(s, t) \in Nat /\ Ends(s \ {x}, t) \in Nat
          /\ Ends(s, t) = Ends(s \ {x}, t) + One(t, x[1]) + One(t, x[2])
      BY <2>2, EndsOfOneMore DEF One
    <3>2. AddEdge(d, x).nodes[t] = d.nodes[t] + One(t, x[1]) + One(t, x[2])
      BY <2>2, AddEdgeEffect DEF One
    <3>3. d.nodes[t] = g.nodes[t] + Ends(s \ {x}, t)
      BY <1>2 DEF EdgesAdded
    <3>4. One(t, x[1]) \in Nat /\ One(t, x[2]) \in Nat /\ g.nodes[t] \in Nat
      BY <2>1 DEF One
    <3> QED BY <3>1, <3>2, <3>3, <3>4
  <2>4. ASSUME NEW e \in Edge
        PROVE  AddEdge(d, x).edges[e] = g.edges[e] + (IF e \in s THEN 1 ELSE 0)
    <3>1. AddEdge(d, x).edges[e] = d.edges[e] + (IF e = x THEN 1 ELSE 0)
      BY <2>2, AddEdgeEffect
    <3>2. d.edges[e] = g.edges[e] + (IF e \in s \ {x} THEN 1 ELSE 0)
      BY <1>2 DEF EdgesAdded
    <3> QED BY <2>1, <3>1, <3>2
  <2>5. AddEdge(d, x).modals = g.modals /\ AddEdge(d, x).cycles = "unknown"
    BY <1>2, <2>2, AddEdgeEffect DEF EdgesAdded
  <2> QED BY <2>3, <2>4, <2>5 DEF EdgesAdded
<1>3. ASSUME NEW s \in SUBSET N, NEW x \in s, NEW d \in Graph, <<s \ {x}, d>> \in K
      PROVE  <<s, AddEdge(d, x)>> \in K
  <2>1. AddEdge(d, x) \in Graph
    BY AddEdgeEffect
  <2> QED BY <1>2, <1>3, <2>1
<1> HIDE DEF K
<1>4. AddEdges(g, N) \in Graph /\ <<N, AddEdges(g, N)>> \in K
  BY <1>1, <1>3, AddEdgesInduction
<1> QED BY <1>4 DEF K

\* d is g with each of s counted once less.
NodesDeleted(d, g, s) ==
  /\ \A t \in Table : d.nodes[t] = g.nodes[t] - (IF t \in s THEN 1 ELSE 0)
  /\ d.edges = g.edges /\ d.modals = g.modals /\ d.cycles = g.cycles
NodesThere(g, N) == \A t \in N : g.nodes[t] > 0

\* Deleting the nodes N, if all are there, takes one off each.
LEMMA DeleteNodesEffect ==
  ASSUME NEW g \in Graph, NEW N \in SUBSET Table, IsFiniteSet(N), NodesThere(g, N)
  PROVE  DeleteNodes(g, N) \in Graph /\ NodesDeleted(DeleteNodes(g, N), g, N)
<1> DEFINE K == {sd \in (SUBSET N) \X Graph : NodesDeleted(sd[2], g, sd[1])}
<1>1. <<{}, g>> \in K
  BY DEF NodesDeleted, Graph
<1>2. ASSUME NEW s \in SUBSET N, NEW x \in s, NEW d \in Graph, NodesDeleted(d, g, s \ {x})
      PROVE  NodesDeleted(DeleteNode(d, x), g, s)
  <2>1. \A t \in Table : g.nodes[t] \in Nat
    BY DEF Graph
  <2>2. x \in Table
    OBVIOUS
  <2>3. d.nodes[x] > 0
    BY <1>2, <2>1, <2>2 DEF NodesDeleted, NodesThere
  <2>4. ASSUME NEW t \in Table
        PROVE  DeleteNode(d, x).nodes[t] = g.nodes[t] - (IF t \in s THEN 1 ELSE 0)
    <3>1. DeleteNode(d, x).nodes[t] = IF t = x THEN d.nodes[t] - 1 ELSE d.nodes[t]
      BY <2>2, <2>3, DeleteNodeEffect
    <3>2. d.nodes[t] = g.nodes[t] - (IF t \in s \ {x} THEN 1 ELSE 0)
      BY <1>2 DEF NodesDeleted
    <3> QED BY <2>1, <3>1, <3>2
  <2>5. /\ DeleteNode(d, x).edges = g.edges /\ DeleteNode(d, x).modals = g.modals
        /\ DeleteNode(d, x).cycles = g.cycles
    BY <1>2, <2>2, DeleteNodeEffect DEF NodesDeleted
  <2> QED BY <2>4, <2>5 DEF NodesDeleted
<1>3. ASSUME NEW s \in SUBSET N, NEW x \in s, NEW d \in Graph, <<s \ {x}, d>> \in K
      PROVE  <<s, DeleteNode(d, x)>> \in K
  <2>1. DeleteNode(d, x) \in Graph
    BY DeleteNodeEffect
  <2> QED BY <1>2, <1>3, <2>1
<1> HIDE DEF K
<1>4. DeleteNodes(g, N) \in Graph /\ <<N, DeleteNodes(g, N)>> \in K
  BY <1>1, <1>3, DeleteNodesInduction
<1> QED BY <1>4 DEF K

\* d is g with each of the edges s counted once less, and their ends.
EdgesDeleted(d, g, s) ==
  /\ \A t \in Table : d.nodes[t] = g.nodes[t] - Ends(s, t)
  /\ \A e \in Edge : d.edges[e] = g.edges[e] - (IF e \in s THEN 1 ELSE 0)
  /\ d.modals = g.modals
  /\ d.cycles \in {g.cycles, "unknown"}
EdgesThere(g, N) ==
  (\A e \in N : g.edges[e] > 0) /\ (\A t \in Table : g.nodes[t] >= Ends(N, t))

\* Deleting the edges N, if all and their ends are there, takes one off each.
LEMMA DeleteEdgesEffect ==
  ASSUME NEW g \in Graph, NEW N \in SUBSET Edge, IsFiniteSet(N), EdgesThere(g, N)
  PROVE  DeleteEdges(g, N) \in Graph /\ EdgesDeleted(DeleteEdges(g, N), g, N)
<1> DEFINE K == {sd \in (SUBSET N) \X Graph : EdgesDeleted(sd[2], g, sd[1])}
<1>1. <<{}, g>> \in K
  BY EndsOfNone DEF EdgesDeleted, Graph
<1>2. ASSUME NEW s \in SUBSET N, NEW x \in s, NEW d \in Graph, EdgesDeleted(d, g, s \ {x})
      PROVE  EdgesDeleted(DeleteEdge(d, x), g, s)
  <2>1. (\A t \in Table : g.nodes[t] \in Nat) /\ (\A e \in Edge : g.edges[e] \in Nat)
    BY DEF Graph
  <2>2. x \in Edge /\ IsFiniteSet(s)
    BY FS_Subset
  <2>3. d.edges[x] > 0
    <3>1. d.edges[x] = g.edges[x] /\ g.edges[x] > 0
      BY <1>2, <2>1, <2>2 DEF EdgesDeleted, EdgesThere
    <3> QED BY <3>1
  <2>4. ASSUME NEW t \in Table PROVE DeleteEdge(d, x).nodes[t] = g.nodes[t] - Ends(s, t)
    <3>1. /\ Ends(s, t) \in Nat /\ Ends(s \ {x}, t) \in Nat
          /\ Ends(s, t) = Ends(s \ {x}, t) + One(t, x[1]) + One(t, x[2])
      BY <2>2, EndsOfOneMore DEF One
    <3>2. Ends(N, t) \in Nat /\ Ends(N, t) >= Ends(s, t)
      BY EndsGrow
    <3>3. g.nodes[t] >= Ends(N, t)
      BY DEF EdgesThere
    <3>4. d.nodes[t] = g.nodes[t] - Ends(s \ {x}, t)
      BY <1>2 DEF EdgesDeleted
    <3>5. One(t, x[1]) \in Nat /\ One(t, x[2]) \in Nat /\ g.nodes[t] \in Nat
      BY <2>1 DEF One
    <3>6. d.nodes[t] >= One(t, x[1]) + One(t, x[2])
      BY <3>1, <3>2, <3>3, <3>4, <3>5
    <3>7. DeleteEdge(d, x).nodes[t] = d.nodes[t] - (One(t, x[1]) + One(t, x[2]))
      BY <2>2, <2>3, <3>6, DeleteEdgeEffect DEF One
    <3> QED BY <3>1, <3>4, <3>5, <3>7
  <2>5. ASSUME NEW e \in Edge
        PROVE  DeleteEdge(d, x).edges[e] = g.edges[e] - (IF e \in s THEN 1 ELSE 0)
    <3>1. DeleteEdge(d, x).edges[e] = d.edges[e] - (IF e = x THEN 1 ELSE 0)
      BY <2>2, <2>3, DeleteEdgeEffect
    <3>2. d.edges[e] = g.edges[e] - (IF e \in s \ {x} THEN 1 ELSE 0)
      BY <1>2 DEF EdgesDeleted
    <3> QED BY <2>1, <3>1, <3>2
  <2>6. DeleteEdge(d, x).modals = g.modals /\ DeleteEdge(d, x).cycles \in {g.cycles, "unknown"}
    BY <1>2, <2>2, DeleteEdgeEffect DEF EdgesDeleted
  <2> QED BY <2>4, <2>5, <2>6 DEF EdgesDeleted
<1>3. ASSUME NEW s \in SUBSET N, NEW x \in s, NEW d \in Graph, <<s \ {x}, d>> \in K
      PROVE  <<s, DeleteEdge(d, x)>> \in K
  <2>1. DeleteEdge(d, x) \in Graph
    BY DeleteEdgeEffect
  <2> QED BY <1>2, <1>3, <2>1
<1> HIDE DEF K
<1>4. DeleteEdges(g, N) \in Graph /\ <<N, DeleteEdges(g, N)>> \in K
  BY <1>1, <1>3, DeleteEdgesInduction
<1> QED BY <1>4 DEF K
-----------------------------------------------------------------------------
(***************************************************************************)
(* What the graph should count: Q is a set of rules with their policies.   *)
(***************************************************************************)
Pair == Policy \X Rule
EdgesOf(q) == FormulaEdges(q[1], q[2])
NodesOf(q) == FormulaNodes(q[1], q[2])
HeadOf(q) == HeadTable(q[1], q[2])

EdgeUsers(e) == {q \in Pair : e \in EdgesOf(q)}
NodeUsers(t) == {q \in Pair : t \in NodesOf(q)}
ModalUsers(v) == {q \in Pair : q[2].modal /\ HeadOf(q) = v}

\* The edges of a rule that start or end at t, and how many the rules Q have of those.
StartsAt(t) == [q \in Pair |-> {e \in EdgesOf(q) : e[1] = t}]
EndsAt(t) == [q \in Pair |-> {e \in EdgesOf(q) : e[2] = t}]
Total(Q, w) == Cardinality({qe \in Q \X Edge : qe[2] \in w[qe[1]]})

References(Q, t) ==
  Cardinality(Q \cap NodeUsers(t)) + Total(Q, StartsAt(t)) + Total(Q, EndsAt(t))

\* The graph g counts exactly the rules Q.
Exact(g, Q) ==
  /\ \A e \in Edge : g.edges[e] = Cardinality(Q \cap EdgeUsers(e))
  /\ \A v \in PolicyTable : g.modals[v] = Cardinality(Q \cap ModalUsers(v))
  /\ \A t \in Table : g.nodes[t] = References(Q, t)

\* There are finitely many rules and edges.
LEMMA FiniteGraph == IsFiniteSet(Pair) /\ IsFiniteSet(Edge)
<1>1. IsFiniteSet(Pair)
  BY FiniteNames, FS_Product DEF Pair
<1>2. IsFiniteSet(Edge)
  <2> DEFINE f == [q \in Pair |-> EdgesOf(q)]
             S == {f[q] : q \in Pair}
  <2>1. f \in Surjection(Pair, S)
    BY DEF Surjection
  <2>2. \A T \in S : IsFiniteSet(T)
    <3>1. ASSUME NEW q \in Pair PROVE IsFiniteSet(f[q])
      BY FormulaShape DEF EdgesOf, Pair
    <3> QED BY <3>1
  <2>3. Edge = UNION S
    <3>1. ASSUME NEW e \in Edge PROVE e \in UNION S
      <4>1. PICK p \in Policy, r \in Rule : e \in FormulaEdges(p, r)
        BY DEF Edge
      <4>2. <<p, r>> \in Pair /\ e \in f[<<p, r>>]
        BY <4>1 DEF Pair, EdgesOf
      <4> QED BY <4>2
    <3>2. ASSUME NEW e \in UNION S PROVE e \in Edge
      <4>1. PICK q \in Pair : e \in FormulaEdges(q[1], q[2])
        BY DEF EdgesOf
      <4>2. q[1] \in Policy /\ q[2] \in Rule
        BY DEF Pair
      <4> QED BY <4>1, <4>2 DEF Edge
    <3> QED BY <3>1, <3>2
  <2> HIDE DEF f, S
  <2>4. IsFiniteSet(S)
    BY <1>1, <2>1, FS_Surjection
  <2>5. IsFiniteSet(UNION S)
    BY <2>2, <2>4, FS_UNION
  <2> QED BY <2>3, <2>5
<1> QED BY <1>1, <1>2

\* One rule more among those in U.
LEMMA CountOneMore ==
  ASSUME NEW Q \in SUBSET Pair, NEW q \in Pair, q \notin Q, NEW U \in SUBSET Pair
  PROVE  /\ Cardinality(Q \cap U) \in Nat /\ Cardinality((Q \cup {q}) \cap U) \in Nat
         /\ Cardinality((Q \cup {q}) \cap U) = Cardinality(Q \cap U) + (IF q \in U THEN 1 ELSE 0)
<1> DEFINE C == Q \cap U
<1>1. IsFiniteSet(C)
  <2>1. C \in SUBSET Pair
    OBVIOUS
  <2> HIDE DEF C
  <2> QED BY <2>1, FiniteGraph, FS_Subset
<1>2. Cardinality(C) \in Nat
  <2> HIDE DEF C
  <2> QED BY <1>1, FS_CardinalityType
<1>3. CASE q \in U
  <2>1. (Q \cup {q}) \cap U = C \cup {q} /\ q \notin C
    BY <1>3
  <2> HIDE DEF C
  <2>2. Cardinality(C \cup {q}) = Cardinality(C) + 1
    BY <1>1, <2>1, FS_AddElement
  <2>3. Cardinality(C \cup {q}) \in Nat
    BY <1>2, <2>2
  <2> QED BY <1>2, <1>3, <2>1, <2>2, <2>3 DEF C
<1>4. CASE q \notin U
  <2>1. (Q \cup {q}) \cap U = C
    BY <1>4
  <2> HIDE DEF C
  <2> DEFINE c == Cardinality(C)
  <2>2. Cardinality((Q \cup {q}) \cap U) = c
    BY <2>1
  <2>3. c \in Nat
    BY <1>2
  <2> HIDE DEF c
  <2>4. c = c + (IF q \in U THEN 1 ELSE 0)
    BY <1>4, <2>3
  <2> QED BY <2>2, <2>3, <2>4 DEF c, C
<1> QED BY <1>3, <1>4

\* One rule more: its own edges are added to the total.
LEMMA TotalOneMore ==
  ASSUME NEW Q \in SUBSET Pair, NEW q \in Pair, q \notin Q, NEW w \in [Pair -> SUBSET Edge]
  PROVE  /\ Total(Q, w) \in Nat /\ Cardinality(w[q]) \in Nat /\ Total(Q \cup {q}, w) \in Nat
         /\ Total(Q \cup {q}, w) = Total(Q, w) + Cardinality(w[q])
<1> DEFINE A == {qe \in Q \X Edge : qe[2] \in w[qe[1]]}
           B == {qe \in {q} \X Edge : qe[2] \in w[qe[1]]}
           C == {qe \in (Q \cup {q}) \X Edge : qe[2] \in w[qe[1]]}
           D == w[q]
           f == [e \in D |-> <<q, e>>]
<1>1. C = A \cup B /\ A \cap B = {} /\ A \in SUBSET (Pair \X Edge)
  OBVIOUS
<1>2. D \in SUBSET Edge
  OBVIOUS
<1>3. f \in Bijection(D, B)
  <2>1. f \in [D -> B]
    OBVIOUS
  <2>2. \A a, b \in D : f[a] = f[b] => a = b
    OBVIOUS
  <2>3. \A t \in B : \E s \in D : f[s] = t
    OBVIOUS
  <2> HIDE DEF f, D, B
  <2> QED BY <2>1, <2>2, <2>3 DEF Bijection, Injection, Surjection, IsInjective
<1>4. Total(Q, w) = Cardinality(A) /\ Total(Q \cup {q}, w) = Cardinality(C)
  BY DEF Total
<1> HIDE DEF A, B, C, f
<1>5. IsFiniteSet(A)
  <2>1. IsFiniteSet(Pair \X Edge)
    BY FiniteGraph, FS_Product
  <2> DEFINE P == Pair \X Edge
  <2>2. IsFiniteSet(P) /\ A \in SUBSET P
    BY <1>1, <2>1
  <2> HIDE DEF P
  <2> QED BY <2>2, FS_Subset
<1>6. IsFiniteSet(D)
  <2> HIDE DEF D
  <2> QED BY <1>2, FiniteGraph, FS_Subset
<1>7. IsFiniteSet(B) /\ Cardinality(B) = Cardinality(D)
  <2>1. ExistsBijection(D, B)
    BY <1>3 DEF ExistsBijection
  <2> HIDE DEF D
  <2> QED BY <1>6, <2>1, FS_Bijection
<1>8. Cardinality(A) \in Nat /\ Cardinality(D) \in Nat
  <2> HIDE DEF D
  <2> QED BY <1>5, <1>6, FS_CardinalityType
<1>9. Cardinality(C) = Cardinality(A) + Cardinality(B) - Cardinality({})
  BY <1>1, <1>5, <1>7, FS_Union
<1>10. Cardinality({}) = 0
  BY FS_EmptySet
<1> HIDE DEF D
<1>11. Cardinality(C) = Cardinality(A) + Cardinality(D)
  BY <1>7, <1>8, <1>9, <1>10
<1>12. Cardinality(C) \in Nat
  BY <1>8, <1>11
<1> QED BY <1>4, <1>8, <1>11, <1>12 DEF D

\* One rule more: what it adds to the references to t.
LEMMA ReferencesOneMore ==
  ASSUME NEW Q \in SUBSET Pair, NEW q \in Pair, q \notin Q, NEW t \in Table
  PROVE  /\ References(Q, t) \in Nat /\ References(Q \cup {q}, t) \in Nat
         /\ Ends(EdgesOf(q), t) \in Nat
         /\ References(Q \cup {q}, t) =
              References(Q, t) + (IF t \in NodesOf(q) THEN 1 ELSE 0) + Ends(EdgesOf(q), t)
<1>1. q[1] \in Policy /\ q[2] \in Rule
  BY DEF Pair
<1>2. StartsAt(t) \in [Pair -> SUBSET Edge] /\ EndsAt(t) \in [Pair -> SUBSET Edge]
  <2>1. \A x \in Pair : EdgesOf(x) \in SUBSET Edge
    BY FormulaShape DEF EdgesOf, Pair
  <2> QED BY <2>1 DEF StartsAt, EndsAt
<1>3. StartsAt(t)[q] = {e \in EdgesOf(q) : e[1] = t} /\ EndsAt(t)[q] = {e \in EdgesOf(q) : e[2] = t}
  BY DEF StartsAt, EndsAt
<1> DEFINE n == Cardinality(Q \cap NodeUsers(t))
           a == Total(Q, StartsAt(t))
           b == Total(Q, EndsAt(t))
           i == IF t \in NodesOf(q) THEN 1 ELSE 0
           j == Cardinality(StartsAt(t)[q])
           k == Cardinality(EndsAt(t)[q])
<1>4. n \in Nat /\ Cardinality((Q \cup {q}) \cap NodeUsers(t)) = n + i
  <2>1. NodeUsers(t) \in SUBSET Pair /\ (q \in NodeUsers(t) <=> t \in NodesOf(q))
    BY DEF NodeUsers
  <2> QED BY <2>1, CountOneMore
<1>5. a \in Nat /\ j \in Nat /\ Total(Q \cup {q}, StartsAt(t)) = a + j
  BY <1>2, TotalOneMore
<1>6. b \in Nat /\ k \in Nat /\ Total(Q \cup {q}, EndsAt(t)) = b + k
  BY <1>2, TotalOneMore
<1>7. Ends(EdgesOf(q), t) = j + k
  BY <1>3 DEF Ends
<1>8. References(Q, t) = n + a + b /\ References(Q \cup {q}, t) = (n + i) + (a + j) + (b + k)
  BY <1>4, <1>5, <1>6 DEF References
<1>9. i \in Nat
  OBVIOUS
<1> HIDE DEF n, a, b, i, j, k
<1>10. /\ References(Q, t) \in Nat /\ References(Q \cup {q}, t) \in Nat /\ Ends(EdgesOf(q), t) \in Nat
       /\ References(Q \cup {q}, t) = References(Q, t) + i + Ends(EdgesOf(q), t)
  BY <1>4, <1>5, <1>6, <1>7, <1>8, <1>9
<1> QED BY <1>10 DEF i

\* What is known of cycles is right, as far as it says that there are none.
CacheSound(g) == g.cycles = "none" => ~ Cyclic(LiveEdges(g))

\* f, made from g, forgot what is known of cycles or has no edges that g has not.
CacheKept(f, g) ==
  f.cycles = "unknown" \/ (f.cycles = g.cycles /\ \A e \in Edge : f.edges[e] <= g.edges[e])

\* A rule that is not counted yet is counted by FormulaInsert.
LEMMA InsertExact ==
  ASSUME NEW g \in Graph, NEW Q \in SUBSET Pair, NEW q \in Pair, q \notin Q, Exact(g, Q)
  PROVE  /\ FormulaInsert(g, q[1], q[2]) \in Graph
         /\ Exact(FormulaInsert(g, q[1], q[2]), Q \cup {q})
         /\ CacheKept(FormulaInsert(g, q[1], q[2]), g)
<1> DEFINE p == q[1]
           r == q[2]
           n == AddNodes(g, FormulaNodes(p, r))
           e == AddEdges(n, FormulaEdges(p, r))
           f == FormulaInsert(g, p, r)
<1>1. p \in Policy /\ r \in Rule /\ EdgesOf(q) = FormulaEdges(p, r) /\ NodesOf(q) = FormulaNodes(p, r)
  BY DEF Pair, EdgesOf, NodesOf
<1>2. r.modal \in BOOLEAN /\ HeadTable(p, r) \in PolicyTable
  BY <1>1, RuleShape, FormulaShape
<1>3. f = IF r.modal THEN [e EXCEPT !.modals[HeadTable(p, r)] = @ + 1] ELSE e
  BY DEF FormulaInsert
<1>4. n \in Graph /\ NodesAdded(n, g, NodesOf(q))
  BY <1>1, FormulaShape, AddNodesEffect
<1> HIDE DEF n
<1>5. e \in Graph /\ EdgesAdded(e, n, EdgesOf(q))
  BY <1>1, <1>4, FormulaShape, AddEdgesEffect
<1> HIDE DEF e, f
<1>6. /\ f \in Graph /\ f.nodes = e.nodes /\ f.edges = e.edges /\ f.cycles = e.cycles
      /\ \A v \in PolicyTable :
           f.modals[v] = e.modals[v] + (IF r.modal /\ HeadTable(p, r) = v THEN 1 ELSE 0)
  <2>1. CASE r.modal
    <3>1. e.modals[HeadTable(p, r)] + 1 \in Nat
      BY <1>2, <1>5 DEF Graph
    <3>2. [e.modals EXCEPT ![HeadTable(p, r)] = @ + 1] \in [PolicyTable -> Nat]
      BY <1>5, <3>1 DEF Graph
    <3>3. f = [e EXCEPT !.modals = [e.modals EXCEPT ![HeadTable(p, r)] = @ + 1]]
      BY <1>3, <1>5, <2>1 DEF Graph
    <3>4. f \in Graph /\ f.nodes = e.nodes /\ f.edges = e.edges /\ f.cycles = e.cycles
      BY <1>5, <3>2, <3>3 DEF Graph
    <3>5. f.modals = [e.modals EXCEPT ![HeadTable(p, r)] = @ + 1]
      BY <1>5, <3>3 DEF Graph
    <3>6. \A v \in PolicyTable :
            f.modals[v] = e.modals[v] + (IF HeadTable(p, r) = v THEN 1 ELSE 0)
      BY <1>5, <3>5 DEF Graph
    <3> QED BY <2>1, <3>4, <3>6
  <2>2. CASE ~ r.modal
    <3>1. \A v \in PolicyTable : e.modals[v] \in Nat
      BY <1>5 DEF Graph
    <3> QED BY <1>3, <1>5, <2>2, <3>1
  <2> QED BY <1>2, <2>1, <2>2
<1>7. ASSUME NEW k \in Edge PROVE f.edges[k] = Cardinality((Q \cup {q}) \cap EdgeUsers(k))
  <2>1. EdgeUsers(k) \in SUBSET Pair /\ (q \in EdgeUsers(k) <=> k \in EdgesOf(q))
    BY DEF EdgeUsers
  <2>2. f.edges[k] = g.edges[k] + (IF k \in EdgesOf(q) THEN 1 ELSE 0)
    BY <1>4, <1>5, <1>6 DEF NodesAdded, EdgesAdded
  <2>3. g.edges[k] = Cardinality(Q \cap EdgeUsers(k))
    BY DEF Exact
  <2>4. Cardinality((Q \cup {q}) \cap EdgeUsers(k)) =
          Cardinality(Q \cap EdgeUsers(k)) + (IF k \in EdgesOf(q) THEN 1 ELSE 0)
    BY <2>1, CountOneMore
  <2> QED BY <2>2, <2>3, <2>4
<1>8. ASSUME NEW v \in PolicyTable
      PROVE  f.modals[v] = Cardinality((Q \cup {q}) \cap ModalUsers(v))
  <2>1. ModalUsers(v) \in SUBSET Pair /\ (q \in ModalUsers(v) <=> r.modal /\ HeadTable(p, r) = v)
    BY DEF ModalUsers, HeadOf
  <2>2. f.modals[v] = g.modals[v] + (IF q \in ModalUsers(v) THEN 1 ELSE 0)
    BY <1>4, <1>5, <1>6, <2>1 DEF NodesAdded, EdgesAdded
  <2>3. g.modals[v] = Cardinality(Q \cap ModalUsers(v))
    BY DEF Exact
  <2>4. Cardinality((Q \cup {q}) \cap ModalUsers(v)) =
          Cardinality(Q \cap ModalUsers(v)) + (IF q \in ModalUsers(v) THEN 1 ELSE 0)
    BY <2>1, CountOneMore
  <2> QED BY <2>2, <2>3, <2>4
<1>9. ASSUME NEW t \in Table PROVE f.nodes[t] = References(Q \cup {q}, t)
  <2>1. f.nodes[t] = n.nodes[t] + Ends(EdgesOf(q), t)
    BY <1>5, <1>6 DEF EdgesAdded
  <2>2. n.nodes[t] = g.nodes[t] + (IF t \in NodesOf(q) THEN 1 ELSE 0)
    BY <1>4 DEF NodesAdded
  <2>3. g.nodes[t] = References(Q, t)
    BY DEF Exact
  <2>4. References(Q \cup {q}, t) =
          References(Q, t) + (IF t \in NodesOf(q) THEN 1 ELSE 0) + Ends(EdgesOf(q), t)
    BY ReferencesOneMore
  <2> QED BY <2>1, <2>2, <2>3, <2>4
<1>10. Exact(f, Q \cup {q})
  BY <1>7, <1>8, <1>9 DEF Exact
<1>11. CacheKept(f, g)
  <2>1. CASE EdgesOf(q) = {}
    <3>1. f.cycles = g.cycles
      BY <1>4, <1>5, <1>6, <2>1 DEF NodesAdded, EdgesAdded
    <3>2. ASSUME NEW k \in Edge PROVE f.edges[k] <= g.edges[k]
      <4>1. g.edges[k] \in Nat
        BY DEF Graph
      <4>2. f.edges[k] = g.edges[k] + 0
        BY <1>4, <1>5, <1>6, <2>1 DEF NodesAdded, EdgesAdded
      <4> QED BY <4>1, <4>2
    <3> QED BY <3>1, <3>2 DEF CacheKept
  <2>2. CASE EdgesOf(q) # {}
    <3>1. f.cycles = "unknown"
      BY <1>5, <1>6, <2>2 DEF EdgesAdded
    <3> QED BY <3>1 DEF CacheKept
  <2> QED BY <2>1, <2>2
<1> QED BY <1>6, <1>10, <1>11 DEF f

\* A rule that is counted is taken off by FormulaDelete; no count is cut off at 0.
LEMMA DeleteExact ==
  ASSUME NEW g \in Graph, NEW Q \in SUBSET Pair, NEW q \in Q, Exact(g, Q)
  PROVE  /\ FormulaDelete(g, q[1], q[2]) \in Graph
         /\ Exact(FormulaDelete(g, q[1], q[2]), Q \ {q})
         /\ CacheKept(FormulaDelete(g, q[1], q[2]), g)
<1> DEFINE p == q[1]
           r == q[2]
           n == DeleteNodes(g, FormulaNodes(p, r))
           e == DeleteEdges(n, FormulaEdges(p, r))
           f == FormulaDelete(g, p, r)
           D == Q \ {q}
           H == HeadTable(p, r)
<1>0. D \in SUBSET Pair /\ q \in Pair /\ q \notin D /\ D \cup {q} = Q
  OBVIOUS
<1>1. p \in Policy /\ r \in Rule /\ EdgesOf(q) = FormulaEdges(p, r) /\ NodesOf(q) = FormulaNodes(p, r)
  BY <1>0 DEF Pair, EdgesOf, NodesOf
<1>2. r.modal \in BOOLEAN /\ H \in PolicyTable
  BY <1>1, RuleShape, FormulaShape
<1>3. f = IF r.modal /\ e.modals[H] > 0 THEN [e EXCEPT !.modals[H] = @ - 1] ELSE e
  BY DEF FormulaDelete
<1> HIDE DEF D, f
<1>4. ASSUME NEW t \in Table
      PROVE  /\ g.nodes[t] = References(D, t) + (IF t \in NodesOf(q) THEN 1 ELSE 0) + Ends(EdgesOf(q), t)
             /\ References(D, t) \in Nat /\ Ends(EdgesOf(q), t) \in Nat
  BY <1>0, ReferencesOneMore DEF Exact
<1>5. ASSUME NEW k \in Edge
      PROVE  /\ Cardinality(D \cap EdgeUsers(k)) \in Nat
             /\ g.edges[k] = Cardinality(D \cap EdgeUsers(k)) + (IF k \in EdgesOf(q) THEN 1 ELSE 0)
  <2>1. EdgeUsers(k) \in SUBSET Pair /\ (q \in EdgeUsers(k) <=> k \in EdgesOf(q))
    BY <1>0 DEF EdgeUsers
  <2>2. g.edges[k] = Cardinality((D \cup {q}) \cap EdgeUsers(k))
    BY <1>0 DEF Exact
  <2> QED BY <1>0, <2>1, <2>2, CountOneMore
<1>6. ASSUME NEW v \in PolicyTable
      PROVE  /\ Cardinality(D \cap ModalUsers(v)) \in Nat
             /\ g.modals[v] = Cardinality(D \cap ModalUsers(v)) + (IF r.modal /\ H = v THEN 1 ELSE 0)
  <2>1. ModalUsers(v) \in SUBSET Pair /\ (q \in ModalUsers(v) <=> r.modal /\ H = v)
    BY <1>0 DEF ModalUsers, HeadOf
  <2>2. g.modals[v] = Cardinality((D \cup {q}) \cap ModalUsers(v))
    BY <1>0 DEF Exact
  <2> QED BY <1>0, <2>1, <2>2, CountOneMore
<1>7. NodesThere(g, NodesOf(q))
  <2>1. \A t \in NodesOf(q) : t \in Table
    BY <1>1, FormulaShape
  <2> QED BY <1>4, <2>1 DEF NodesThere
<1>8. n \in Graph /\ NodesDeleted(n, g, NodesOf(q))
  BY <1>1, <1>7, FormulaShape, DeleteNodesEffect
<1> HIDE DEF n
<1>9. EdgesThere(n, EdgesOf(q))
  <2>1. ASSUME NEW k \in EdgesOf(q) PROVE n.edges[k] > 0
    <3>1. k \in Edge
      BY <1>1, FormulaShape
    <3>2. n.edges[k] = g.edges[k]
      BY <1>8 DEF NodesDeleted
    <3> DEFINE c == Cardinality(D \cap EdgeUsers(k))
    <3>3. c \in Nat /\ g.edges[k] = c + 1
      BY <1>5, <3>1
    <3> HIDE DEF c
    <3> QED BY <3>2, <3>3
  <2>2. ASSUME NEW t \in Table PROVE n.nodes[t] >= Ends(EdgesOf(q), t)
    <3>1. n.nodes[t] = g.nodes[t] - (IF t \in NodesOf(q) THEN 1 ELSE 0)
      BY <1>8 DEF NodesDeleted
    <3> QED BY <1>4, <3>1
  <2> QED BY <2>1, <2>2 DEF EdgesThere
<1>10. e \in Graph /\ EdgesDeleted(e, n, EdgesOf(q))
  BY <1>1, <1>8, <1>9, FormulaShape, DeleteEdgesEffect
<1> HIDE DEF e, H
<1>11. e.modals = g.modals /\ e.cycles \in {g.cycles, "unknown"}
  BY <1>8, <1>10 DEF NodesDeleted, EdgesDeleted
<1>12. /\ f \in Graph /\ f.nodes = e.nodes /\ f.edges = e.edges /\ f.cycles = e.cycles
       /\ \A v \in PolicyTable : f.modals[v] = Cardinality(D \cap ModalUsers(v))
  <2>1. CASE r.modal
    <3>1. e.modals[H] > 0 /\ e.modals[H] - 1 \in Nat
      <4> DEFINE c == Cardinality(D \cap ModalUsers(H))
      <4>1. c \in Nat /\ g.modals[H] = c + 1
        BY <1>2, <1>6, <2>1
      <4> HIDE DEF c
      <4> QED BY <1>11, <4>1
    <3>2. [e.modals EXCEPT ![H] = @ - 1] \in [PolicyTable -> Nat]
      BY <1>10, <3>1 DEF Graph
    <3>3. f = [e EXCEPT !.modals = [e.modals EXCEPT ![H] = @ - 1]]
      BY <1>3, <1>10, <2>1, <3>1 DEF Graph
    <3>4. f \in Graph /\ f.nodes = e.nodes /\ f.edges = e.edges /\ f.cycles = e.cycles
      BY <1>10, <3>2, <3>3 DEF Graph
    <3>5. f.modals = [e.modals EXCEPT ![H] = @ - 1]
      BY <1>10, <3>3 DEF Graph
    <3>6. ASSUME NEW v \in PolicyTable PROVE f.modals[v] = Cardinality(D \cap ModalUsers(v))
      <4>1. f.modals[v] = IF v = H THEN e.modals[v] - 1 ELSE e.modals[v]
        BY <1>10, <3>5 DEF Graph
      <4>2. e.modals[v] = g.modals[v]
        BY <1>11
      <4> QED BY <1>6, <2>1, <4>1, <4>2
    <3> QED BY <3>4, <3>6
  <2>2. CASE ~ r.modal
    <3>1. f = e
      BY <1>3, <2>2
    <3>2. ASSUME NEW v \in PolicyTable PROVE e.modals[v] = Cardinality(D \cap ModalUsers(v))
      BY <1>6, <1>11, <2>2
    <3> QED BY <1>10, <3>1, <3>2
  <2> QED BY <1>2, <2>1, <2>2
<1>13. ASSUME NEW k \in Edge
       PROVE  f.edges[k] = Cardinality(D \cap EdgeUsers(k)) /\ f.edges[k] <= g.edges[k]
  <2>1. f.edges[k] = n.edges[k] - (IF k \in EdgesOf(q) THEN 1 ELSE 0)
    BY <1>10, <1>12 DEF EdgesDeleted
  <2>2. n.edges[k] = g.edges[k]
    BY <1>8 DEF NodesDeleted
  <2> DEFINE c == Cardinality(D \cap EdgeUsers(k))
             i == IF k \in EdgesOf(q) THEN 1 ELSE 0
  <2>3. c \in Nat /\ g.edges[k] = c + i
    BY <1>5
  <2>4. f.edges[k] = g.edges[k] - i
    BY <2>1, <2>2
  <2>5. i \in {0, 1}
    OBVIOUS
  <2> HIDE DEF c, i
  <2>6. f.edges[k] = c /\ f.edges[k] <= g.edges[k]
    BY <2>3, <2>4, <2>5
  <2> QED BY <2>6 DEF c
<1>14. ASSUME NEW t \in Table PROVE f.nodes[t] = References(D, t)
  <2>1. f.nodes[t] = n.nodes[t] - Ends(EdgesOf(q), t)
    BY <1>10, <1>12 DEF EdgesDeleted
  <2>2. n.nodes[t] = g.nodes[t] - (IF t \in NodesOf(q) THEN 1 ELSE 0)
    BY <1>8 DEF NodesDeleted
  <2> QED BY <1>4, <2>1, <2>2
<1>15. Exact(f, D)
  BY <1>12, <1>13, <1>14 DEF Exact
<1>16. CacheKept(f, g)
  BY <1>11, <1>12, <1>13 DEF CacheKept
<1> QED BY <1>12, <1>15, <1>16 DEF f, D
-----------------------------------------------------------------------------
(***************************************************************************)
(* Cycles.                                                                 *)
(***************************************************************************)
StepAlong(E, X) == X \cup {e[2] : e \in {f \in E : f[1] \in X}}

\* h has the tables reached from the roots in at most 0, 1, ... edges of E.
Chain(h, E, roots) ==
  /\ h[0] = roots
  /\ \A i \in 1 .. Cardinality(Table) : h[i] = StepAlong(E, h[i - 1])

\* There are finitely many tables.
LEMMA FiniteTable == IsFiniteSet(Table) /\ Cardinality(Table) \in Nat
<1>1. IsFiniteSet(PolicyTable)
  BY FiniteNames, FS_Product DEF PolicyTable
<1>2. IsFiniteSet(Table)
  BY <1>1, FiniteNames, FS_Union DEF Table
<1> QED BY <1>2, FS_CardinalityType

\* What is reachable is the last of such a chain.
LEMMA ReachableChain ==
  ASSUME NEW E \in SUBSET Edge, NEW roots \in SUBSET Table
  PROVE  \E h \in [0 .. Cardinality(Table) -> SUBSET Table] :
           Chain(h, E, roots) /\ Reachable(E, roots) = h[Cardinality(Table)]
<1> DEFINE n == Cardinality(Table)
           A == SUBSET Table
           F == [ix \in (1 .. n) \X A |-> StepAlong(E, ix[2])]
           reach == CHOOSE f : f = [i \in 0 .. n |-> IF i = 0 THEN roots
                                      ELSE f[i - 1] \cup {e[2] : e \in {f2 \in E : f2[1] \in f[i - 1]}}]
<1>1. n \in Nat
  BY FiniteTable
<1>2. Reachable(E, roots) = reach[n]
  BY DEF Reachable
<1> HIDE DEF n
<1>3. \A x \in A : StepAlong(E, x) \in A
  BY EdgeShape DEF StepAlong
<1>4. F \in [(1 .. n) \X A -> A]
  <2> HIDE DEF A
  <2> QED BY <1>3
<1>5. PICK h : Iterates(h, n, A, roots, F)
  <2>1. roots \in A /\ StepFunction(n, A, F)
    BY <1>4 DEF StepFunction
  <2> HIDE DEF A, F
  <2> QED BY <1>1, <2>1, IntervalRecursion
<1>6. ASSUME NEW i \in 1 .. n PROVE h[i] = StepAlong(E, h[i - 1])
  <2>1. i - 1 \in 0 .. n /\ i \in 0 .. n /\ i # 0
    BY <1>1
  <2>2. h[i - 1] \in A /\ h[i] = F[<<i, h[i - 1]>>]
    <3> HIDE DEF F, A
    <3> QED BY <1>5, <2>1 DEF Iterates
  <2> HIDE DEF A
  <2> QED BY <2>2
<1>7. h[0] = roots
  BY <1>1, <1>5 DEF Iterates
<1>8. h = [i \in 0 .. n |-> IF i = 0 THEN roots
             ELSE h[i - 1] \cup {e[2] : e \in {f2 \in E : f2[1] \in h[i - 1]}}]
  <2>1. ASSUME NEW i \in 0 .. n
        PROVE  h[i] = IF i = 0 THEN roots
                      ELSE h[i - 1] \cup {e[2] : e \in {f2 \in E : f2[1] \in h[i - 1]}}
    <3>1. CASE i = 0
      BY <1>7, <3>1
    <3>2. CASE i # 0
      <4>1. i \in 1 .. n
        BY <1>1, <3>2
      <4> QED BY <1>6, <3>2, <4>1 DEF StepAlong
    <3> QED BY <3>1, <3>2
  <2> QED BY <1>5, <2>1 DEF Iterates
<1>9. reach = [i \in 0 .. n |-> IF i = 0 THEN roots
             ELSE reach[i - 1] \cup {e[2] : e \in {f2 \in E : f2[1] \in reach[i - 1]}}]
  BY <1>8
<1> HIDE DEF reach
<1>10. ASSUME NEW i \in 1 .. n PROVE reach[i] = StepAlong(E, reach[i - 1])
  <2>1. i \in 0 .. n /\ i # 0
    BY <1>1
  <2> QED BY <1>9, <2>1 DEF StepAlong
<1>11. reach[0] = roots
  BY <1>1, <1>9
<1> DEFINE B == {i \in 0 .. n : reach[i] \notin A}
<1>12. ASSUME B # {} PROVE FALSE
  <2>1. B \in SUBSET Nat
    BY <1>1
  <2>2. PICK i \in B : \A y \in B : i <= y
    <3> HIDE DEF B
    <3> QED BY <1>12, <2>1, SmallestNumber
  <2>3. i \in 1 .. n
    BY <1>1, <1>11, <2>2
  <2>4. i - 1 \in 0 .. n /\ ~ (i <= i - 1)
    BY <1>1, <2>3
  <2>5. reach[i - 1] \in A
    BY <2>2, <2>4
  <2> HIDE DEF A
  <2> QED BY <1>3, <1>10, <2>2, <2>3, <2>5
<1>13. reach \in [0 .. n -> A]
  <2>1. \A i \in 0 .. n : reach[i] \in A
    BY <1>12
  <2> HIDE DEF A
  <2> QED BY <1>9, <2>1
<1>14. Chain(reach, E, roots)
  BY <1>10, <1>11 DEF Chain, n
<1> QED BY <1>2, <1>13, <1>14 DEF n

\* More is reachable along more edges.
LEMMA ReachableGrows ==
  ASSUME NEW E \in SUBSET Edge, NEW D \in SUBSET E, NEW roots \in SUBSET Table
  PROVE  Reachable(D, roots) \subseteq Reachable(E, roots)
<1> DEFINE n == Cardinality(Table)
<1>1. n \in Nat
  BY FiniteTable
<1>2. PICK h \in [0 .. n -> SUBSET Table] : Chain(h, E, roots) /\ Reachable(E, roots) = h[n]
  BY ReachableChain
<1>3. PICK k \in [0 .. n -> SUBSET Table] : Chain(k, D, roots) /\ Reachable(D, roots) = k[n]
  <2>1. D \in SUBSET Edge
    OBVIOUS
  <2> QED BY <2>1, ReachableChain
<1> DEFINE B == {i \in 0 .. n : ~ (k[i] \subseteq h[i])}
<1>4. k[0] = h[0]
  BY <1>2, <1>3 DEF Chain
<1>5. \A i \in 1 .. n : k[i] = StepAlong(D, k[i - 1]) /\ h[i] = StepAlong(E, h[i - 1])
  BY <1>2, <1>3 DEF Chain
<1> HIDE DEF n
<1>6. ASSUME B # {} PROVE FALSE
  <2>1. B \in SUBSET Nat
    BY <1>1
  <2>2. PICK i \in B : \A y \in B : i <= y
    <3> HIDE DEF B
    <3> QED BY <1>6, <2>1, SmallestNumber
  <2>3. i \in 1 .. n
    BY <1>1, <1>4, <2>2
  <2>4. i - 1 \in 0 .. n /\ ~ (i <= i - 1)
    BY <1>1, <2>3
  <2>5. k[i - 1] \subseteq h[i - 1]
    BY <2>2, <2>4
  <2>6. StepAlong(D, k[i - 1]) \subseteq StepAlong(E, h[i - 1])
    BY <2>5 DEF StepAlong
  <2> QED BY <1>5, <2>2, <2>3, <2>6
<1>7. n \in 0 .. n
  BY <1>1
<1>8. k[n] \subseteq h[n]
  BY <1>6, <1>7
<1> QED BY <1>2, <1>3, <1>8

\* Fewer edges have no more cycles.
LEMMA CyclicGrows ==
  ASSUME NEW E \in SUBSET Edge, NEW D \in SUBSET E, Cyclic(D)
  PROVE  Cyclic(E)
<1>1. PICK e \in D : e[1] \in Reachable(D, {e[2]})
  BY DEF Cyclic
<1>2. {e[2]} \in SUBSET Table
  BY EdgeShape
<1>3. Reachable(D, {e[2]}) \subseteq Reachable(E, {e[2]})
  BY <1>2, ReachableGrows
<1> QED BY <1>1, <1>3 DEF Cyclic

\* What is known of cycles stays right when nothing is added behind its back.
LEMMA CacheStays ==
  ASSUME NEW g \in Graph, NEW f \in Graph, CacheSound(g), CacheKept(f, g)
  PROVE  CacheSound(f)
<1> SUFFICES ASSUME f.cycles = "none", Cyclic(LiveEdges(f)) PROVE FALSE
  BY DEF CacheSound
<1>1. g.cycles = "none" /\ \A e \in Edge : f.edges[e] <= g.edges[e]
  BY DEF CacheKept
<1>2. LiveEdges(f) \in SUBSET LiveEdges(g) /\ LiveEdges(g) \in SUBSET Edge
  <2>1. \A e \in Edge : f.edges[e] \in Nat /\ g.edges[e] \in Nat
    BY DEF Graph
  <2> QED BY <1>1, <2>1 DEF LiveEdges
<1>3. Cyclic(LiveEdges(g))
  BY <1>2, CyclicGrows
<1> QED BY <1>1, <1>3 DEF CacheSound
-----------------------------------------------------------------------------
(***************************************************************************)
(* Loops over the events of an update.                                     *)
(***************************************************************************)
\* What an update leaves of the events it is given.
Log(evs) ==
  /\ IsFiniteSet(DOMAIN evs) /\ DOMAIN evs \subseteq Nat
  /\ \A i \in DOMAIN evs : evs[i] \in Event

\* Inserting and deleting a formula leave a graph, whatever is counted.
LEMMA FormulaTypes ==
  ASSUME NEW g \in Graph, NEW p \in Policy, NEW r \in Rule
  PROVE  FormulaInsert(g, p, r) \in Graph /\ FormulaDelete(g, p, r) \in Graph
<1> DEFINE H == HeadTable(p, r)
           N == FormulaNodes(p, r)
           E == FormulaEdges(p, r)
<1>1. /\ H \in PolicyTable /\ N \in SUBSET Table /\ IsFiniteSet(N)
      /\ E \in SUBSET Edge /\ IsFiniteSet(E)
  BY FormulaShape
<1>2. FormulaInsert(g, p, r) \in Graph
  <2> DEFINE n == AddNodes(g, N)
             e == AddEdges(n, E)
             f == FormulaInsert(g, p, r)
  <2>1. f = IF r.modal THEN [e EXCEPT !.modals[H] = @ + 1] ELSE e
    BY DEF FormulaInsert
  <2> HIDE DEF f, H, N, E
  <2>2. n \in Graph
    BY <1>1, AddNodesEffect
  <2> HIDE DEF n
  <2>3. e \in Graph
    BY <1>1, <2>2, AddEdgesEffect
  <2> HIDE DEF e
  <2>4. f \in Graph
    BY <1>1, <2>1, <2>3 DEF Graph
  <2> QED BY <2>4 DEF f
<1>3. FormulaDelete(g, p, r) \in Graph
  <2> DEFINE n == DeleteNodes(g, N)
             e == DeleteEdges(n, E)
             f == FormulaDelete(g, p, r)
  <2>1. f = IF r.modal /\ e.modals[H] > 0 THEN [e EXCEPT !.modals[H] = @ - 1] ELSE e
    BY DEF FormulaDelete
  <2> HIDE DEF f, H, N, E
  <2>2. n \in Graph
    <3> DEFINE K == (SUBSET N) \X Graph
    <3>1. <<{}, g>> \in K
      OBVIOUS
    <3>2. \A s \in SUBSET N : \A x \in s : \A d \in Graph :
            <<s \ {x}, d>> \in K => <<s, DeleteNode(d, x)>> \in K
      BY <1>1, DeleteNodeEffect
    <3> HIDE DEF K
    <3> QED BY <1>1, <3>1, <3>2, DeleteNodesInduction
  <2> HIDE DEF n
  <2>3. e \in Graph
    <3> DEFINE K == (SUBSET E) \X Graph
    <3>1. <<{}, n>> \in K
      BY <2>2
    <3>2. \A s \in SUBSET E : \A x \in s : \A d \in Graph :
            <<s \ {x}, d>> \in K => <<s, DeleteEdge(d, x)>> \in K
      BY <1>1, DeleteEdgeEffect
    <3> HIDE DEF K
    <3> QED BY <1>1, <2>2, <3>1, <3>2, DeleteEdgesInduction
  <2> HIDE DEF e
  <2>4. f \in Graph
    <3>1. CASE r.modal /\ e.modals[H] > 0
      <4>1. e.modals[H] - 1 \in Nat
        BY <1>1, <2>3, <3>1 DEF Graph
      <4> QED BY <1>1, <2>1, <2>3, <3>1, <4>1 DEF Graph
    <3>2. CASE ~ (r.modal /\ e.modals[H] > 0)
      BY <2>1, <2>3, <3>2
    <3> QED BY <3>1, <3>2
  <2> QED BY <2>4 DEF f
<1> QED BY <1>2, <1>3

\* One event leaves a graph, and a theory's rules are rules.
LEMMA EventTypes ==
  ASSUME NEW ev \in Event
  PROVE  /\ \A g \in Graph : FormulaUpdate(g, ev) \in Graph /\ FormulaUndo(g, ev) \in Graph
         /\ \A c \in SUBSET Rule : ContentUpdate(c, ev) \in SUBSET Rule
<1>1. ev.target \in Policy /\ ev.rule \in Rule /\ ev.insert \in BOOLEAN
  BY DEF Event
<1>2. \A g \in Graph : FormulaUpdate(g, ev) \in Graph /\ FormulaUndo(g, ev) \in Graph
  BY <1>1, FormulaTypes DEF FormulaUpdate, FormulaUndo
<1> QED BY <1>1, <1>2 DEF ContentUpdate

\* What holds of g, and with one event more whenever it holds with fewer, holds of
\* GraphUpdate(g, evs).
LEMMA GraphUpdateInduction ==
  ASSUME NEW g \in Graph, NEW evs, Log(evs), NEW K, <<{}, g>> \in K,
         \A s \in SUBSET DOMAIN evs : \A i \in s : \A d \in Graph :
           <<s \ {i}, d>> \in K => <<s, FormulaUpdate(d, evs[i])>> \in K
  PROVE  GraphUpdate(g, evs) \in Graph /\ <<DOMAIN evs, GraphUpdate(g, evs)>> \in K
<1> DEFINE N == DOMAIN evs
           A == Graph
           c == [s \in SUBSET N |-> Max(s)]
           F == [ia \in N \X A |-> FormulaUpdate(ia[2], evs[ia[1]])]
           iter == CHOOSE f : f = [s \in SUBSET N |->
                                     IF s = {} THEN g ELSE FormulaUpdate(f[s \ {Max(s)}], evs[Max(s)])]
<1>1. GraphUpdate(g, evs) = iter[N]
  BY DEF GraphUpdate, FoldLeft, MapThenFoldSet
<1>2. ASSUME NEW s \in (SUBSET N) \ {{}} PROVE Max(s) \in s /\ c[s] = Max(s)
  <2>1. IsFiniteSet(s)
    BY FS_Subset DEF Log
  <2>2. Numbers(s)
    BY DEF Log, Numbers
  <2> QED BY <2>1, <2>2, MaxMember
<1>3. \A d \in A : \A i \in N : FormulaUpdate(d, evs[i]) \in A
  <2> SUFFICES ASSUME NEW d \in A, NEW i \in N PROVE FormulaUpdate(d, evs[i]) \in A
    OBVIOUS
  <2>1. evs[i] \in Event
    BY DEF Log
  <2> QED BY <2>1, EventTypes
<1>4. F \in [N \X A -> A]
  <2> HIDE DEF A
  <2> QED BY <1>3
<1>5. PICK k \in [SUBSET N -> A] :
        k = [s \in SUBSET N |-> IF s = {} THEN g ELSE F[<<c[s], k[s \ {c[s]}]>>]]
  <2>1. Recursive(N, A, g, F, c)
    <3>1. IsFiniteSet(N) /\ g \in A
      BY DEF Log
    <3> HIDE DEF F, c, A
    <3> QED BY <1>2, <1>4, <3>1 DEF Recursive
  <2> HIDE DEF F, c, A
  <2>2. Solvable(N, A, g, F, c)
    BY <2>1, SetRecursion
  <2> QED BY <2>2 DEF Solvable
<1> HIDE DEF A
<1>7. k = [s \in SUBSET N |-> IF s = {} THEN g ELSE FormulaUpdate(k[s \ {Max(s)}], evs[Max(s)])]
  <2>1. ASSUME NEW s \in SUBSET N, s # {}
        PROVE  F[<<c[s], k[s \ {c[s]}]>>] = FormulaUpdate(k[s \ {Max(s)}], evs[Max(s)])
    <3>1. Max(s) \in N /\ c[s] = Max(s) /\ k[s \ {Max(s)}] \in A
      BY <1>2, <2>1
    <3> HIDE DEF c
    <3> QED BY <3>1
  <2> HIDE DEF F, c
  <2>2. \A s \in SUBSET N : k[s] = IF s = {} THEN g ELSE FormulaUpdate(k[s \ {Max(s)}], evs[Max(s)])
    BY <1>5, <2>1
  <2> QED BY <2>2
<1>8. iter = [s \in SUBSET N |-> IF s = {} THEN g ELSE FormulaUpdate(iter[s \ {Max(s)}], evs[Max(s)])]
  BY <1>7
<1> HIDE DEF iter
<1> DEFINE Good(s) == iter[s] \in A /\ <<s, iter[s]>> \in K
           B == {s \in SUBSET N : ~ Good(s)}
<1>9. ASSUME B # {} PROVE FALSE
  <2>1. PICK s \in B : \A y \in B : y \subseteq s => y = s
    <3>1. B \in SUBSET SUBSET N /\ IsFiniteSet(N)
      BY DEF Log
    <3> HIDE DEF B
    <3> QED BY <1>9, <3>1, SmallestSubset
  <2>2. Good({})
    BY <1>8 DEF A
  <2>3. s \in SUBSET N /\ s # {}
    BY <2>1, <2>2
  <2>4. Max(s) \in s /\ iter[s] = FormulaUpdate(iter[s \ {Max(s)}], evs[Max(s)])
    BY <1>2, <1>8, <2>3
  <2>5. s \ {Max(s)} \notin B
    BY <2>1, <2>4
  <2>6. Good(s \ {Max(s)})
    BY <2>3, <2>5
  <2>7. iter[s] \in A
    BY <1>3, <2>3, <2>4, <2>6
  <2>8. <<s, iter[s]>> \in K
    BY <2>3, <2>4, <2>6 DEF A
  <2> QED BY <2>1, <2>7, <2>8
<1>10. Good(N)
  BY <1>9
<1> QED BY <1>1, <1>10 DEF A

\* What holds of g, and with one event more whenever it holds with fewer, holds of
\* UndoChanges(g, evs).
LEMMA UndoChangesInduction ==
  ASSUME NEW g \in Graph, NEW evs, Log(evs), NEW K, <<{}, g>> \in K,
         \A s \in SUBSET DOMAIN evs : \A i \in s : \A d \in Graph :
           <<s \ {i}, d>> \in K => <<s, FormulaUndo(d, evs[i])>> \in K
  PROVE  UndoChanges(g, evs) \in Graph /\ <<DOMAIN evs, UndoChanges(g, evs)>> \in K
<1> DEFINE N == DOMAIN evs
           A == Graph
           c == [s \in SUBSET N |-> Max(s)]
           F == [ia \in N \X A |-> FormulaUndo(ia[2], evs[ia[1]])]
           iter == CHOOSE f : f = [s \in SUBSET N |->
                                     IF s = {} THEN g ELSE FormulaUndo(f[s \ {Max(s)}], evs[Max(s)])]
<1>1. UndoChanges(g, evs) = iter[N]
  BY DEF UndoChanges, FoldLeft, MapThenFoldSet
<1>2. ASSUME NEW s \in (SUBSET N) \ {{}} PROVE Max(s) \in s /\ c[s] = Max(s)
  <2>1. IsFiniteSet(s)
    BY FS_Subset DEF Log
  <2>2. Numbers(s)
    BY DEF Log, Numbers
  <2> QED BY <2>1, <2>2, MaxMember
<1>3. \A d \in A : \A i \in N : FormulaUndo(d, evs[i]) \in A
  <2> SUFFICES ASSUME NEW d \in A, NEW i \in N PROVE FormulaUndo(d, evs[i]) \in A
    OBVIOUS
  <2>1. evs[i] \in Event
    BY DEF Log
  <2> QED BY <2>1, EventTypes
<1>4. F \in [N \X A -> A]
  <2> HIDE DEF A
  <2> QED BY <1>3
<1>5. PICK k \in [SUBSET N -> A] :
        k = [s \in SUBSET N |-> IF s = {} THEN g ELSE F[<<c[s], k[s \ {c[s]}]>>]]
  <2>1. Recursive(N, A, g, F, c)
    <3>1. IsFiniteSet(N) /\ g \in A
      BY DEF Log
    <3> HIDE DEF F, c, A
    <3> QED BY <1>2, <1>4, <3>1 DEF Recursive
  <2> HIDE DEF F, c, A
  <2>2. Solvable(N, A, g, F, c)
    BY <2>1, SetRecursion
  <2> QED BY <2>2 DEF Solvable
<1> HIDE DEF A
<1>7. k = [s \in SUBSET N |-> IF s = {} THEN g ELSE FormulaUndo(k[s \ {Max(s)}], evs[Max(s)])]
  <2>1. ASSUME NEW s \in SUBSET N, s # {}
        PROVE  F[<<c[s], k[s \ {c[s]}]>>] = FormulaUndo(k[s \ {Max(s)}], evs[Max(s)])
    <3>1. Max(s) \in N /\ c[s] = Max(s) /\ k[s \ {Max(s)}] \in A
      BY <1>2, <2>1
    <3> HIDE DEF c
    <3> QED BY <3>1
  <2> HIDE DEF F, c
  <2>2. \A s \in SUBSET N : k[s] = IF s = {} THEN g ELSE FormulaUndo(k[s \ {Max(s)}], evs[Max(s)])
    BY <1>5, <2>1
  <2> QED BY <2>2
<1>8. iter = [s \in SUBSET N |-> IF s = {} THEN g ELSE FormulaUndo(iter[s \ {Max(s)}], evs[Max(s)])]
  BY <1>7
<1> HIDE DEF iter
<1> DEFINE Good(s) == iter[s] \in A /\ <<s, iter[s]>> \in K
           B == {s \in SUBSET N : ~ Good(s)}
<1>9. ASSUME B # {} PROVE FALSE
  <2>1. PICK s \in B : \A y \in B : y \subseteq s => y = s
    <3>1. B \in SUBSET SUBSET N /\ IsFiniteSet(N)
      BY DEF Log
    <3> HIDE DEF B
    <3> QED BY <1>9, <3>1, SmallestSubset
  <2>2. Good({})
    BY <1>8 DEF A
  <2>3. s \in SUBSET N /\ s # {}
    BY <2>1, <2>2
  <2>4. Max(s) \in s /\ iter[s] = FormulaUndo(iter[s \ {Max(s)}], evs[Max(s)])
    BY <1>2, <1>8, <2>3
  <2>5. s \ {Max(s)} \notin B
    BY <2>1, <2>4
  <2>6. Good(s \ {Max(s)})
    BY <2>3, <2>5
  <2>7. iter[s] \in A
    BY <1>3, <2>3, <2>4, <2>6
  <2>8. <<s, iter[s]>> \in K
    BY <2>3, <2>4, <2>6 DEF A
  <2> QED BY <2>1, <2>7, <2>8
<1>10. Good(N)
  BY <1>9
<1> QED BY <1>1, <1>10 DEF A

\* What holds of g, and with one event more whenever it holds with fewer, holds of
\* ContentUpdates(g, evs).
LEMMA ContentUpdatesInduction ==
  ASSUME NEW g \in (SUBSET Rule), NEW evs, Log(evs), NEW K, <<{}, g>> \in K,
         \A s \in SUBSET DOMAIN evs : \A i \in s : \A d \in (SUBSET Rule) :
           <<s \ {i}, d>> \in K => <<s, ContentUpdate(d, evs[i])>> \in K
  PROVE  ContentUpdates(g, evs) \in (SUBSET Rule) /\ <<DOMAIN evs, ContentUpdates(g, evs)>> \in K
<1> DEFINE N == DOMAIN evs
           A == (SUBSET Rule)
           c == [s \in SUBSET N |-> Max(s)]
           F == [ia \in N \X A |-> ContentUpdate(ia[2], evs[ia[1]])]
           iter == CHOOSE f : f = [s \in SUBSET N |->
                                     IF s = {} THEN g ELSE ContentUpdate(f[s \ {Max(s)}], evs[Max(s)])]
<1>1. ContentUpdates(g, evs) = iter[N]
  BY DEF ContentUpdates, FoldLeft, MapThenFoldSet
<1>2. ASSUME NEW s \in (SUBSET N) \ {{}} PROVE Max(s) \in s /\ c[s] = Max(s)
  <2>1. IsFiniteSet(s)
    BY FS_Subset DEF Log
  <2>2. Numbers(s)
    BY DEF Log, Numbers
  <2> QED BY <2>1, <2>2, MaxMember
<1>3. \A d \in A : \A i \in N : ContentUpdate(d, evs[i]) \in A
  <2> SUFFICES ASSUME NEW d \in A, NEW i \in N PROVE ContentUpdate(d, evs[i]) \in A
    OBVIOUS
  <2>1. evs[i] \in Event
    BY DEF Log
  <2> QED BY <2>1, EventTypes
<1>4. F \in [N \X A -> A]
  <2> HIDE DEF A
  <2> QED BY <1>3
<1>5. PICK k \in [SUBSET N -> A] :
        k = [s \in SUBSET N |-> IF s = {} THEN g ELSE F[<<c[s], k[s \ {c[s]}]>>]]
  <2>1. Recursive(N, A, g, F, c)
    <3>1. IsFiniteSet(N) /\ g \in A
      BY DEF Log
    <3> HIDE DEF F, c, A
    <3> QED BY <1>2, <1>4, <3>1 DEF Recursive
  <2> HIDE DEF F, c, A
  <2>2. Solvable(N, A, g, F, c)
    BY <2>1, SetRecursion
  <2> QED BY <2>2 DEF Solvable
<1> HIDE DEF A
<1>7. k = [s \in SUBSET N |-> IF s = {} THEN g ELSE ContentUpdate(k[s \ {Max(s)}], evs[Max(s)])]
  <2>1. ASSUME NEW s \in SUBSET N, s # {}
        PROVE  F[<<c[s], k[s \ {c[s]}]>>] = ContentUpdate(k[s \ {Max(s)}], evs[Max(s)])
    <3>1. Max(s) \in N /\ c[s] = Max(s) /\ k[s \ {Max(s)}] \in A
      BY <1>2, <2>1
    <3> HIDE DEF c
    <3> QED BY <3>1
  <2> HIDE DEF F, c
  <2>2. \A s \in SUBSET N : k[s] = IF s = {} THEN g ELSE ContentUpdate(k[s \ {Max(s)}], evs[Max(s)])
    BY <1>5, <2>1
  <2> QED BY <2>2
<1>8. iter = [s \in SUBSET N |-> IF s = {} THEN g ELSE ContentUpdate(iter[s \ {Max(s)}], evs[Max(s)])]
  BY <1>7
<1> HIDE DEF iter
<1> DEFINE Good(s) == iter[s] \in A /\ <<s, iter[s]>> \in K
           B == {s \in SUBSET N : ~ Good(s)}
<1>9. ASSUME B # {} PROVE FALSE
  <2>1. PICK s \in B : \A y \in B : y \subseteq s => y = s
    <3>1. B \in SUBSET SUBSET N /\ IsFiniteSet(N)
      BY DEF Log
    <3> HIDE DEF B
    <3> QED BY <1>9, <3>1, SmallestSubset
  <2>2. Good({})
    BY <1>8 DEF A
  <2>3. s \in SUBSET N /\ s # {}
    BY <2>1, <2>2
  <2>4. Max(s) \in s /\ iter[s] = ContentUpdate(iter[s \ {Max(s)}], evs[Max(s)])
    BY <1>2, <1>8, <2>3
  <2>5. s \ {Max(s)} \notin B
    BY <2>1, <2>4
  <2>6. Good(s \ {Max(s)})
    BY <2>3, <2>5
  <2>7. iter[s] \in A
    BY <1>3, <2>3, <2>4, <2>6
  <2>8. <<s, iter[s]>> \in K
    BY <2>3, <2>4, <2>6 DEF A
  <2> QED BY <2>1, <2>7, <2>8
<1>10. Good(N)
  BY <1>9
<1> QED BY <1>1, <1>10 DEF A
-----------------------------------------------------------------------------
(***************************************************************************)
(* What the events of an update make of the rules Q.                       *)
(***************************************************************************)
RuleOf(ev) == <<ev.target, ev.rule>>
Inserted(evs, s) == {RuleOf(evs[i]) : i \in {j \in s : evs[j].insert}}
Deleted(evs, s) == {RuleOf(evs[i]) : i \in {j \in s : ~ evs[j].insert}}
After(Q, evs, s) == (Q \cup Inserted(evs, s)) \ Deleted(evs, s)

\* Every event changes something, and no two are about the same rule.
Effective(Q, evs) ==
  /\ Log(evs)
  /\ \A i \in DOMAIN evs : evs[i].insert <=> RuleOf(evs[i]) \notin Q
  /\ \A i, j \in DOMAIN evs : RuleOf(evs[i]) = RuleOf(evs[j]) => i = j

\* The events are about one policy.
OneTarget(evs) == \A i, j \in DOMAIN evs : evs[i].target = evs[j].target

\* The rules of all theories, with their policies.
Pairs(R) == {q \in Pair : q[2] \in R[q[1]]}

OneMore(Q, evs, s, i) ==
  /\ After(Q, evs, s \ {i}) \in SUBSET Pair
  /\ RuleOf(evs[i]) \in Pair
  /\ evs[i].insert => /\ RuleOf(evs[i]) \notin After(Q, evs, s \ {i})
                      /\ After(Q, evs, s) = After(Q, evs, s \ {i}) \cup {RuleOf(evs[i])}
  /\ ~ evs[i].insert => /\ RuleOf(evs[i]) \in After(Q, evs, s \ {i})
                        /\ After(Q, evs, s) = After(Q, evs, s \ {i}) \ {RuleOf(evs[i])}

\* What one event more makes of the rules.
LEMMA AfterOneMore ==
  ASSUME NEW Q \in SUBSET Pair, NEW evs, Effective(Q, evs),
         NEW s \in SUBSET DOMAIN evs, NEW i \in s
  PROVE  OneMore(Q, evs, s, i)
<1> DEFINE q(j) == RuleOf(evs[j])
           ins(j) == evs[j].insert
           I(u) == {q(j) : j \in {k \in u : ins(k)}}
           D(u) == {q(j) : j \in {k \in u : ~ ins(k)}}
<1>1. \A u : After(Q, evs, u) = (Q \cup I(u)) \ D(u)
  BY DEF After, Inserted, Deleted
<1>2. \A j \in DOMAIN evs : q(j) \in Pair /\ (ins(j) <=> q(j) \notin Q)
  <2> SUFFICES ASSUME NEW j \in DOMAIN evs PROVE q(j) \in Pair /\ (ins(j) <=> q(j) \notin Q)
    OBVIOUS
  <2>1. evs[j] \in Event
    BY DEF Effective, Log
  <2> QED BY <2>1 DEF Effective, RuleOf, Event, Pair
<1>3. \A j, k \in DOMAIN evs : q(j) = q(k) => j = k
  BY DEF Effective
<1> HIDE DEF q, ins
<1>4. After(Q, evs, s \ {i}) \in SUBSET Pair
  BY <1>1, <1>2
<1>5. ASSUME ins(i)
      PROVE  /\ q(i) \notin After(Q, evs, s \ {i})
             /\ After(Q, evs, s) = After(Q, evs, s \ {i}) \cup {q(i)}
  <2>1. q(i) \notin Q /\ q(i) \notin I(s \ {i}) /\ q(i) \notin D(s)
    BY <1>2, <1>3, <1>5
  <2>2. I(s) = I(s \ {i}) \cup {q(i)} /\ D(s) = D(s \ {i})
    BY <1>5
  <2> HIDE DEF I, D
  <2> QED BY <1>1, <2>1, <2>2
<1>6. ASSUME ~ ins(i)
      PROVE  /\ q(i) \in After(Q, evs, s \ {i})
             /\ After(Q, evs, s) = After(Q, evs, s \ {i}) \ {q(i)}
  <2>1. q(i) \in Q /\ q(i) \notin D(s \ {i})
    BY <1>2, <1>3, <1>6
  <2>2. D(s) = D(s \ {i}) \cup {q(i)} /\ I(s) = I(s \ {i})
    BY <1>6
  <2> HIDE DEF I, D
  <2> QED BY <1>1, <2>1, <2>2
<1> QED BY <1>2, <1>4, <1>5, <1>6 DEF q, ins, OneMore

\* Without events the rules are as before.
LEMMA AfterNone == \A Q, evs : After(Q, evs, {}) = Q
BY DEF After, Inserted, Deleted

\* The graph counts the rules after the update, and what it knows of cycles is right.
LEMMA GraphUpdateExact ==
  ASSUME NEW g \in Graph, NEW Q \in SUBSET Pair, Exact(g, Q), CacheSound(g),
         NEW evs, Effective(Q, evs)
  PROVE  /\ GraphUpdate(g, evs) \in Graph /\ CacheSound(GraphUpdate(g, evs))
         /\ Exact(GraphUpdate(g, evs), After(Q, evs, DOMAIN evs))
<1> DEFINE K == {sd \in (SUBSET DOMAIN evs) \X Graph :
                   Exact(sd[2], After(Q, evs, sd[1])) /\ CacheSound(sd[2])}
<1>1. <<{}, g>> \in K
  BY AfterNone
<1>2. ASSUME NEW s \in SUBSET DOMAIN evs, NEW i \in s, NEW d \in Graph, <<s \ {i}, d>> \in K
      PROVE  <<s, FormulaUpdate(d, evs[i])>> \in K
  <2> DEFINE q == RuleOf(evs[i])
             P == After(Q, evs, s \ {i})
             f == FormulaUpdate(d, evs[i])
  <2>1. Exact(d, P) /\ CacheSound(d)
    BY <1>2
  <2>2. /\ P \in SUBSET Pair /\ q \in Pair
        /\ evs[i].insert => q \notin P /\ After(Q, evs, s) = P \cup {q}
        /\ ~ evs[i].insert => q \in P /\ After(Q, evs, s) = P \ {q}
    <3>1. OneMore(Q, evs, s, i)
      <4> HIDE DEF K, q, P, f
      <4> QED BY AfterOneMore
    <3> QED BY <3>1 DEF OneMore
  <2>3. q[1] = evs[i].target /\ q[2] = evs[i].rule
    BY DEF RuleOf
  <2>4. f = IF evs[i].insert THEN FormulaInsert(d, q[1], q[2]) ELSE FormulaDelete(d, q[1], q[2])
    BY <2>3 DEF FormulaUpdate
  <2> HIDE DEF q, P, f
  <2>5. f \in Graph /\ CacheKept(f, d) /\ Exact(f, After(Q, evs, s))
    <3>1. CASE evs[i].insert
      BY <2>1, <2>2, <2>4, <3>1, InsertExact
    <3>2. CASE ~ evs[i].insert
      BY <2>1, <2>2, <2>4, <3>2, DeleteExact
    <3> QED BY <3>1, <3>2
  <2>6. CacheSound(f)
    BY <2>1, <2>5, CacheStays
  <2>7. <<s, f>> \in K
    BY <2>5, <2>6
  <2> QED BY <2>7 DEF f
<1> HIDE DEF K
<1>3. Log(evs)
  BY DEF Effective
<1>4. GraphUpdate(g, evs) \in Graph /\ <<DOMAIN evs, GraphUpdate(g, evs)>> \in K
  BY <1>1, <1>2, <1>3, GraphUpdateInduction
<1> QED BY <1>4 DEF K

\* Undoing the events returns to the rules of before.
LEMMA UndoChangesExact ==
  ASSUME NEW g \in Graph, NEW Q \in SUBSET Pair, NEW evs, Effective(Q, evs),
         Exact(g, After(Q, evs, DOMAIN evs))
  PROVE  UndoChanges(g, evs) \in Graph /\ Exact(UndoChanges(g, evs), Q)
<1> DEFINE K == {sd \in (SUBSET DOMAIN evs) \X Graph :
                   Exact(sd[2], After(Q, evs, DOMAIN evs \ sd[1]))}
<1>1. <<{}, g>> \in K
  <2>1. DOMAIN evs \ {} = DOMAIN evs
    OBVIOUS
  <2> QED BY <2>1
<1>2. ASSUME NEW s \in SUBSET DOMAIN evs, NEW i \in s, NEW d \in Graph, <<s \ {i}, d>> \in K
      PROVE  <<s, FormulaUndo(d, evs[i])>> \in K
  <2> DEFINE q == RuleOf(evs[i])
             u == DOMAIN evs \ (s \ {i})
             P == After(Q, evs, DOMAIN evs \ s)
             f == FormulaUndo(d, evs[i])
  <2>1. Exact(d, After(Q, evs, u))
    BY <1>2
  <2>2. u \in SUBSET DOMAIN evs /\ i \in u /\ u \ {i} = DOMAIN evs \ s
    OBVIOUS
  <2>3. q[1] = evs[i].target /\ q[2] = evs[i].rule
    BY DEF RuleOf
  <2>4. f = IF evs[i].insert THEN FormulaDelete(d, q[1], q[2]) ELSE FormulaInsert(d, q[1], q[2])
    BY <2>3 DEF FormulaUndo
  <2> HIDE DEF u, f
  <2>5. /\ P \in SUBSET Pair /\ q \in Pair
        /\ evs[i].insert => q \notin P /\ After(Q, evs, u) = P \cup {q}
        /\ ~ evs[i].insert => q \in P /\ After(Q, evs, u) = P \ {q}
    <3>1. OneMore(Q, evs, u, i)
      <4> HIDE DEF K, q, P
      <4> QED BY <2>2, AfterOneMore
    <3> QED BY <2>2, <3>1 DEF OneMore
  <2> HIDE DEF q, P
  <2>6. f \in Graph /\ Exact(f, P)
    <3>1. CASE evs[i].insert
      <4>1. P \cup {q} \in SUBSET Pair /\ q \in P \cup {q} /\ (P \cup {q}) \ {q} = P
        BY <2>5, <3>1
      <4>2. Exact(d, P \cup {q})
        BY <2>1, <2>5, <3>1
      <4> QED BY <2>4, <3>1, <4>1, <4>2, DeleteExact
    <3>2. CASE ~ evs[i].insert
      <4>1. P \ {q} \in SUBSET Pair /\ q \notin P \ {q} /\ (P \ {q}) \cup {q} = P
        BY <2>5, <3>2
      <4>2. Exact(d, P \ {q})
        BY <2>1, <2>5, <3>2
      <4> QED BY <2>4, <2>5, <3>2, <4>1, <4>2, InsertExact
    <3> QED BY <3>1, <3>2
  <2>7. <<s, f>> \in K
    BY <2>6 DEF P
  <2> QED BY <2>7 DEF f
<1> HIDE DEF K
<1>3. Log(evs)
  BY DEF Effective
<1>4. UndoChanges(g, evs) \in Graph /\ <<DOMAIN evs, UndoChanges(g, evs)>> \in K
  BY <1>1, <1>2, <1>3, UndoChangesInduction
<1>5. DOMAIN evs \ DOMAIN evs = {}
  OBVIOUS
<1> QED BY <1>4, <1>5, AfterNone DEF K

\* The theories have rules after the update, fewer if nothing is inserted.
LEMMA TheoryUpdateType ==
  ASSUME NEW R \in [Policy -> SUBSET Rule], NEW evs, Log(evs)
  PROVE  /\ TheoryUpdate(R, evs) \in [Policy -> SUBSET Rule]
         /\ (\A i \in DOMAIN evs : ~ evs[i].insert) =>
              \A p \in Policy : TheoryUpdate(R, evs)[p] \subseteq R[p]
<1>1. ASSUME NEW p \in Policy
      PROVE  /\ ContentUpdates(R[p], evs) \in SUBSET Rule
             /\ (\A i \in DOMAIN evs : ~ evs[i].insert) => ContentUpdates(R[p], evs) \subseteq R[p]
  <2> DEFINE c == R[p]
             K == {sd \in (SUBSET DOMAIN evs) \X (SUBSET Rule) :
                     (\A i \in DOMAIN evs : ~ evs[i].insert) => sd[2] \subseteq c}
  <2>1. c \in SUBSET Rule
    OBVIOUS
  <2> HIDE DEF c
  <2>2. <<{}, c>> \in K
    BY <2>1
  <2>3. ASSUME NEW s \in SUBSET DOMAIN evs, NEW i \in s, NEW d \in SUBSET Rule, <<s \ {i}, d>> \in K
        PROVE  <<s, ContentUpdate(d, evs[i])>> \in K
    <3>1. evs[i] \in Event
      BY DEF Log
    <3>2. ContentUpdate(d, evs[i]) \in SUBSET Rule
      BY <3>1, EventTypes
    <3>3. ~ evs[i].insert => ContentUpdate(d, evs[i]) \subseteq d
      BY DEF ContentUpdate
    <3> QED BY <2>3, <3>2, <3>3
  <2> HIDE DEF K
  <2>4. ContentUpdates(c, evs) \in SUBSET Rule /\ <<DOMAIN evs, ContentUpdates(c, evs)>> \in K
    BY <2>1, <2>2, <2>3, ContentUpdatesInduction
  <2> QED BY <2>4 DEF K, c
<1> QED BY <1>1 DEF TheoryUpdate

\* The theories have the rules after the update, if the events are about one policy.
LEMMA TheoryUpdateExact ==
  ASSUME NEW R \in [Policy -> SUBSET Rule], NEW evs, Effective(Pairs(R), evs), OneTarget(evs)
  PROVE  Pairs(TheoryUpdate(R, evs)) = After(Pairs(R), evs, DOMAIN evs)
<1> DEFINE Q == Pairs(R)
           S == After(Q, evs, DOMAIN evs)
<1>1. Q \in SUBSET Pair /\ Log(evs)
  BY DEF Pairs, Effective
<1>2. TheoryUpdate(R, evs) \in [Policy -> SUBSET Rule]
  BY <1>1, TheoryUpdateType
<1>3. S \in SUBSET Pair
  <2>1. \A i \in DOMAIN evs : RuleOf(evs[i]) \in Pair
    <3> SUFFICES ASSUME NEW i \in DOMAIN evs PROVE RuleOf(evs[i]) \in Pair
      OBVIOUS
    <3>1. evs[i] \in Event
      BY <1>1 DEF Log
    <3> QED BY <3>1 DEF RuleOf, Event, Pair
  <2> QED BY <1>1, <2>1 DEF After, Inserted
<1> HIDE DEF Q
<1>4. ASSUME NEW p \in Policy, NEW r \in Rule
      PROVE  r \in TheoryUpdate(R, evs)[p] <=> <<p, r>> \in S
  <2>1. <<p, r>> \in Q <=> r \in R[p]
    BY DEF Q, Pairs, Pair
  <2>2. CASE \E i \in DOMAIN evs : evs[i].target = p
    <3>1. \A i \in DOMAIN evs : evs[i].target = p
      BY <2>2 DEF OneTarget
    <3> DEFINE c == R[p]
               Of(s) == {x \in Rule : <<p, x>> \in After(Q, evs, s)}
               K == {sd \in (SUBSET DOMAIN evs) \X (SUBSET Rule) : sd[2] = Of(sd[1])}
    <3>2. c \in SUBSET Rule /\ c = Of({})
      BY AfterNone DEF Q, Pairs, Pair
    <3> HIDE DEF c
    <3>3. <<{}, c>> \in K
      BY <3>2
    <3>4. ASSUME NEW s \in SUBSET DOMAIN evs, NEW i \in s, NEW d \in SUBSET Rule, <<s \ {i}, d>> \in K
          PROVE  <<s, ContentUpdate(d, evs[i])>> \in K
      <4>1. /\ evs[i].insert => After(Q, evs, s) = After(Q, evs, s \ {i}) \cup {RuleOf(evs[i])}
            /\ ~ evs[i].insert => After(Q, evs, s) = After(Q, evs, s \ {i}) \ {RuleOf(evs[i])}
        <5>1. Effective(Q, evs)
          BY DEF Q
        <5>2. OneMore(Q, evs, s, i)
          <6> HIDE DEF K, Of, S
          <6> QED BY <1>1, <5>1, AfterOneMore
        <5> QED BY <5>2 DEF OneMore
      <4>2. \A x \in Rule : <<p, x>> = RuleOf(evs[i]) <=> x = evs[i].rule
        BY <3>1 DEF RuleOf
      <4>3. evs[i] \in Event
        BY <1>1 DEF Log
      <4>4. evs[i].rule \in Rule
        BY <4>3 DEF Event
      <4>5. d = Of(s \ {i})
        BY <3>4
      <4>6. ContentUpdate(d, evs[i]) = Of(s)
        BY <4>1, <4>2, <4>4, <4>5 DEF ContentUpdate
      <4> QED BY <4>6
    <3> HIDE DEF K
    <3>5. ContentUpdates(c, evs) \in SUBSET Rule /\ <<DOMAIN evs, ContentUpdates(c, evs)>> \in K
      BY <1>1, <3>2, <3>3, <3>4, ContentUpdatesInduction
    <3>6. ContentUpdates(R[p], evs) = Of(DOMAIN evs)
      BY <3>5 DEF K, c
    <3> QED BY <2>2, <3>6 DEF TheoryUpdate
  <2>3. CASE ~ \E i \in DOMAIN evs : evs[i].target = p
    <3>1. TheoryUpdate(R, evs)[p] = R[p]
      BY <2>3 DEF TheoryUpdate
    <3>2. \A i \in DOMAIN evs : RuleOf(evs[i]) # <<p, r>>
      BY <2>3 DEF RuleOf
    <3>3. <<p, r>> \in S <=> <<p, r>> \in Q
      BY <3>2 DEF After, Inserted, Deleted
    <3> QED BY <2>1, <3>1, <3>3
  <2> QED BY <2>2, <2>3
<1> HIDE DEF S
<1>5. ASSUME NEW q \in Pair PROVE q \in Pairs(TheoryUpdate(R, evs)) <=> q \in S
  <2>1. PICK p \in Policy, r \in Rule : q = <<p, r>>
    BY DEF Pair
  <2> QED BY <1>4, <2>1 DEF Pairs
<1>6. Pairs(TheoryUpdate(R, evs)) \in SUBSET Pair
  BY DEF Pairs
<1>7. Pairs(TheoryUpdate(R, evs)) = S
  BY <1>3, <1>5, <1>6
<1> QED BY <1>7 DEF S, Q
-----------------------------------------------------------------------------
(***************************************************************************)
(* The graph along a behaviour.                                            *)
(***************************************************************************)
\* The events of a batch are about one policy, and none is there twice.
DistinctBatches ==
  \A evs \in Batch : OneTarget(evs) /\ \A i, j \in DOMAIN evs : evs[i] = evs[j] => i = j

\* The graph g counts the rules R, which are free of recursion.
Agree(g, R) ==
  /\ g \in Graph /\ R \in [Policy -> SUBSET Rule]
  /\ Exact(g, Pairs(R)) /\ ~ Cyclic(LiveEdges(g))
GraphInv == Agree(graph, rules) /\ dropped \in Nat

\* Graphs that differ only in what is known of cycles.
SameCounts(f, g) == f \in Graph /\ f.nodes = g.nodes /\ f.edges = g.edges /\ f.modals = g.modals

\* Such graphs count the same rules.
LEMMA SameExact ==
  ASSUME NEW g \in Graph, NEW f, SameCounts(f, g)
  PROVE  LiveEdges(f) = LiveEdges(g) /\ \A Q : Exact(g, Q) => Exact(f, Q)
BY DEF SameCounts, LiveEdges, Exact

\* Searching for cycles changes only what is known of them; a search that finds
\* none is right.
LEMMA SearchedEffect ==
  ASSUME NEW g \in Graph
  PROVE  /\ SameCounts(Searched(g), g)
         /\ CacheSound(g) /\ ~ HasCycle(Searched(g)) => ~ Cyclic(LiveEdges(g))
<1>1. CASE g.cycles # "unknown"
  <2>1. Searched(g) = g
    BY <1>1 DEF Searched
  <2>2. HasCycle(g) <=> g.cycles = "some"
    BY <1>1 DEF HasCycle, Searched
  <2>3. g.cycles \in {"none", "some"}
    BY <1>1 DEF Graph
  <2> QED BY <2>1, <2>2, <2>3 DEF SameCounts, CacheSound
<1>2. CASE g.cycles = "unknown"
  <2> DEFINE v == IF Cyclic(LiveEdges(g)) THEN "some" ELSE "none"
             f == Searched(g)
  <2>1. f = [g EXCEPT !.cycles = v]
    BY <1>2 DEF Searched
  <2>2. v \in {"some", "none"} /\ (v = "some" <=> Cyclic(LiveEdges(g)))
    OBVIOUS
  <2> HIDE DEF v, f
  <2>3. SameCounts(f, g) /\ f.cycles = v
    BY <2>1, <2>2 DEF Graph, SameCounts
  <2>4. HasCycle(f) <=> v = "some"
    BY <2>2, <2>3 DEF HasCycle, Searched
  <2> QED BY <2>2, <2>3, <2>4 DEF f
<1> QED BY <1>1, <1>2

\* So does a query about dependencies.
LEMMA AfterDependenciesEffect ==
  ASSUME NEW g \in Graph, NEW ts
  PROVE  SameCounts(AfterDependencies(g, ts), g)
BY DEF AfterDependencies, SameCounts, Graph

\* The events that _actual_events leaves all change something.
LEMMA ActualEffective ==
  ASSUME rules \in [Policy -> SUBSET Rule], NEW evs, Log(evs), OneTarget(evs),
         \A i, j \in DOMAIN evs : evs[i] = evs[j] => i = j
  PROVE  Effective(Pairs(rules), ActualEvents(evs)) /\ OneTarget(ActualEvents(evs))
<1> DEFINE S == {i \in DOMAIN evs : evs[i].insert = (evs[i].rule \notin rules[evs[i].target])}
           act == ActualEvents(evs)
<1>1. DOMAIN act = S /\ \A i \in S : act[i] = evs[i]
  BY DEF ActualEvents, Restrict
<1>2. \A i \in S : evs[i] \in Event
  BY DEF Log
<1>3. ASSUME NEW i \in S
      PROVE  /\ act[i] \in Event
             /\ act[i].insert <=> RuleOf(act[i]) \notin Pairs(rules)
  <2>1. /\ evs[i].insert \in BOOLEAN /\ evs[i].target \in Policy /\ evs[i].rule \in Rule
        /\ act[i] = evs[i]
    BY <1>1, <1>2 DEF Event
  <2>2. RuleOf(evs[i]) \in Pairs(rules) <=> evs[i].rule \in rules[evs[i].target]
    BY <2>1 DEF RuleOf, Pairs, Pair
  <2> QED BY <1>2, <2>1, <2>2
<1>4. ASSUME NEW i \in S, NEW j \in S, RuleOf(act[i]) = RuleOf(act[j]) PROVE i = j
  <2>1. evs[i].target = evs[j].target /\ evs[i].rule = evs[j].rule
    BY <1>1, <1>4 DEF RuleOf
  <2>2. evs[i].insert = evs[j].insert
    BY <2>1
  <2>3. evs[i] = evs[j]
    BY <1>2, <2>1, <2>2 DEF Event
  <2> QED BY <2>3
<1>5. IsFiniteSet(S) /\ S \subseteq Nat
  <2>1. S \in SUBSET DOMAIN evs /\ IsFiniteSet(DOMAIN evs) /\ DOMAIN evs \subseteq Nat
    BY DEF Log
  <2> HIDE DEF S
  <2> QED BY <2>1, FS_Subset
<1>6. OneTarget(act)
  BY <1>1 DEF OneTarget
<1> HIDE DEF S, act
<1>7. Effective(Pairs(rules), act)
  BY <1>1, <1>3, <1>4, <1>5 DEF Effective, Log
<1> QED BY <1>6, <1>7 DEF act

\* An update keeps graph and rules in agreement, refused or not.
LEMMA UpdateAgrees ==
  ASSUME GraphInv, NEW t, NEW evs, NEW j, Log(evs), OneTarget(evs),
         \A i, k \in DOMAIN evs : evs[i] = evs[k] => i = k,
         Update(t, evs, j)
  PROVE  GraphInv'
<1> DEFINE act == ActualEvents(evs)
           G == GraphUpdate(graph, act)
           g == Searched(G)
           Q == Pairs(rules)
           A == After(Q, act, DOMAIN act)
<1>1. rules \in [Policy -> SUBSET Rule] /\ graph \in Graph /\ Exact(graph, Q) /\ CacheSound(graph)
  BY DEF GraphInv, Agree, CacheSound
<1>2. Q \in SUBSET Pair
  BY DEF Pairs
<1>3. Effective(Q, act) /\ OneTarget(act)
  BY <1>1, ActualEffective
<1>4. \/ HasCycle(g) /\ RefuseUpdate(UndoChanges(g, act), act)
      \/ /\ ~ HasCycle(g)
         /\ ApplyUpdate(t, g, {HeadTable(act[i].target, act[i].rule) : i \in DOMAIN act},
                        TheoryUpdate(rules, act), facts, j)
  BY DEF Update
<1> HIDE DEF act, Q
<1>5. G \in Graph /\ CacheSound(G) /\ Exact(G, A)
  BY <1>1, <1>2, <1>3, GraphUpdateExact
<1> HIDE DEF G
<1>6. SameCounts(g, G) /\ (~ HasCycle(g) => ~ Cyclic(LiveEdges(G)))
  BY <1>5, SearchedEffect
<1> HIDE DEF g
<1>7. g \in Graph /\ Exact(g, A) /\ LiveEdges(g) = LiveEdges(G)
  <2>1. g \in Graph
    BY <1>6 DEF SameCounts
  <2> QED BY <1>5, <1>6, <2>1, SameExact
<1>8. CASE HasCycle(g) /\ RefuseUpdate(UndoChanges(g, act), act)
  <2> DEFINE u == UndoChanges(g, act)
  <2>1. graph' = u /\ rules' = rules /\ dropped' = dropped
    BY <1>8 DEF RefuseUpdate
  <2>2. u \in Graph /\ Exact(u, Q)
    BY <1>2, <1>3, <1>7, UndoChangesExact
  <2> HIDE DEF u
  <2>3. LiveEdges(u) = LiveEdges(graph)
    BY <1>1, <2>2 DEF Exact, LiveEdges
  <2> QED BY <2>1, <2>2, <2>3 DEF GraphInv, Agree, Q
<1>9. CASE /\ ~ HasCycle(g)
           /\ ApplyUpdate(t, g, {HeadTable(act[i].target, act[i].rule) : i \in DOMAIN act},
                          TheoryUpdate(rules, act), facts, j)
  <2> DEFINE R == TheoryUpdate(rules, act)
  <2>1. PICK ts : graph' = AfterDependencies(g, ts) /\ rules' = R /\ dropped' = dropped
    BY <1>9 DEF ApplyUpdate
  <2>2. R \in [Policy -> SUBSET Rule]
    BY <1>1, <1>3, TheoryUpdateType DEF Effective
  <2>3. Pairs(R) = A
    BY <1>1, <1>3, TheoryUpdateExact DEF Q
  <2> HIDE DEF R, A
  <2>4. SameCounts(graph', g)
    BY <1>7, <2>1, AfterDependenciesEffect
  <2>5. graph' \in Graph /\ Exact(graph', A) /\ LiveEdges(graph') = LiveEdges(g)
    <3>1. graph' \in Graph
      BY <2>4 DEF SameCounts
    <3> QED BY <1>7, <2>4, <3>1, SameExact
  <2> QED BY <1>6, <1>7, <1>9, <2>1, <2>2, <2>3, <2>5 DEF GraphInv, Agree
<1> QED BY <1>4, <1>8, <1>9

\* A single event, and those of delete_policy, are distinct and about one policy.
LEMMA EventLists ==
  ASSUME NEW p \in Policy
  PROVE  /\ \A b \in BOOLEAN, r \in Rule :
              LET evs == <<[insert |-> b, target |-> p, rule |-> r]>>
              IN  Log(evs) /\ DOMAIN evs = {1} /\ evs[1].insert = b
         /\ \A S \in SUBSET Rule :
              LET evs == [i \in 1 .. Cardinality(S) |->
                            [insert |-> FALSE, target |-> p, rule |-> SetToSeq(S)[i]]]
              IN  /\ Log(evs) /\ OneTarget(evs) /\ \A i \in DOMAIN evs : ~ evs[i].insert
                  /\ \A i, j \in DOMAIN evs : evs[i] = evs[j] => i = j
<1>1. ASSUME NEW b \in BOOLEAN, NEW r \in Rule
      PROVE  LET evs == <<[insert |-> b, target |-> p, rule |-> r]>>
             IN  Log(evs) /\ DOMAIN evs = {1} /\ evs[1].insert = b
  <2> DEFINE ev == [insert |-> b, target |-> p, rule |-> r]
             evs == <<ev>>
  <2>1. ev \in Event /\ ev.insert = b
    BY DEF Event
  <2> HIDE DEF ev
  <2>2. DOMAIN evs = {1} /\ evs[1] = ev
    OBVIOUS
  <2>3. IsFiniteSet({1})
    BY FS_Singleton
  <2> HIDE DEF evs
  <2>4. Log(evs)
    BY <2>1, <2>2, <2>3 DEF Log
  <2> QED BY <2>1, <2>2, <2>4 DEF evs, ev
<1>2. ASSUME NEW S \in SUBSET Rule
      PROVE  LET evs == [i \in 1 .. Cardinality(S) |->
                           [insert |-> FALSE, target |-> p, rule |-> SetToSeq(S)[i]]]
             IN  /\ Log(evs) /\ OneTarget(evs) /\ \A i \in DOMAIN evs : ~ evs[i].insert
                 /\ \A i, j \in DOMAIN evs : evs[i] = evs[j] => i = j
  <2> DEFINE n == Cardinality(S)
             sq == SetToSeq(S)
             evs == [i \in 1 .. n |-> [insert |-> FALSE, target |-> p, rule |-> sq[i]]]
  <2>1. IsFiniteSet(S)
    BY FiniteNames, FS_Subset
  <2>2. n \in Nat /\ \E f \in [1 .. n -> S] : IsInjective(f)
    <3>1. n \in Nat /\ ExistsBijection(1 .. n, S)
      BY <2>1, FS_CardinalityType
    <3> HIDE DEF n
    <3> QED BY <3>1 DEF ExistsBijection, Bijection, Injection
  <2>3. sq \in [1 .. n -> S] /\ IsInjective(sq)
    <3>1. sq = CHOOSE f \in [1 .. n -> S] : IsInjective(f)
      BY DEF SetToSeq
    <3> HIDE DEF n, sq
    <3> QED BY <2>2, <3>1
  <2>4. IsFiniteSet(1 .. n)
    <3> HIDE DEF n
    <3>1. n \in Int
      BY <2>2
    <3> QED BY <3>1, FS_Interval
  <2> HIDE DEF n, sq
  <2>5. DOMAIN evs = 1 .. n
    OBVIOUS
  <2>6. ASSUME NEW i \in 1 .. n
        PROVE  evs[i] \in Event /\ evs[i].target = p /\ evs[i].rule = sq[i] /\ ~ evs[i].insert
    <3>1. sq[i] \in Rule
      BY <2>3
    <3> QED BY <3>1 DEF Event
  <2> HIDE DEF evs
  <2>7. Log(evs)
    <3>1. 1 .. n \subseteq Nat
      OBVIOUS
    <3> QED BY <2>4, <2>5, <2>6, <3>1 DEF Log
  <2>8. OneTarget(evs)
    BY <2>5, <2>6 DEF OneTarget
  <2>9. \A i, j \in DOMAIN evs : evs[i] = evs[j] => i = j
    BY <2>3, <2>5, <2>6 DEF IsInjective
  <2> QED BY <2>5, <2>6, <2>7, <2>8, <2>9 DEF evs, sq, n
<1> QED BY <1>1, <1>2

\* A batch is a list of events.
LEMMA BatchLog == \A evs \in Batch : Log(evs)
<1> SUFFICES ASSUME NEW evs \in Batch PROVE Log(evs)
  OBVIOUS
<1>1. evs \in Seq(Event)
  BY BatchShape
<1>2. Len(evs) \in Nat /\ DOMAIN evs = 1 .. Len(evs) /\ \A i \in 1 .. Len(evs) : evs[i] \in Event
  BY <1>1
<1>3. IsFiniteSet(1 .. Len(evs)) /\ 1 .. Len(evs) \subseteq Nat
  <2> DEFINE n == Len(evs)
  <2>1. n \in Nat
    BY <1>2
  <2> HIDE DEF n
  <2>2. n \in Int /\ 1 .. n \subseteq Nat
    BY <2>1
  <2>3. IsFiniteSet(1 .. n)
    BY <2>2, FS_Interval
  <2> QED BY <2>2, <2>3 DEF n
<1> QED BY <1>2, <1>3 DEF Log

\* In the beginning the graph is empty and there are no rules.
LEMMA GraphInit == Init => GraphInv
<1> SUFFICES ASSUME Init PROVE GraphInv
  OBVIOUS
<1>1. rules \in [Policy -> SUBSET Rule] /\ Pairs(rules) = {} /\ dropped \in Nat
  BY DEF Init, Pairs, Pair
<1>2. graph \in Graph
  BY DEF Init, EmptyGraph, Graph
<1>3. ~ Cyclic(LiveEdges(graph))
  <2>1. LiveEdges(graph) = {}
    BY DEF Init, EmptyGraph, LiveEdges
  <2> QED BY <2>1 DEF Cyclic
<1>4. Exact(graph, {})
  <2>1. Cardinality({}) = 0
    BY FS_EmptySet
  <2>2. \A U : {} \cap U = {}
    OBVIOUS
  <2>3. \A w : Total({}, w) = 0
    <3>1. \A w : {qe \in {} \X Edge : qe[2] \in w[qe[1]]} = {}
      OBVIOUS
    <3> QED BY <2>1, <3>1 DEF Total
  <2>4. \A t : References({}, t) = 0
    BY <2>1, <2>2, <2>3 DEF References
  <2>5. /\ \A e \in Edge : graph.edges[e] = 0
        /\ \A v \in PolicyTable : graph.modals[v] = 0
        /\ \A t \in Table : graph.nodes[t] = 0
    BY DEF Init, EmptyGraph
  <2> QED BY <2>1, <2>2, <2>4, <2>5 DEF Exact
<1> QED BY <1>1, <1>2, <1>3, <1>4 DEF GraphInv, Agree

\* Every step keeps graph and rules in agreement.
LEMMA GraphStep ==
  ASSUME MaxDropped = 0, DistinctBatches, GraphInv, [Next]_vars
  PROVE  GraphInv'
<1> USE DEF GraphInv
<1>0. rules \in [Policy -> SUBSET Rule] /\ graph \in Graph
  BY DEF Agree
<1>1. ASSUME UNCHANGED <<graph, rules, dropped>> PROVE GraphInv'
  BY <1>1
<1>2. ASSUME NEW ts, graph' = AfterDependencies(graph, ts), UNCHANGED <<rules, dropped>>
      PROVE  GraphInv'
  <2>1. SameCounts(graph', graph)
    BY <1>0, <1>2, AfterDependenciesEffect
  <2>2. graph' \in Graph
    BY <2>1 DEF SameCounts
  <2> QED BY <1>0, <1>2, <2>1, <2>2, SameExact DEF Agree
<1>3. ASSUME NEW t \in Thread, NEW p \in Policy, NEW r \in Rule, InsertRule(t, p, r)
      PROVE  GraphInv'
  <2> DEFINE evs == <<[insert |-> TRUE, target |-> p, rule |-> r]>>
             j == [Idle EXCEPT !.step = "locked", !.old = BodyTables(rules)]
  <2>1. Update(t, evs, j)
    BY <1>3 DEF InsertRule, LockedUpdate
  <2>2. Log(evs) /\ DOMAIN evs = {1}
    BY EventLists, ZenonT(60)
  <2> HIDE DEF evs, j
  <2>3. OneTarget(evs) /\ \A i, k \in DOMAIN evs : evs[i] = evs[k] => i = k
    BY <2>2 DEF OneTarget
  <2> QED BY <2>1, <2>2, <2>3, UpdateAgrees
<1>4. ASSUME NEW t \in Thread, NEW p \in Policy, NEW r \in Rule, DeleteRule(t, p, r)
      PROVE  GraphInv'
  <2> DEFINE evs == <<[insert |-> FALSE, target |-> p, rule |-> r]>>
             j == [Idle EXCEPT !.step = "unlocked", !.old = BodyTables(rules)]
  <2>1. Update(t, evs, j)
    BY <1>4 DEF DeleteRule
  <2>2. Log(evs) /\ DOMAIN evs = {1}
    BY EventLists, ZenonT(60)
  <2> HIDE DEF evs, j
  <2>3. OneTarget(evs) /\ \A i, k \in DOMAIN evs : evs[i] = evs[k] => i = k
    BY <2>2 DEF OneTarget
  <2> QED BY <2>1, <2>2, <2>3, UpdateAgrees
<1>5. ASSUME NEW t \in Thread, NEW evs \in Batch, SynchronizeRules(t, evs)
      PROVE  GraphInv'
  <2> DEFINE j == [Idle EXCEPT !.step = "locked", !.old = BodyTables(rules)]
  <2>1. Update(t, evs, j)
    BY <1>5 DEF SynchronizeRules, LockedUpdate
  <2> HIDE DEF j
  <2>2. Log(evs) /\ OneTarget(evs) /\ \A i, k \in DOMAIN evs : evs[i] = evs[k] => i = k
    BY BatchLog DEF DistinctBatches
  <2> QED BY <2>1, <2>2, UpdateAgrees
<1>6. ASSUME NEW t \in Thread, NEW p \in Policy, DeletePolicy(t, p)
      PROVE  GraphInv'
  <2> DEFINE evs == [i \in 1 .. Cardinality(rules[p]) |->
                       [insert |-> FALSE, target |-> p, rule |-> SetToSeq(rules[p])[i]]]
             j == [Idle EXCEPT !.step = "policy", !.drop = {p}]
  <2>1. Update(t, evs, j)
    BY <1>6 DEF DeletePolicy
  <2>2. rules[p] \in SUBSET Rule
    BY <1>0
  <2>3. Log(evs) /\ OneTarget(evs) /\ \A i, k \in DOMAIN evs : evs[i] = evs[k] => i = k
    BY <2>2, EventLists
  <2> HIDE DEF evs, j
  <2> QED BY <2>1, <2>3, UpdateAgrees
<1>7. ASSUME NEW t \in Thread, NEW d \in DataTable, NEW rows \in SUBSET Row,
             ReceiveDataUpdate(t, d, rows)
      PROVE  GraphInv'
  <2> DEFINE g == Searched(graph)
  <2>1. SameCounts(g, graph)
    BY <1>0, SearchedEffect
  <2>2. \/ graph' = g /\ UNCHANGED <<rules, dropped>>
        \/ \E ts : graph' = AfterDependencies(g, ts) /\ UNCHANGED <<rules, dropped>>
    BY <1>7 DEF ReceiveDataUpdate, RefuseUpdate, ApplyUpdate
  <2> HIDE DEF g
  <2>3. g \in Graph
    BY <2>1 DEF SameCounts
  <2>4. SameCounts(graph', g)
    <3>1. CASE graph' = g
      BY <2>3, <3>1 DEF SameCounts
    <3>2. ASSUME NEW ts, graph' = AfterDependencies(g, ts) PROVE SameCounts(graph', g)
      BY <2>3, <3>2, AfterDependenciesEffect
    <3> QED BY <2>2, <3>1, <3>2
  <2>5. SameCounts(graph', graph) /\ graph' \in Graph /\ UNCHANGED <<rules, dropped>>
    BY <2>1, <2>2, <2>4 DEF SameCounts
  <2> QED BY <1>0, <2>5, SameExact DEF Agree
<1>8. ASSUME NEW t \in Thread, Finish(t)
      PROVE  GraphInv'
  <2>1. dropped' = dropped + (IF rules' = rules THEN 0 ELSE 1) /\ dropped' <= 0 /\ graph' = graph
    BY <1>8 DEF Finish
  <2>2. rules' = rules /\ dropped' = dropped
    BY <2>1
  <2> QED BY <1>1, <2>1, <2>2
<1>9. CASE UpdateTablesWithSubscriber
  <2>1. PICK ts : graph' = AfterDependencies(graph, ts) /\ UNCHANGED <<rules, dropped>>
    BY <1>9 DEF UpdateTablesWithSubscriber
  <2> QED BY <1>2, <2>1
<1>10. CASE \/ \E t \in Thread :
                 \/ \E d \in DataTable, rows \in SUBSET Row : ReceiveDataFull(t, d, rows)
                 \/ \E c \in job[t].calls : NextCallback(t, c)
                 \/ \E c \in job[t].calls : CallbackFails(t, c)
                 \/ UpdateTableSubscriptions(t)
                 \/ SubscribeReturns(t)
            \/ \E v \in Observed : PeerSubscribes(v)
            \/ \E v \in Observed : PeerUnsubscribes(v)
            \/ UNCHANGED vars
  <2>1. UNCHANGED <<graph, rules, dropped>>
    BY <1>10 DEF ReceiveDataFull, NextCallback, CallbackFails, UpdateTableSubscriptions,
                 SubscribeReturns, PeerSubscribes, PeerUnsubscribes, vars
  <2> QED BY <1>1, <2>1
<1> HIDE DEF GraphInv
<1> QED BY <1>3, <1>4, <1>5, <1>6, <1>7, <1>8, <1>9, <1>10 DEF Next

\* A count is positive if there is something to count.
LEMMA LiveCounts ==
  ASSUME NEW Q \in SUBSET Pair, NEW U \in SUBSET Pair
  PROVE  Cardinality(Q \cap U) \in Nat /\ (Cardinality(Q \cap U) > 0 <=> Q \cap U # {})
<1> DEFINE C == Q \cap U
<1>1. C \in SUBSET Pair
  OBVIOUS
<1> HIDE DEF C
<1>2. IsFiniteSet(C)
  BY <1>1, FiniteGraph, FS_Subset
<1>3. Cardinality(C) \in Nat /\ (Cardinality(C) = 0 <=> C = {})
  BY <1>2, FS_CardinalityType, FS_EmptySet
<1>4. Cardinality(C) > 0 <=> C # {}
  BY <1>3
<1> QED BY <1>3, <1>4 DEF C

\* A table is referred to exactly if it is a node of some rule.
LEMMA LiveReferences ==
  ASSUME NEW Q \in SUBSET Pair, NEW t \in Table
  PROVE  References(Q, t) > 0 <=> Cardinality(Q \cap NodeUsers(t)) > 0
<1> DEFINE n == Cardinality(Q \cap NodeUsers(t))
           A == {qe \in Q \X Edge : qe[2] \in StartsAt(t)[qe[1]]}
           B == {qe \in Q \X Edge : qe[2] \in EndsAt(t)[qe[1]]}
<1>1. References(Q, t) = n + Cardinality(A) + Cardinality(B)
  BY DEF References, Total
<1>2. NodeUsers(t) \in SUBSET Pair
  BY DEF NodeUsers
<1>3. n \in Nat /\ (n > 0 <=> Q \cap NodeUsers(t) # {})
  BY <1>2, LiveCounts
<1>4. ASSUME NEW q \in Q, NEW e \in EdgesOf(q), e[1] = t \/ e[2] = t PROVE q \in NodeUsers(t)
  <2>1. e[1] = HeadTable(q[1], q[2])
    BY DEF EdgesOf, FormulaEdges
  <2> QED BY <1>4, <2>1 DEF NodeUsers, NodesOf, FormulaNodes, EdgesOf
<1>5. Q \cap NodeUsers(t) = {} => A = {} /\ B = {}
  <2>1. \A q \in Q : StartsAt(t)[q] = {e \in EdgesOf(q) : e[1] = t}
    BY DEF StartsAt
  <2>2. \A q \in Q : EndsAt(t)[q] = {e \in EdgesOf(q) : e[2] = t}
    BY DEF EndsAt
  <2> QED BY <1>4, <2>1, <2>2
<1>6. A \in SUBSET (Pair \X Edge) /\ B \in SUBSET (Pair \X Edge)
  OBVIOUS
<1> HIDE DEF n, A, B
<1>7. Cardinality(A) \in Nat /\ Cardinality(B) \in Nat
  <2> DEFINE P == Pair \X Edge
  <2>1. IsFiniteSet(P)
    BY FiniteGraph, FS_Product
  <2>2. A \in SUBSET P /\ B \in SUBSET P
    BY <1>6
  <2> HIDE DEF P
  <2>3. IsFiniteSet(A) /\ IsFiniteSet(B)
    BY <2>1, <2>2, FS_Subset
  <2> QED BY <2>3, FS_CardinalityType
<1>8. CASE Q \cap NodeUsers(t) = {}
  <2>1. Cardinality(A) = 0 /\ Cardinality(B) = 0 /\ n = 0
    BY <1>3, <1>5, <1>8, FS_EmptySet
  <2>2. References(Q, t) = 0
    BY <1>1, <2>1
  <2> QED BY <2>1, <2>2 DEF n
<1>9. CASE Q \cap NodeUsers(t) # {}
  <2>1. n > 0 /\ References(Q, t) > 0
    BY <1>1, <1>3, <1>7, <1>9
  <2> QED BY <2>1 DEF n
<1> QED BY <1>8, <1>9

\* The edges of a graph that counts the rules R are the edges of these rules.
LEMMA LiveEdgesExact ==
  ASSUME NEW g, NEW R \in [Policy -> SUBSET Rule], Exact(g, Pairs(R))
  PROVE  LiveEdges(g) = RuleEdges(R)
<1> DEFINE Q == Pairs(R)
<1>0. Q \in SUBSET Pair
  BY DEF Pairs
<1>1. ASSUME NEW e \in Edge PROVE g.edges[e] > 0 <=> \E q \in Q : e \in EdgesOf(q)
  <2>1. EdgeUsers(e) \in SUBSET Pair
    BY DEF EdgeUsers
  <2>2. g.edges[e] = Cardinality(Q \cap EdgeUsers(e))
    BY DEF Exact
  <2>3. Q \cap EdgeUsers(e) # {} <=> \E q \in Q : e \in EdgesOf(q)
    BY <1>0 DEF EdgeUsers
  <2> HIDE DEF Q
  <2> QED BY <1>0, <2>1, <2>2, <2>3, LiveCounts
<1>2. ASSUME NEW e PROVE e \in RuleEdges(R) <=> \E q \in Q : e \in EdgesOf(q)
  <2>1. ASSUME NEW p \in Policy, NEW r \in R[p], e \in FormulaEdges(p, r)
        PROVE  \E q \in Q : e \in EdgesOf(q)
    <3>1. <<p, r>> \in Q /\ e \in EdgesOf(<<p, r>>)
      BY <2>1 DEF Pairs, Pair, EdgesOf
    <3> QED BY <3>1
  <2>2. ASSUME NEW q \in Q, e \in EdgesOf(q) PROVE e \in RuleEdges(R)
    <3>1. q[1] \in Policy /\ q[2] \in R[q[1]] /\ e \in FormulaEdges(q[1], q[2])
      BY <2>2 DEF Pairs, Pair, EdgesOf
    <3> QED BY <3>1 DEF RuleEdges
  <2> QED BY <2>1, <2>2 DEF RuleEdges
<1>3. \A q \in Q : EdgesOf(q) \in SUBSET Edge
  BY FormulaShape DEF EdgesOf, Pairs, Pair
<1> HIDE DEF Q
<1> QED BY <1>1, <1>2, <1>3 DEF LiveEdges

\* Graph and rules in agreement: the properties that the runs check.
LEMMA GraphInvImplies == GraphInv => GraphExact /\ RulesAcyclic
<1> SUFFICES ASSUME GraphInv PROVE GraphExact /\ RulesAcyclic
  OBVIOUS
<1> DEFINE Q == Pairs(rules)
<1>1. /\ rules \in [Policy -> SUBSET Rule] /\ graph \in Graph /\ Exact(graph, Q)
      /\ ~ Cyclic(LiveEdges(graph))
  BY DEF GraphInv, Agree
<1>2. Q \in SUBSET Pair
  BY DEF Pairs
<1>3. GraphExact
  <2>1. \A e : {pr \in Policy \X Rule : pr[2] \in rules[pr[1]] /\ e \in FormulaEdges(pr[1], pr[2])}
                 = Q \cap EdgeUsers(e)
    BY DEF Pairs, EdgeUsers, EdgesOf, Pair
  <2>2. \A v : {pr \in Policy \X Rule :
                  pr[2] \in rules[pr[1]] /\ pr[2].modal /\ HeadTable(pr[1], pr[2]) = v}
                 = Q \cap ModalUsers(v)
    BY DEF Pairs, ModalUsers, HeadOf, Pair
  <2>3. \A t : {pr \in Policy \X Rule : pr[2] \in rules[pr[1]] /\ t \in FormulaNodes(pr[1], pr[2])}
                 = Q \cap NodeUsers(t)
    BY DEF Pairs, NodeUsers, NodesOf, Pair
  <2> HIDE DEF Q
  <2>4. ASSUME NEW e \in Edge
        PROVE  graph.edges[e] = RulesWith(LAMBDA p, r : e \in FormulaEdges(p, r))
    BY <1>1, <2>1 DEF RulesWith, Exact
  <2>5. ASSUME NEW v \in PolicyTable
        PROVE  graph.modals[v] = RulesWith(LAMBDA p, r : r.modal /\ HeadTable(p, r) = v)
    BY <1>1, <2>2 DEF RulesWith, Exact
  <2>6. ASSUME NEW t \in Table
        PROVE  (graph.nodes[t] > 0) <=> (RulesWith(LAMBDA p, r : t \in FormulaNodes(p, r)) > 0)
    <3>1. RulesWith(LAMBDA p, r : t \in FormulaNodes(p, r)) = Cardinality(Q \cap NodeUsers(t))
      BY <2>3 DEF RulesWith
    <3>2. graph.nodes[t] = References(Q, t)
      BY <1>1 DEF Exact
    <3>3. References(Q, t) > 0 <=> Cardinality(Q \cap NodeUsers(t)) > 0
      BY <1>2, LiveReferences
    <3> QED BY <3>1, <3>2, <3>3
  <2> QED BY <2>4, <2>5, <2>6 DEF GraphExact
<1>4. LiveEdges(graph) = RuleEdges(rules)
  BY <1>1, LiveEdgesExact
<1> QED BY <1>1, <1>3, <1>4 DEF RulesAcyclic

\* The incrementally maintained dependency graph counts exactly the rules of the
\* theories (RuleDependencyGraph.formula_update and undo_changes over
\* utility.BagGraph), for any number of threads, policies and rules, provided that
\* the batches of synchronize_rules have no event twice and one policy each, and no
\* theory is dropped with rules that came during delete_policy.
THEOREM GraphCountsRules ==
  ASSUME MaxDropped = 0, DistinctBatches
  PROVE  Spec => []GraphExact
<1>1. Init => GraphInv
  BY GraphInit
<1>2. GraphInv /\ [Next]_vars => GraphInv'
  BY GraphStep
<1>3. GraphInv => GraphExact
  BY GraphInvImplies
<1> QED BY <1>1, <1>2, <1>3, PTL DEF Spec

\* Under the same conditions the engine never holds recursive rules
\* (Graph.has_cycle in Runtime._update_obj_datalog), although has_cycle trusts a
\* cached answer that edges, undone updates and queries about dependencies overwrite.
THEOREM NeverRecursive ==
  ASSUME MaxDropped = 0, DistinctBatches
  PROVE  Spec => []RulesAcyclic
<1>1. Init => GraphInv
  BY GraphInit
<1>2. GraphInv /\ [Next]_vars => GraphInv'
  BY GraphStep
<1>3. GraphInv => RulesAcyclic
  BY GraphInvImplies
<1> QED BY <1>1, <1>2, <1>3, PTL DEF Spec
-----------------------------------------------------------------------------
(***************************************************************************)
(* Subscriptions.                                                          *)
(***************************************************************************)
\* A job is a record with these fields.
Shaped(j) == j = [step |-> j.step, old |-> j.old, calls |-> j.calls,
                  add |-> j.add, rem |-> j.rem, drop |-> j.drop]

\* A thread with job j will still subscribe to d.
Covers(j, d) ==
  \/ j.step = "subscribing" /\ d \in j.add
  \/ j.step \in {"locked", "unlocked"} /\ d \notin j.old

\* Every table that the rules R mention is subscribed to, or some thread will.
Coverage(R, subs, jobs) ==
  \A d \in BodyTables(R) : d \in subs \/ \E t \in Thread : Covers(jobs[t], d)

\* No thread will give up a subscription that the rules R need.
Harmless(R, jobs) ==
  \A t \in Thread : jobs[t].step = "subscribing" => jobs[t].rem \cap BodyTables(R) = {}

\* Who waits in the loop of subscriptions, or inserted rules, holds the lock.
Locking(jobs, lock) == \A t \in Thread : jobs[t].step \in {"locked", "subscribing"} => lock = t

\* A thread that deleted rules has nothing to subscribe to.
NothingNew(R, jobs) ==
  \A t \in Thread : jobs[t].step = "unlocked" => BodyTables(R) \subseteq jobs[t].old

Orderly == ~aborted /\ overtakes = 0

SubInv ==
  /\ rules \in [Policy -> SUBSET Rule]
  /\ job = [t \in Thread |-> job[t]] /\ \A t \in Thread : Shaped(job[t])
  /\ overtakes \in Nat
  /\ Orderly => /\ Coverage(rules, subscribed, job) /\ Harmless(rules, job)
                /\ Locking(job, ruleLock) /\ NothingNew(rules, job)

\* In the beginning no rule mentions a table.
LEMMA SubInit == Init => SubInv
<1> SUFFICES ASSUME Init PROVE SubInv
  OBVIOUS
<1>1. rules \in [Policy -> SUBSET Rule] /\ BodyTables(rules) = {} /\ overtakes \in Nat
  BY DEF Init, BodyTables
<1>2. job = [t \in Thread |-> job[t]] /\ \A t \in Thread : job[t] = Idle
  BY DEF Init
<1>3. Shaped(Idle) /\ Idle.step = "idle"
  BY DEF Shaped, Idle
<1>4. Coverage(rules, subscribed, job) /\ Harmless(rules, job)
  BY <1>1, <1>2, <1>3 DEF Coverage, Harmless
<1>5. Locking(job, ruleLock) /\ NothingNew(rules, job)
  BY <1>2, <1>3 DEF Locking, NothingNew
<1> QED BY <1>1, <1>2, <1>3, <1>4, <1>5 DEF SubInv

\* One thread's job changes.
LEMMA JobOf ==
  ASSUME job = [o \in Thread |-> job[o]], NEW t \in Thread, NEW k, job' = [job EXCEPT ![t] = k]
  PROVE  /\ job' = [o \in Thread |-> job'[o]]
         /\ job'[t] = k /\ \A o \in Thread : o # t => job'[o] = job[o]
OBVIOUS

\* Only thread t's job changes, to k.
Becomes(t, k) ==
  /\ job' = [o \in Thread |-> job'[o]] /\ Shaped(k)
  /\ job'[t] = k /\ \A o \in Thread : o # t => job'[o] = job[o]

\* A thread that applied an update of kind st, B and C the tables mentioned before and
\* after, is in its callbacks, in the loop of subscriptions, or done.
Left(t, k, st, B, C) ==
  /\ Becomes(t, k)
  /\ \/ /\ k.step = st /\ (st \in {"locked", "unlocked"} => k.old = B)
        /\ subscribed' = subscribed
        /\ ruleLock' = IF st = "locked" THEN t ELSE ruleLock
     \/ /\ st \in {"locked", "unlocked"} /\ k.step = "subscribing" /\ k.rem = B \ C
        /\ \E d \in C \ B : subscribed' = subscribed \cup {d} /\ k.add = (C \ B) \ {d}
        /\ ruleLock' = IF st = "locked" THEN t ELSE ruleLock
     \/ /\ st \in {"locked", "unlocked"} /\ k.step = "idle" /\ C \ B = {}
        /\ subscribed' = subscribed \ (B \ C)
        /\ ruleLock' = IF ruleLock = t THEN Nobody ELSE ruleLock
     \/ /\ st \in {"policy", "data"} /\ k.step = "idle"
        /\ subscribed' = subscribed /\ ruleLock' = ruleLock

\* A turn of the loop of subscriptions.
LEMMA SubscribeNextEffect ==
  ASSUME job = [o \in Thread |-> job[o]], NEW t \in Thread, NEW j, NEW add, NEW rem,
         SubscribeNext(t, j, add, rem)
  PROVE  \E k : /\ Becomes(t, k)
                /\ \/ /\ k.step = "subscribing" /\ k.rem = rem
                      /\ \E d \in add : subscribed' = subscribed \cup {d} /\ k.add = add \ {d}
                      /\ ruleLock' = IF j.step = "locked" THEN t ELSE ruleLock
                   \/ /\ k.step = "idle" /\ add = {} /\ subscribed' = subscribed \ rem
                      /\ ruleLock' = IF ruleLock = t THEN Nobody ELSE ruleLock
<1>1. ASSUME NEW d \in add, subscribed' = subscribed \cup {d},
             job' = [job EXCEPT ![t] = [Idle EXCEPT !.step = "subscribing", !.add = add \ {d},
                                                    !.rem = rem]],
             ruleLock' = IF j.step = "locked" THEN t ELSE ruleLock
      PROVE  \E k : /\ Becomes(t, k) /\ k.step = "subscribing" /\ k.rem = rem
                    /\ \E e \in add : subscribed' = subscribed \cup {e} /\ k.add = add \ {e}
                    /\ ruleLock' = IF j.step = "locked" THEN t ELSE ruleLock
  <2>0. PICK k : k = [Idle EXCEPT !.step = "subscribing", !.add = add \ {d}, !.rem = rem]
    OBVIOUS
  <2>1. Shaped(k) /\ k.step = "subscribing" /\ k.add = add \ {d} /\ k.rem = rem
    BY <2>0 DEF Shaped, Idle
  <2>2. job' = [job EXCEPT ![t] = k]
    BY <1>1, <2>0
  <2>3. Becomes(t, k)
    BY <2>1, <2>2, JobOf DEF Becomes
  <2> QED BY <1>1, <2>1, <2>3
<1>2. ASSUME add = {}, subscribed' = subscribed \ rem, job' = [job EXCEPT ![t] = Idle],
             ruleLock' = IF ruleLock = t THEN Nobody ELSE ruleLock
      PROVE  \E k : /\ Becomes(t, k) /\ k.step = "idle" /\ subscribed' = subscribed \ rem
                    /\ ruleLock' = IF ruleLock = t THEN Nobody ELSE ruleLock
  <2>1. Shaped(Idle) /\ Idle.step = "idle"
    BY DEF Shaped, Idle
  <2>2. Becomes(t, Idle)
    BY <1>2, <2>1, JobOf DEF Becomes
  <2> QED BY <1>2, <2>1, <2>2
<1> QED BY <1>1, <1>2 DEF SubscribeNext

\* How an update by a thread that was idle leaves it.
LEMMA ContinueEffect ==
  ASSUME job = [o \in Thread |-> job[o]], \A o \in Thread : Shaped(job[o]),
         NEW t \in Thread, job[t].step = "idle",
         NEW R, NEW j, Shaped(j), j.step \in {"locked", "unlocked", "policy", "data"},
         Continue(t, j, R)
  PROVE  \E k : Left(t, k, j.step, j.old, BodyTables(R))
<1> DEFINE B == j.old
           C == BodyTables(R)
           st == j.step
<1>1. ASSUME NEW c \in j.calls,
             job' = [job EXCEPT ![t] = [j EXCEPT !.calls = @ \ {c}]],
             ruleLock' = IF st = "locked" THEN t ELSE ruleLock,
             UNCHANGED subscribed
      PROVE  \E k : Left(t, k, st, B, C)
  <2>0. PICK k : k = [j EXCEPT !.calls = @ \ {c}]
    OBVIOUS
  <2>1. Shaped(k) /\ k.step = j.step /\ k.old = j.old
    BY <2>0 DEF Shaped
  <2>2. job' = [job EXCEPT ![t] = k]
    BY <1>1, <2>0
  <2>3. Becomes(t, k)
    BY <2>1, <2>2, JobOf DEF Becomes
  <2> QED BY <1>1, <2>1, <2>3 DEF Left
<1>2. ASSUME st \in {"locked", "unlocked"}, SubscribeNext(t, j, C \ B, B \ C)
      PROVE  \E k : Left(t, k, st, B, C)
  <2> DEFINE add == C \ B
             rem == B \ C
  <2>0. SubscribeNext(t, j, add, rem)
    BY <1>2
  <2> HIDE DEF add, rem
  <2>1. PICK k : /\ Becomes(t, k)
                 /\ \/ /\ k.step = "subscribing" /\ k.rem = rem
                       /\ \E d \in add : subscribed' = subscribed \cup {d} /\ k.add = add \ {d}
                       /\ ruleLock' = IF j.step = "locked" THEN t ELSE ruleLock
                    \/ /\ k.step = "idle" /\ add = {} /\ subscribed' = subscribed \ rem
                       /\ ruleLock' = IF ruleLock = t THEN Nobody ELSE ruleLock
    BY <2>0, SubscribeNextEffect
  <2> QED BY <1>2, <2>1 DEF Left, add, rem
<1>3. ASSUME st \in {"policy", "data"}, UNCHANGED <<job, ruleLock, subscribed>>
      PROVE  \E k : Left(t, k, st, B, C)
  <2>1. Becomes(t, job[t])
    BY <1>3 DEF Becomes
  <2> QED BY <1>3, <2>1 DEF Left
<1> QED BY <1>1, <1>2, <1>3 DEF Continue

\* An update by a thread that was idle.
LEMMA UpdateSubscribes ==
  ASSUME SubInv, NEW t \in Thread, job[t].step = "idle",
         NEW R \in [Policy -> SUBSET Rule], rules' = R, aborted' = aborted, overtakes' \in Nat,
         overtakes' = 0 => overtakes = 0 /\ (R = rules \/ ~ Overtakes(t)),
         NEW j, Shaped(j), j.step \in {"locked", "unlocked", "policy", "data"},
         j.step = "locked" => ruleLock = Nobody,
         j.step \in {"locked", "unlocked"} => j.old = BodyTables(rules),
         j.step # "locked" => BodyTables(R) \subseteq BodyTables(rules),
         Continue(t, j, R)
  PROVE  SubInv'
<1> DEFINE B == BodyTables(rules)
           C == BodyTables(R)
           st == j.step
<1>1. job = [o \in Thread |-> job[o]] /\ \A o \in Thread : Shaped(job[o])
  BY DEF SubInv
<1>2. PICK k : Left(t, k, st, j.old, C)
  BY <1>1, ContinueEffect
<1>3. /\ job' = [o \in Thread |-> job'[o]] /\ Shaped(k)
      /\ job'[t] = k /\ \A o \in Thread : o # t => job'[o] = job[o]
  BY <1>2 DEF Left, Becomes
<1>4. \A o \in Thread : Shaped(job'[o])
  BY <1>1, <1>3
<1>5. /\ BodyTables(rules') = C /\ Nobody \notin Thread
      /\ st \in {"locked", "unlocked"} => j.old = B
      /\ st = "locked" => ruleLock = Nobody
      /\ st # "locked" => C \subseteq B
      /\ st \in {"locked", "unlocked", "policy", "data"}
  BY UpdateBounds
<1>6. ASSUME ~ aborted', overtakes' = 0
      PROVE  /\ Coverage(rules', subscribed', job') /\ Harmless(rules', job')
             /\ Locking(job', ruleLock') /\ NothingNew(rules', job')
  <2>1. /\ Coverage(rules, subscribed, job) /\ Harmless(rules, job)
        /\ Locking(job, ruleLock) /\ NothingNew(rules, job)
    BY <1>6 DEF SubInv, Orderly
  <2>2. R = rules \/ ~ Overtakes(t)
    BY <1>6
  <2>3. R = rules => C = B
    OBVIOUS
  <2> HIDE DEF B, C, st
  <2>4. Coverage(rules', subscribed', job')
    <3> SUFFICES ASSUME NEW d \in C PROVE d \in subscribed' \/ \E o \in Thread : Covers(job'[o], d)
      BY <1>5 DEF Coverage
    <3>1. CASE d \in B
      <4>1. d \in subscribed \/ \E o \in Thread : Covers(job[o], d)
        BY <2>1, <3>1 DEF Coverage, B
      <4>2. d \in subscribed => d \in subscribed'
        BY <1>2, <1>5, <3>1 DEF Left
      <4>3. ~ Covers(job[t], d)
        BY DEF Covers
      <4> QED BY <1>3, <4>1, <4>2, <4>3
    <3>2. CASE d \notin B
      <4>1. st = "locked" /\ j.old = B
        BY <1>5, <3>2
      <4>2. d \in subscribed' \/ Covers(k, d)
        BY <1>2, <3>2, <4>1 DEF Left, Covers
      <4> QED BY <1>3, <4>2
    <3> QED BY <3>1, <3>2
  <2>5. ASSUME NEW o \in Thread
        PROVE  /\ job'[o].step = "subscribing" => job'[o].rem \cap C = {}
               /\ job'[o].step \in {"locked", "subscribing"} => ruleLock' = o
               /\ job'[o].step = "unlocked" => C \subseteq job'[o].old
    <3>1. CASE o = t
      <4>1. k.step = "subscribing" => k.rem \cap C = {}
        BY <1>2, <1>5 DEF Left
      <4>2. k.step \in {"locked", "subscribing"} => ruleLock' = t
        BY <1>2, <1>5 DEF Left
      <4>3. k.step = "unlocked" => C \subseteq k.old
        BY <1>2, <1>5 DEF Left
      <4> QED BY <1>3, <3>1, <4>1, <4>2, <4>3
    <3>2. CASE o # t
      <4>1. job'[o] = job[o]
        BY <1>3, <3>2
      <4>2. job[o].step \in {"locked", "subscribing"} => ruleLock = o /\ st # "locked"
        BY <1>5, <2>1 DEF Locking
      <4>3. job[o].step = "subscribing" => job[o].rem \cap C = {}
        BY <1>5, <2>1, <4>2 DEF Harmless, B
      <4>4. job[o].step \in {"locked", "subscribing"} => ruleLock' = o
        BY <1>2, <1>5, <3>2, <4>2 DEF Left
      <4>5. job[o].step = "unlocked" => C \subseteq job[o].old
        <5>1. job[o].step = "unlocked" => C = B \/ C \subseteq B
          BY <2>2, <2>3, <3>2 DEF Overtakes
        <5>2. job[o].step = "unlocked" => B \subseteq job[o].old
          BY <2>1 DEF NothingNew, B
        <5> QED BY <5>1, <5>2
      <4> QED BY <4>1, <4>3, <4>4, <4>5
    <3> QED BY <3>1, <3>2
  <2> QED BY <1>5, <2>4, <2>5 DEF Harmless, Locking, NothingNew
<1>7. Orderly' => ~ aborted' /\ overtakes' = 0
  BY DEF Orderly
<1> QED BY <1>3, <1>4, <1>6, <1>7 DEF SubInv

\* Fewer rules mention fewer tables.
LEMMA BodyTablesShrink ==
  ASSUME NEW R, NEW S, \A p \in Policy : S[p] \subseteq R[p]
  PROVE  BodyTables(S) \subseteq BodyTables(R)
BY DEF BodyTables

\* The events that _actual_events leaves are events.
LEMMA ActualLog ==
  ASSUME NEW evs, Log(evs)
  PROVE  /\ Log(ActualEvents(evs))
         /\ \A i \in DOMAIN ActualEvents(evs) : i \in DOMAIN evs /\ ActualEvents(evs)[i] = evs[i]
<1> DEFINE S == {i \in DOMAIN evs : evs[i].insert = (evs[i].rule \notin rules[evs[i].target])}
           act == ActualEvents(evs)
<1>1. DOMAIN act = S /\ \A i \in S : act[i] = evs[i]
  BY DEF ActualEvents, Restrict
<1>2. S \in SUBSET DOMAIN evs /\ IsFiniteSet(DOMAIN evs) /\ DOMAIN evs \subseteq Nat
  BY DEF Log
<1>3. \A i \in S : evs[i] \in Event
  BY DEF Log
<1> HIDE DEF S, act
<1>4. IsFiniteSet(S)
  BY <1>2, FS_Subset
<1>5. Log(act)
  BY <1>1, <1>2, <1>3, <1>4 DEF Log
<1> QED BY <1>1, <1>2, <1>5 DEF act

\* An update leaves the subscriptions in order, refused or not: a locked one, or one
\* that only deletes.
LEMMA RulesUpdateSubscribes ==
  ASSUME SubInv, NEW t \in Thread, job[t].step = "idle", NEW evs, Log(evs),
         NEW j, Shaped(j), j.step \in {"locked", "unlocked", "policy"}, Update(t, evs, j),
         j.step = "locked" => ruleLock = Nobody,
         j.step \in {"locked", "unlocked"} => j.old = BodyTables(rules),
         j.step # "locked" => \A i \in DOMAIN evs : ~ evs[i].insert
  PROVE  SubInv'
<1> DEFINE act == ActualEvents(evs)
           R == TheoryUpdate(rules, act)
<1>1. rules \in [Policy -> SUBSET Rule] /\ overtakes \in Nat
  BY DEF SubInv
<1>2. Log(act) /\ (j.step # "locked" => \A i \in DOMAIN act : ~ act[i].insert)
  BY ActualLog
<1>3. \/ UNCHANGED <<rules, job, subscribed, ruleLock, overtakes, aborted>>
      \/ \E g, changed : ApplyUpdate(t, g, changed, R, facts, j)
  BY DEF Update, RefuseUpdate
<1> HIDE DEF act
<1>4. R \in [Policy -> SUBSET Rule] /\ (j.step # "locked" => \A p \in Policy : R[p] \subseteq rules[p])
  BY <1>1, <1>2, TheoryUpdateType
<1> HIDE DEF R
<1>5. j.step # "locked" => BodyTables(R) \subseteq BodyTables(rules)
  BY <1>4, BodyTablesShrink
<1>6. CASE UNCHANGED <<rules, job, subscribed, ruleLock, overtakes, aborted>>
  BY <1>6 DEF SubInv, Orderly
<1>7. ASSUME NEW g, NEW changed, ApplyUpdate(t, g, changed, R, facts, j) PROVE SubInv'
  <2>1. PICK calls : /\ rules' = R /\ aborted' = aborted
                     /\ overtakes' = overtakes + (IF R # rules /\ Overtakes(t) THEN 1 ELSE 0)
                     /\ Continue(t, [j EXCEPT !.calls = calls], R)
    BY <1>7 DEF ApplyUpdate
  <2>2. PICK k : k = [j EXCEPT !.calls = calls]
    OBVIOUS
  <2>3. Shaped(k) /\ k.step = j.step /\ k.old = j.old
    BY <2>2 DEF Shaped
  <2>4. overtakes' \in Nat /\ (overtakes' = 0 => overtakes = 0 /\ (R = rules \/ ~ Overtakes(t)))
    BY <1>1, <2>1
  <2>5. Continue(t, k, R)
    BY <2>1, <2>2
  <2> QED BY <1>4, <1>5, <2>1, <2>3, <2>4, <2>5, UpdateSubscribes
<1> QED BY <1>3, <1>6, <1>7

\* A step that leaves rules, jobs and subscriptions alone.
LEMMA SubUnchanged ==
  ASSUME SubInv, UNCHANGED <<rules, job, subscribed, ruleLock, overtakes, aborted>>
  PROVE  SubInv'
BY DEF SubInv, Orderly

\* An update of data leaves the subscriptions in order.
LEMMA DataUpdateSubscribes ==
  ASSUME SubInv, NEW t \in Thread, job[t].step = "idle", rules' = rules, aborted' = aborted,
         overtakes' = overtakes, NEW j, Shaped(j), j.step = "data", Continue(t, j, rules)
  PROVE  SubInv'
<1>1. rules \in [Policy -> SUBSET Rule] /\ overtakes \in Nat
  BY DEF SubInv
<1> QED BY <1>1, UpdateSubscribes

\* A turn of the loop of subscriptions, by a thread that begins it or goes on.
LEMMA LoopSubscribes ==
  ASSUME SubInv, NEW t \in Thread, NEW add, NEW rem,
         \/ /\ job[t].step \in {"locked", "unlocked"}
            /\ add = BodyTables(rules) \ job[t].old /\ rem = job[t].old \ BodyTables(rules)
         \/ job[t].step = "subscribing" /\ add = job[t].add /\ rem = job[t].rem,
         SubscribeNext(t, job[t], add, rem), UNCHANGED <<rules, overtakes, aborted>>
  PROVE  SubInv'
<1> DEFINE B == BodyTables(rules)
           st == job[t].step
<1>1. job = [o \in Thread |-> job[o]] /\ \A o \in Thread : Shaped(job[o])
  BY DEF SubInv
<1>2. PICK k : /\ Becomes(t, k)
               /\ \/ /\ k.step = "subscribing" /\ k.rem = rem
                     /\ \E d \in add : subscribed' = subscribed \cup {d} /\ k.add = add \ {d}
                     /\ ruleLock' = IF st = "locked" THEN t ELSE ruleLock
                  \/ /\ k.step = "idle" /\ add = {} /\ subscribed' = subscribed \ rem
                     /\ ruleLock' = IF ruleLock = t THEN Nobody ELSE ruleLock
  BY <1>1, SubscribeNextEffect
<1>3. /\ job' = [o \in Thread |-> job'[o]] /\ Shaped(k)
      /\ job'[t] = k /\ \A o \in Thread : o # t => job'[o] = job[o]
  BY <1>2 DEF Becomes
<1>4. \A o \in Thread : Shaped(job'[o])
  BY <1>1, <1>3
<1>5. BodyTables(rules') = B /\ Nobody \notin Thread
  BY UpdateBounds
<1>6. ASSUME Orderly
      PROVE  /\ Coverage(rules', subscribed', job') /\ Harmless(rules', job')
             /\ Locking(job', ruleLock') /\ NothingNew(rules', job')
  <2>1. /\ Coverage(rules, subscribed, job) /\ Harmless(rules, job)
        /\ Locking(job, ruleLock) /\ NothingNew(rules, job)
    BY <1>6 DEF SubInv
  <2>2. rem \cap B = {}
    BY <2>1 DEF Harmless
  <2>3. \A d \in B : Covers(job[t], d) => d \in add
    BY DEF Covers
  <2>4. st = "unlocked" => add = {}
    BY <2>1 DEF NothingNew
  <2>5. st \in {"locked", "subscribing"} => ruleLock = t
    BY <2>1 DEF Locking
  <2>6. st \in {"locked", "unlocked", "subscribing"}
    OBVIOUS
  <2> HIDE DEF B, st
  <2>7. Coverage(rules', subscribed', job')
    <3> SUFFICES ASSUME NEW d \in B PROVE d \in subscribed' \/ \E o \in Thread : Covers(job'[o], d)
      BY <1>5 DEF Coverage
    <3>1. d \in subscribed \/ \E o \in Thread : Covers(job[o], d)
      BY <2>1 DEF Coverage, B
    <3>2. d \in subscribed => d \in subscribed'
      BY <1>2, <2>2
    <3>3. d \in add => d \in subscribed' \/ Covers(k, d)
      BY <1>2 DEF Covers
    <3> QED BY <1>3, <2>3, <3>1, <3>2, <3>3
  <2>8. ASSUME NEW o \in Thread
        PROVE  /\ job'[o].step = "subscribing" => job'[o].rem \cap B = {}
               /\ job'[o].step \in {"locked", "subscribing"} => ruleLock' = o
               /\ job'[o].step = "unlocked" => B \subseteq job'[o].old
    <3>1. CASE o = t
      <4>1. k.step = "subscribing" => k.rem \cap B = {} /\ ruleLock' = t
        BY <1>2, <2>2, <2>4, <2>5, <2>6
      <4>2. k.step \in {"idle", "subscribing"}
        BY <1>2
      <4> QED BY <1>3, <3>1, <4>1, <4>2
    <3>2. CASE o # t
      <4>1. job'[o] = job[o]
        BY <1>3, <3>2
      <4>2. job[o].step \in {"locked", "subscribing"} => ruleLock = o
        BY <2>1 DEF Locking
      <4>3. job[o].step \in {"locked", "subscribing"} => ruleLock' = o
        BY <1>2, <2>4, <2>5, <2>6, <3>2, <4>2
      <4>4. job[o].step = "subscribing" => job[o].rem \cap B = {}
        BY <2>1 DEF Harmless, B
      <4>5. job[o].step = "unlocked" => B \subseteq job[o].old
        BY <2>1 DEF NothingNew, B
      <4> QED BY <4>1, <4>3, <4>4, <4>5
    <3> QED BY <3>1, <3>2
  <2> QED BY <1>5, <2>7, <2>8 DEF Harmless, Locking, NothingNew
<1>7. Orderly' => Orderly
  BY DEF Orderly
<1> QED BY <1>3, <1>4, <1>6, <1>7 DEF SubInv

\* Every step leaves the subscriptions in order.
LEMMA SubStep == SubInv /\ [Next]_vars => SubInv'
<1> SUFFICES ASSUME SubInv, [Next]_vars PROVE SubInv'
  OBVIOUS
<1>1. /\ rules \in [Policy -> SUBSET Rule] /\ overtakes \in Nat
      /\ job = [o \in Thread |-> job[o]] /\ \A o \in Thread : Shaped(job[o])
  BY DEF SubInv
<1>2. ASSUME NEW t \in Thread, NEW evs, Log(evs), LockedUpdate(t, evs) PROVE SubInv'
  <2>0. PICK j : j = [Idle EXCEPT !.step = "locked", !.old = BodyTables(rules)]
    OBVIOUS
  <2>1. Shaped(j) /\ j.step = "locked" /\ j.old = BodyTables(rules)
    BY <2>0 DEF Shaped, Idle
  <2>2. Update(t, evs, j) /\ job[t].step = "idle" /\ ruleLock = Nobody
    BY <1>2, <2>0 DEF LockedUpdate
  <2> QED BY <1>2, <2>1, <2>2, RulesUpdateSubscribes
<1>3. ASSUME NEW t \in Thread, NEW p \in Policy, NEW r \in Rule, InsertRule(t, p, r)
      PROVE  SubInv'
  <2> DEFINE evs == <<[insert |-> TRUE, target |-> p, rule |-> r]>>
  <2>1. LockedUpdate(t, evs)
    BY <1>3 DEF InsertRule
  <2>2. Log(evs)
    BY EventLists, ZenonT(60)
  <2> HIDE DEF evs
  <2> QED BY <1>2, <2>1, <2>2
<1>4. ASSUME NEW t \in Thread, NEW evs \in Batch, SynchronizeRules(t, evs) PROVE SubInv'
  BY <1>2, <1>4, BatchLog DEF SynchronizeRules
<1>5. ASSUME NEW t \in Thread, NEW p \in Policy, NEW r \in Rule, DeleteRule(t, p, r)
      PROVE  SubInv'
  <2> DEFINE evs == <<[insert |-> FALSE, target |-> p, rule |-> r]>>
  <2>0. PICK j : j = [Idle EXCEPT !.step = "unlocked", !.old = BodyTables(rules)]
    OBVIOUS
  <2>1. Shaped(j) /\ j.step = "unlocked" /\ j.old = BodyTables(rules)
    BY <2>0 DEF Shaped, Idle
  <2>2. Update(t, evs, j) /\ job[t].step = "idle"
    BY <1>5, <2>0 DEF DeleteRule
  <2>3. Log(evs) /\ DOMAIN evs = {1} /\ evs[1].insert = FALSE
    BY EventLists, ZenonT(60)
  <2> HIDE DEF evs
  <2> QED BY <2>1, <2>2, <2>3, RulesUpdateSubscribes
<1>6. ASSUME NEW t \in Thread, NEW p \in Policy, DeletePolicy(t, p) PROVE SubInv'
  <2> DEFINE evs == [i \in 1 .. Cardinality(rules[p]) |->
                       [insert |-> FALSE, target |-> p, rule |-> SetToSeq(rules[p])[i]]]
  <2>0. PICK j : j = [Idle EXCEPT !.step = "policy", !.drop = {p}]
    OBVIOUS
  <2>1. Shaped(j) /\ j.step = "policy"
    BY <2>0 DEF Shaped, Idle
  <2>2. Update(t, evs, j) /\ job[t].step = "idle"
    BY <1>6, <2>0 DEF DeletePolicy
  <2>3. rules[p] \in SUBSET Rule
    BY <1>1
  <2>4. Log(evs) /\ \A i \in DOMAIN evs : ~ evs[i].insert
    BY <2>3, EventLists
  <2> HIDE DEF evs
  <2> QED BY <2>1, <2>2, <2>4, RulesUpdateSubscribes
<1>7. ASSUME NEW t \in Thread, NEW d \in DataTable, NEW rows \in SUBSET Row,
             ReceiveDataUpdate(t, d, rows)
      PROVE  SubInv'
  <2>1. job[t].step = "idle"
    BY <1>7 DEF ReceiveDataUpdate
  <2>2. \/ UNCHANGED <<rules, job, subscribed, ruleLock, overtakes, aborted>>
        \/ \E calls : /\ rules' = rules /\ aborted' = aborted
                      /\ overtakes' = overtakes + (IF rules # rules /\ Overtakes(t) THEN 1 ELSE 0)
                      /\ Continue(t, [[Idle EXCEPT !.step = "data"] EXCEPT !.calls = calls], rules)
    BY <1>7 DEF ReceiveDataUpdate, RefuseUpdate, ApplyUpdate
  <2>3. ASSUME NEW calls, rules' = rules, aborted' = aborted,
               overtakes' = overtakes + (IF rules # rules /\ Overtakes(t) THEN 1 ELSE 0),
               Continue(t, [[Idle EXCEPT !.step = "data"] EXCEPT !.calls = calls], rules)
        PROVE  SubInv'
    <3>1. PICK j : j = [[Idle EXCEPT !.step = "data"] EXCEPT !.calls = calls]
      OBVIOUS
    <3>2. Shaped(j) /\ j.step = "data"
      BY <3>1 DEF Shaped, Idle
    <3>3. overtakes' = overtakes /\ Continue(t, j, rules)
      BY <1>1, <2>3, <3>1
    <3> QED BY <2>1, <2>3, <3>2, <3>3, DataUpdateSubscribes
  <2> QED BY <2>2, <2>3, SubUnchanged
<1>8. ASSUME NEW t \in Thread, NEW d \in DataTable, NEW rows \in SUBSET Row,
             ReceiveDataFull(t, d, rows)
      PROVE  SubInv'
  <2>1. PICK calls : /\ job[t].step = "idle" /\ rules' = rules /\ aborted' = aborted
                     /\ overtakes' = overtakes
                     /\ Continue(t, [Idle EXCEPT !.step = "data", !.calls = calls], rules)
    BY <1>8 DEF ReceiveDataFull
  <2>2. PICK j : j = [Idle EXCEPT !.step = "data", !.calls = calls]
    OBVIOUS
  <2>3. Shaped(j) /\ j.step = "data"
    BY <2>2 DEF Shaped, Idle
  <2> QED BY <2>1, <2>2, <2>3, DataUpdateSubscribes
<1>9. ASSUME NEW t \in Thread, NEW c, NextCallback(t, c) PROVE SubInv'
  <2>1. PICK k : k = [job[t] EXCEPT !.calls = @ \ {c}]
    OBVIOUS
  <2>2. /\ job' = [job EXCEPT ![t] = k]
        /\ UNCHANGED <<rules, subscribed, ruleLock, overtakes, aborted>>
    BY <1>9, <2>1 DEF NextCallback
  <2>3. Shaped(k) /\ k.step = job[t].step /\ k.old = job[t].old /\ k.add = job[t].add
        /\ k.rem = job[t].rem
    <3>1. Shaped(job[t])
      BY <1>1
    <3> QED BY <2>1, <3>1 DEF Shaped
  <2>4. /\ job' = [o \in Thread |-> job'[o]]
        /\ job'[t] = k /\ \A o \in Thread : o # t => job'[o] = job[o]
    BY <1>1, <2>2, JobOf
  <2>5. \A o \in Thread : /\ Shaped(job'[o])
                          /\ job'[o].step = job[o].step /\ job'[o].old = job[o].old
                          /\ job'[o].add = job[o].add /\ job'[o].rem = job[o].rem
    BY <1>1, <2>3, <2>4
  <2>6. \A o \in Thread : \A d : Covers(job'[o], d) <=> Covers(job[o], d)
    BY <2>5 DEF Covers
  <2>7. BodyTables(rules') = BodyTables(rules)
    BY <2>2
  <2>8. /\ Coverage(rules, subscribed, job) => Coverage(rules', subscribed', job')
        /\ Harmless(rules, job) => Harmless(rules', job')
        /\ Locking(job, ruleLock) => Locking(job', ruleLock')
        /\ NothingNew(rules, job) => NothingNew(rules', job')
    <3>1. Coverage(rules, subscribed, job) => Coverage(rules', subscribed', job')
      BY <2>2, <2>6, <2>7 DEF Coverage
    <3>2. Harmless(rules, job) => Harmless(rules', job')
      BY <2>5, <2>7 DEF Harmless
    <3>3. Locking(job, ruleLock) => Locking(job', ruleLock')
      BY <2>2, <2>5 DEF Locking
    <3>4. NothingNew(rules, job) => NothingNew(rules', job')
      BY <2>5, <2>7 DEF NothingNew
    <3> QED BY <3>1, <3>2, <3>3, <3>4
  <2> QED BY <2>2, <2>4, <2>5, <2>8 DEF SubInv, Orderly
<1>10. ASSUME NEW t \in Thread, NEW c, CallbackFails(t, c) PROVE SubInv'
  <2>1. /\ job' = [job EXCEPT ![t] = Idle] /\ aborted' /\ rules' = rules /\ overtakes' = overtakes
    BY <1>10 DEF CallbackFails
  <2>2. /\ job' = [o \in Thread |-> job'[o]]
        /\ job'[t] = Idle /\ \A o \in Thread : o # t => job'[o] = job[o]
    BY <1>1, <2>1, JobOf
  <2>3. Shaped(Idle)
    BY DEF Shaped, Idle
  <2>4. \A o \in Thread : Shaped(job'[o])
    BY <1>1, <2>2, <2>3
  <2> QED BY <1>1, <2>1, <2>2, <2>4 DEF SubInv, Orderly
<1>11. ASSUME NEW t \in Thread, UpdateTableSubscriptions(t) PROVE SubInv'
  BY <1>11, LoopSubscribes DEF UpdateTableSubscriptions
<1>12. ASSUME NEW t \in Thread, SubscribeReturns(t) PROVE SubInv'
  BY <1>12, LoopSubscribes DEF SubscribeReturns
<1>13. ASSUME NEW t \in Thread, Finish(t) PROVE SubInv'
  <2>1. /\ rules' = [p \in Policy |-> IF p \in job[t].drop THEN {} ELSE rules[p]]
        /\ job' = [job EXCEPT ![t] = Idle] /\ job[t].step \in {"policy", "data"}
        /\ UNCHANGED <<subscribed, ruleLock, overtakes, aborted>>
    BY <1>13 DEF Finish
  <2>2. rules' \in [Policy -> SUBSET Rule] /\ \A p \in Policy : rules'[p] \subseteq rules[p]
    BY <1>1, <2>1
  <2>3. BodyTables(rules') \subseteq BodyTables(rules)
    BY <2>2, BodyTablesShrink
  <2>4. /\ job' = [o \in Thread |-> job'[o]]
        /\ job'[t] = Idle /\ \A o \in Thread : o # t => job'[o] = job[o]
    BY <1>1, <2>1, JobOf
  <2>5. Shaped(Idle) /\ Idle.step = "idle"
    BY DEF Shaped, Idle
  <2>6. \A o \in Thread : Shaped(job'[o])
    BY <1>1, <2>4, <2>5
  <2>7. ASSUME Orderly
        PROVE  /\ Coverage(rules', subscribed', job') /\ Harmless(rules', job')
               /\ Locking(job', ruleLock') /\ NothingNew(rules', job')
    <3>1. /\ Coverage(rules, subscribed, job) /\ Harmless(rules, job)
          /\ Locking(job, ruleLock) /\ NothingNew(rules, job)
      BY <2>7 DEF SubInv
    <3>2. \A d : ~ Covers(job[t], d)
      BY <2>1 DEF Covers
    <3>3. Coverage(rules', subscribed', job')
      BY <2>1, <2>3, <2>4, <3>1, <3>2 DEF Coverage
    <3>4. Harmless(rules', job') /\ Locking(job', ruleLock') /\ NothingNew(rules', job')
      BY <2>1, <2>3, <2>4, <2>5, <3>1 DEF Harmless, Locking, NothingNew
    <3> QED BY <3>3, <3>4
  <2> QED BY <1>1, <2>1, <2>2, <2>4, <2>6, <2>7 DEF SubInv, Orderly
<1>14. CASE \/ \E v \in Observed : PeerSubscribes(v)
            \/ \E v \in Observed : PeerUnsubscribes(v)
            \/ UpdateTablesWithSubscriber
            \/ UNCHANGED vars
  <2>1. UNCHANGED <<rules, job, subscribed, ruleLock, overtakes, aborted>>
    BY <1>14 DEF PeerSubscribes, PeerUnsubscribes, UpdateTablesWithSubscriber, vars
  <2> QED BY <2>1, SubUnchanged
<1> QED BY <1>3, <1>4, <1>5, <1>6, <1>7, <1>8, <1>9, <1>10, <1>11, <1>12, <1>13, <1>14 DEF Next

\* Whatever updates are applied while others wait for their callbacks or in the loop
\* of update_table_subscriptions, once all are done the engine is subscribed to every
\* table of a datasource that its rules mention, unless a callback broke an update
\* off or rules changed during the callbacks of another update.  It needs the rule
\* lock for insertions only: a deletion, which takes none, has nothing to subscribe
\* to, and gives up only what no rule mentions at that moment.
THEOREM SubscriptionsComplete == Spec => []NeededSubscribed
<1>1. Init => SubInv
  BY SubInit
<1>2. SubInv /\ [Next]_vars => SubInv'
  BY SubStep
<1>3. SubInv => NeededSubscribed
  <2> SUFFICES ASSUME SubInv, Orderly, \A t \in Thread : job[t].step = "idle",
                      NEW d \in BodyTables(rules)
               PROVE  d \in subscribed
    BY DEF NeededSubscribed, MentionedSubscribed, Orderly
  <2>1. d \in subscribed \/ \E t \in Thread : Covers(job[t], d)
    BY DEF SubInv, Coverage
  <2> QED BY <2>1 DEF Covers
<1> QED BY <1>1, <1>2, <1>3, PTL DEF Spec
=============================================================================
