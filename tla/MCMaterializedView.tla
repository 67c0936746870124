------------------------- MODULE MCMaterializedView -------------------------
(***************************************************************************)
(* Programs for MaterializedView.                                          *)
(***************************************************************************)
EXTENDS MaterializedView

Yields(head, pos, neg) == [head |-> head, pos |-> pos, neg |-> neg]

\* layered:  p :- q, not r    p :- s    t :- p
LayeredAtom == {"p", "q", "r", "s", "t"}
LayeredFact == {"p", "q", "r", "s"}
LayeredRule == {"pqr", "ps", "tp"}
LayeredInstances ==
  [r \in LayeredRule |->
     CASE r = "pqr" -> {Yields("p", {"q"}, {"r"})}
       [] r = "ps" -> {Yields("p", {"s"}, {})}
       [] r = "tp" -> {Yields("t", {"p"}, {})}]
LayeredExpansion == [u \in LayeredRule |-> <<u>>]
LayeredTable == [a \in LayeredAtom |-> a]

\* selfjoin:  p :- q(x), q(y)    s :- q(x), q(y)   with q(1), each rewritten
\* to use a helper table  ___q(x) :- q(x)
JoinAtom == {"p", "s", "q1", "h1"}
JoinRule == {"pj", "sj", "helper"}
JoinUserRule == {"pj", "sj"}
JoinInstances ==
  [r \in JoinRule |->
     CASE r = "pj" -> {Yields("p", {"q1", "h1"}, {})}
       [] r = "sj" -> {Yields("s", {"q1", "h1"}, {})}
       [] r = "helper" -> {Yields("h1", {"q1"}, {})}]
JoinExpansion == [u \in JoinUserRule |-> <<u, "helper">>]
JoinTable == [a \in JoinAtom |-> a]
Q1Only == {"q1"}

\* multi:  p :- q    p :- s    t :- p    u :- not p
MultiAtom == {"p", "q", "s", "t", "u"}
MultiRule == {"pq", "ps", "tp", "unp"}
MultiInstances ==
  [r \in MultiRule |->
     CASE r = "pq" -> {Yields("p", {"q"}, {})}
       [] r = "ps" -> {Yields("p", {"s"}, {})}
       [] r = "tp" -> {Yields("t", {"p"}, {})}
       [] r = "unp" -> {Yields("u", {}, {"p"})}]
MultiExpansion == [u \in MultiRule |-> <<u>>]
MultiTable == [a \in MultiAtom |-> a]
QSOnly == {"q", "s"}

\* projected:  b(x) :- q(x)    b(x) :- s(x)    t :- a, b(x)
ProjectedAtom == {"a", "b1", "b2", "q1", "q2", "s1", "t"}
ProjectedFact == {"a", "q1", "q2", "s1"}
ProjectedRule == {"bq", "bs", "tab"}
ProjectedInstances ==
  [r \in ProjectedRule |->
     CASE r = "bq" -> {Yields("b1", {"q1"}, {}), Yields("b2", {"q2"}, {})}
       [] r = "bs" -> {Yields("b1", {"s1"}, {})}
       [] r = "tab" -> {Yields("t", {"a", "b1"}, {}), Yields("t", {"a", "b2"}, {})}]
ProjectedExpansion == [u \in ProjectedRule |-> <<u>>]
ProjectedTable == [a \in ProjectedAtom |-> a]
=============================================================================
