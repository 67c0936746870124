-------------------------- MODULE MCEngineUpdate --------------------------
(***************************************************************************)
(* Rules of EngineUpdate for TLC: the actions a and b, the views u and v,  *)
(* and two tables of a datasource.                                         *)
(***************************************************************************)
EXTENDS EngineUpdate, TLC

CONSTANTS p, a, b, u, v, d1, d2

Lit(t) == [table |-> t, neg |-> FALSE]
Not(t) == [table |-> t, neg |-> TRUE]
Def(h, lits) == [head |-> h, modal |-> FALSE, body |-> lits]
Act(h, lits) == [head |-> h, modal |-> TRUE, body |-> lits]

ActA == Act(a, {Lit(u)})             \* execute[a(x)] :- u(x)
ActB == Act(b, {Lit(v)})             \* execute[b(x)] :- v(x)
UfromD == Def(u, {Lit(d1)})          \* u(x) :- d:d1(x)
VfromU == Def(v, {Lit(u), Not(d2)})  \* v(x) :- u(x), not d:d2(x)
UfromV == Def(u, {Lit(v)})           \* u(x) :- v(x)
AfromD == Def(a, {Lit(d1)})          \* a(x) :- d:d1(x)
Self == Def(u, {Lit(u)})             \* u(x) :- u(x)

Ins(r) == [insert |-> TRUE, target |-> p, rule |-> r]
Del(r) == [insert |-> FALSE, target |-> p, rule |-> r]

LayeredRules == {ActA, UfromD, VfromU, UfromV}
LayeredBatches == { <<Ins(VfromU), Del(UfromD)>>, <<Ins(VfromU), Ins(UfromV)>>,
                    <<Ins(ActA), Ins(UfromD)>>, <<Ins(UfromV), Del(VfromU)>> }

SelfRules == {Self, UfromD}
ActionRules == {ActA, ActB}
ActionBatches == { <<Ins(ActA), Ins(ActB)>> }
HandoverRules == {ActA, AfromD}
HandoverBatches == { <<Ins(AfromD), Del(ActA)>> }
PlainRules == {UfromD}

ObservedU == {<<p, u>>}
ObservedV == {<<p, v>>}
Symmetry == Permutations(Thread)
============================================================================
