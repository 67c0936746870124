---------------------------- MODULE MCPolicySync ----------------------------
(***************************************************************************)
(* Constants of PolicySync for TLC.                                        *)
(***************************************************************************)
EXTENDS PolicySync, TLC

CONSTANTS n1, n2, p, q, r, s

\* p: r and s are  a :- b  and  b :- a  of policy p.
Loop == { {[pol |-> p, rule |-> r], [pol |-> p, rule |-> s]} }

EveryOp == {"create_policy", "delete_policy", "insert_rule", "delete_rule"}
NoDeletePolicy == {"create_policy", "insert_rule", "delete_rule"}
Inserts == {"insert_rule"}
Additions == {"create_policy", "insert_rule"}
Orphaning == {"insert_rule", "delete_policy"}
Creations == {"create_policy"}

Symmetry == Permutations(Node)
=============================================================================
