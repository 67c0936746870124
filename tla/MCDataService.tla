--------------------------- MODULE MCDataService ---------------------------
(***************************************************************************)
(* Instances of DataService for TLC.  Subscribers and rows are             *)
(* interchangeable: no definition names one of them.                       *)
(***************************************************************************)
EXTENDS DataService, TLC

Symmetry == Permutations(Subscriber) \cup Permutations(Row)
             \cup Permutations(Thread)
============================================================================
