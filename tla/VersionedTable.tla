--------------------------- MODULE VersionedTable ---------------------------
(***************************************************************************)
(* What the sequenced publish/subscribe of DataService promises: a table   *)
(* with numbered versions, of which each reader holds one, whole, and      *)
(* never goes back to an earlier one.                                      *)
(***************************************************************************)
EXTENDS Integers

CONSTANTS Reader, Row, NoData, First, Last

VARIABLES
  latest,    \* the newest version
  content,   \* the contents of each version
  at,        \* the version each reader holds, -1 before it holds any
  copy       \* the contents each reader holds

vars == <<latest, content, at, copy>>

Init ==
  /\ latest = First
  /\ \E d \in SUBSET Row :
       content = [n \in 0 .. Last |-> IF n = First THEN d ELSE NoData]
  /\ at = [r \in Reader |-> -1]
  /\ copy = [r \in Reader |-> {}]

\* The publisher makes a new version.
Publish ==
  /\ latest < Last
  /\ latest' = latest + 1
  /\ \E d \in SUBSET Row :
       /\ d # content[latest]
       /\ content' = [content EXCEPT ![latest + 1] = d]
  /\ UNCHANGED <<at, copy>>

\* A reader moves to a version that is not older than the one it holds.
CatchUp(r) ==
  /\ \E n \in First .. latest :
       /\ n >= at[r]
       /\ at' = [at EXCEPT ![r] = n]
       /\ copy' = [copy EXCEPT ![r] = content[n]]
  /\ UNCHANGED <<latest, content>>

Next == Publish \/ \E r \in Reader : CatchUp(r)

Spec == Init /\ [][Next]_vars
=============================================================================
