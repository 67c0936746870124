------------------------ MODULE ActionExecution_proofs ------------------------
(***************************************************************************)
(* Proofs about ActionExecution: type correctness, and that an action is   *)
(* executed at most once for every time the set of engines the driver can  *)
(* hear changes, whatever the number of engines and actions.               *)
(***************************************************************************)
EXTENDS ActionExecution, FiniteSetTheorems, TLAPS

(***************************************************************************)
(* The argument counts, for one action, the executions still to come.      *)
(***************************************************************************)
Pending(e, a) == [from |-> e, act |-> a] \in requests

\* The engine has not asked yet, or will start again and ask again.
WillAsk(e, a) == a \notin rows[e] \/ ~up[e]

MayAsk(e, a) == Pending(e, a) \/ WillAsk(e, a)

\* A leader that _check_leader_heartbeat would leave alone.
Close(e) == e = DriverNode \/ heard[e] = "fresh"

\* Engines with a request on its way that are to ask once more.
Twice(a) == {e \in Engine : Pending(e, a) /\ WillAsk(e, a)}

\* Engines the driver's node has no contact with: each of them can be elected
\* and then vacated again.
Away(a) == {e \in Engine : ~Close(e) /\ MayAsk(e, a)}

\* Engines of which one, without further loss of contact, is obeyed.
Candidates(a) ==
  {e \in Engine : /\ Close(e) /\ MayAsk(e, a)
                  /\ leader # NoLeader /\ Close(leader) => e = leader}

ToCome(a) == Cardinality(Twice(a)) + Cardinality(Away(a))
               + (IF Candidates(a) = {} THEN 0 ELSE 1)

ObeyedInv == \A a \in Action : ran[a] + ToCome(a) <= 1 + silences + restarts

----------------------------------------------------------------------------
(***************************************************************************)
(* Type correctness.                                                       *)
(***************************************************************************)

\* How many peers the driver's node is in contact with is a number.
LEMMA ContactCount ==
  Cardinality({e \in Engine : heard[e] = "fresh"}) \in Nat
<1>1. IsFiniteSet({e \in Engine : heard[e] = "fresh"})
  BY EngineAssumption, FS_Subset
<1> QED
  BY <1>1, FS_CardinalityType

\* Every state has the types of TypeOK: among other things an engine's trigger
\* only ever holds rows of the data, and the driver's leader is an engine.
THEOREM TypeCorrect == Spec => []TypeOK
<1>1. Init => TypeOK
  BY LimitAssumption, SwitchAssumption DEF Init, TypeOK
<1>2. TypeOK /\ [Next]_vars => TypeOK'
  <2> SUFFICES ASSUME TypeOK, [Next]_vars
               PROVE  TypeOK'
    OBVIOUS
  <2> USE LimitAssumption DEF TypeOK, Request
  <2>1. ASSUME NEW a \in Action, Appear(a)
        PROVE  TypeOK'
    BY <2>1 DEF Appear
  <2>2. ASSUME NEW e \in Engine, NEW a \in Action, ExecuteTable(e, a)
        PROVE  TypeOK'
    BY <2>2 DEF ExecuteTable
  <2>3. ASSUME NEW r \in requests, RequestExecute(r)
        PROVE  TypeOK'
    BY <2>3 DEF RequestExecute
  <2>4. ASSUME NEW r \in requests, TimeOut(r)
        PROVE  TypeOK'
    BY <2>4 DEF TimeOut
  <2>5. CASE CheckLeaderHeartbeat
    BY <2>5 DEF CheckLeaderHeartbeat
  <2>6. CASE RestartDriver
    BY <2>6, ContactCount DEF RestartDriver
  <2>7. ASSUME NEW e \in Engine, AcceptHeartbeat(e) \/ HearDriver(e) \/ Silence(e)
        PROVE  TypeOK'
    <3>1. CASE AcceptHeartbeat(e)
      BY <3>1 DEF AcceptHeartbeat
    <3>2. CASE HearDriver(e)
      BY <3>2 DEF HearDriver
    <3>3. CASE Silence(e)
      BY <3>3 DEF Silence
    <3> QED
      BY <2>7, <3>1, <3>2, <3>3
  <2>8. ASSUME NEW e \in Engine, Crash(e) \/ Start(e)
        PROVE  TypeOK'
    <3>1. CASE Crash(e)
      BY <3>1 DEF Crash
    <3>2. CASE Start(e)
      BY <3>2 DEF Start
    <3> QED
      BY <2>8, <3>1, <3>2
  <2>9. CASE UNCHANGED vars
    BY <2>9 DEF vars
  <2> QED
    BY <2>1, <2>2, <2>3, <2>4, <2>5, <2>6, <2>7, <2>8, <2>9 DEF Next
<1> QED
  BY <1>1, <1>2, PTL DEF Spec

----------------------------------------------------------------------------
(***************************************************************************)
(* One leader at a time.                                                   *)
(***************************************************************************)

\* Sets of engines are finite, a subset is not larger, and one engine more or
\* less changes the number by one.
LEMMA Counting ==
  ASSUME NEW S, NEW T, S \subseteq Engine, T \subseteq Engine
  PROVE  /\ Cardinality(S) \in Nat /\ Cardinality(T) \in Nat
         /\ T \subseteq S => Cardinality(T) <= Cardinality(S)
         /\ \A x : T \subseteq S \cup {x} => Cardinality(T) <= Cardinality(S) + 1
         /\ \A x \in S : T \subseteq S \ {x} => Cardinality(T) <= Cardinality(S) - 1
<1>1. IsFiniteSet(S) /\ IsFiniteSet(T)
  BY EngineAssumption, FS_Subset
<1>2. Cardinality(S) \in Nat /\ Cardinality(T) \in Nat
  BY <1>1, FS_CardinalityType
<1>3. ASSUME NEW x, T \subseteq S \cup {x}
      PROVE  Cardinality(T) <= Cardinality(S) + 1
  <2>1. /\ IsFiniteSet(S \cup {x})
        /\ Cardinality(S \cup {x}) \in {Cardinality(S), Cardinality(S) + 1}
    BY <1>1, FS_AddElement
  <2>2. Cardinality(T) <= Cardinality(S \cup {x})
    BY <1>3, <2>1, FS_Subset
  <2> QED
    BY <1>2, <2>1, <2>2
<1>4. ASSUME NEW x \in S, T \subseteq S \ {x}
      PROVE  Cardinality(T) <= Cardinality(S) - 1
  <2>1. IsFiniteSet(S \ {x}) /\ Cardinality(S \ {x}) = Cardinality(S) - 1
    BY <1>1, FS_RemoveElement
  <2>2. Cardinality(T) <= Cardinality(S \ {x})
    BY <1>4, <2>1, FS_Subset
  <2> QED
    BY <1>2, <2>1, <2>2
<1> QED
  BY <1>1, <1>2, <1>3, <1>4, FS_Subset

\* A set that is covered by two has no more elements than both together.
LEMMA CountingUnion ==
  ASSUME NEW S, NEW T, NEW U, S \subseteq Engine, T \subseteq Engine, U \subseteq S \cup T
  PROVE  /\ Cardinality(S) \in Nat /\ Cardinality(T) \in Nat /\ Cardinality(U) \in Nat
         /\ Cardinality(U) <= Cardinality(S) + Cardinality(T)
<1>1. IsFiniteSet(S) /\ IsFiniteSet(T)
  BY EngineAssumption, FS_Subset
<1>2. /\ IsFiniteSet(S \cup T)
      /\ Cardinality(S \cup T) = Cardinality(S) + Cardinality(T) - Cardinality(S \cap T)
  BY <1>1, FS_Union
<1>3. IsFiniteSet(S \cap T)
  BY <1>1, FS_Subset
<1>4. IsFiniteSet(U) /\ Cardinality(U) <= Cardinality(S \cup T)
  BY <1>2, FS_Subset
<1>5. /\ Cardinality(S) \in Nat /\ Cardinality(T) \in Nat /\ Cardinality(U) \in Nat
      /\ Cardinality(S \cap T) \in Nat
  BY <1>1, <1>3, <1>4, FS_CardinalityType
<1> QED
  BY <1>2, <1>4, <1>5

\* No step makes more executions possible than it pays for: an execution uses
\* up a request, and only a loss of contact, a crash or a restart adds one.
LEMMA ObeyedStep == TypeOK /\ ObeyedInv /\ [Next]_vars => ObeyedInv'
<1> SUFFICES ASSUME TypeOK, ObeyedInv, [Next]_vars, NEW a \in Action
             PROVE  ran'[a] + ToCome(a)' <= 1 + silences' + restarts'
  BY DEF ObeyedInv
<1> DEFINE tw == Twice(a)
           aw == Away(a)
           ca == Candidates(a)
           Goal == ran'[a] + ToCome(a)' <= 1 + silences' + restarts'
<1>1. /\ tw \subseteq Engine /\ aw \subseteq Engine /\ ca \subseteq Engine
      /\ tw' \subseteq Engine /\ aw' \subseteq Engine /\ ca' \subseteq Engine
  BY DEF Twice, Away, Candidates
<1>2. /\ Cardinality(tw) \in Nat /\ Cardinality(aw) \in Nat
      /\ Cardinality(tw') \in Nat /\ Cardinality(aw') \in Nat
      /\ tw' \subseteq tw => Cardinality(tw') <= Cardinality(tw)
      /\ aw' \subseteq aw => Cardinality(aw') <= Cardinality(aw)
  BY <1>1, Counting
<1>3. /\ ran[a] \in Nat /\ silences \in Nat /\ restarts \in Nat
      /\ ran[a] + ToCome(a) <= 1 + silences + restarts
  BY LimitAssumption DEF TypeOK, ObeyedInv
<1>4. /\ ToCome(a) = Cardinality(tw) + Cardinality(aw) + (IF ca = {} THEN 0 ELSE 1)
      /\ ToCome(a)' = Cardinality(tw') + Cardinality(aw') + (IF ca' = {} THEN 0 ELSE 1)
  BY DEF ToCome
<1> HIDE DEF tw, aw, ca
<1>5. ASSUME ran'[a] = ran[a], UNCHANGED <<silences, restarts>>,
             tw' \subseteq tw, aw' \subseteq aw, ca' \subseteq ca
      PROVE  Goal
  BY <1>2, <1>3, <1>4, <1>5
<1> USE DEF tw, aw, ca, Twice, Away, Candidates, Pending, WillAsk, MayAsk, Close
<1>6. ASSUME NEW b \in Action, Appear(b)
      PROVE  Goal
  BY <1>5, <1>6 DEF Appear
<1>7. ASSUME NEW e \in Engine, NEW b \in Action, ExecuteTable(e, b)
      PROVE  Goal
  BY <1>5, <1>7 DEF ExecuteTable, TypeOK
<1>8. ASSUME NEW r \in requests, TimeOut(r)
      PROVE  Goal
  BY <1>5, <1>8 DEF TimeOut
<1>9. CASE CheckLeaderHeartbeat
  BY <1>5, <1>9, EngineAssumption DEF CheckLeaderHeartbeat
<1>10. ASSUME NEW e \in Engine, HearDriver(e)
       PROVE  Goal
  BY <1>5, <1>10 DEF HearDriver
<1>11. ASSUME NEW e \in Engine, Start(e)
       PROVE  Goal
  BY <1>5, <1>11 DEF Start, TypeOK
<1>12. CASE UNCHANGED vars
  BY <1>5, <1>12 DEF vars
<1>13. ASSUME NEW r \in requests, RequestExecute(r)
       PROVE  Goal
  <2>1. /\ requests' = requests \ {r}
        /\ UNCHANGED <<up, rows, heard, silences, restarts>>
        /\ leader' \in {leader, r.from}
        /\ leader # NoLeader => leader' = leader
        /\ r.from \in Engine /\ r = [from |-> r.from, act |-> r.act]
    BY <1>13 DEF RequestExecute, TypeOK, Request
  <2>2. tw' \subseteq tw /\ aw' \subseteq aw /\ ca' \subseteq ca
    BY <2>1
  <2>3. CASE ran'[a] = ran[a]
    BY <1>5, <2>1, <2>2, <2>3
  <2>4. CASE ran'[a] # ran[a]
    <3> DEFINE e == r.from
    <3>1. /\ r = [from |-> e, act |-> a]
          /\ leader \in {NoLeader, e} /\ leader' = e
          /\ ran'[a] = ran[a] + 1
      BY <1>13, <2>1, <2>4 DEF RequestExecute, TypeOK
    <3>2. e \in Engine /\ e # NoLeader /\ Pending(e, a) /\ ~Pending(e, a)'
      BY <2>1, <3>1, EngineAssumption
    <3> HIDE DEF e
    <3>3. CASE WillAsk(e, a)
      <4>1. e \in tw /\ tw' \subseteq tw \ {e}
        BY <2>2, <3>2, <3>3
      <4>2. Cardinality(tw') <= Cardinality(tw) - 1
        BY ONLY <1>1, <4>1, Counting
      <4> QED
        BY ONLY <1>2, <1>3, <1>4, <2>1, <2>2, <3>1, <4>2 DEF Goal
    <3>4. CASE ~WillAsk(e, a) /\ Close(e)
      <4>1. e \in ca /\ ca' = {}
        BY <2>1, <3>1, <3>2, <3>4
      <4> QED
        BY ONLY <1>2, <1>3, <1>4, <2>1, <2>2, <3>1, <4>1 DEF Goal
    <3>5. CASE ~WillAsk(e, a) /\ ~Close(e)
      <4>1. e \in aw /\ aw' \subseteq aw \ {e}
        BY <2>1, <2>2, <3>2, <3>5
      <4>2. Cardinality(aw') <= Cardinality(aw) - 1
        BY ONLY <1>1, <4>1, Counting
      <4> QED
        BY ONLY <1>2, <1>3, <1>4, <2>1, <2>2, <3>1, <4>2 DEF Goal
    <3> QED
      BY <3>3, <3>4, <3>5
  <2> QED
    BY <2>3, <2>4
<1>14. ASSUME NEW e \in Engine, AcceptHeartbeat(e)
       PROVE  Goal
  <2>1. /\ UNCHANGED <<up, rows, requests, leader, ran, silences, restarts>>
        /\ ~Close(e) /\ Close(e)'
        /\ \A f : f # e => Close(f)' = Close(f)
    BY <1>14 DEF AcceptHeartbeat, TypeOK
  <2>2. tw' \subseteq tw /\ aw' \subseteq aw
    BY <2>1 DEF Twice, Away
  <2>3. CASE MayAsk(e, a)
    <3>1. e \in aw /\ aw' \subseteq aw \ {e}
      BY <2>1, <2>3
    <3>2. Cardinality(aw') <= Cardinality(aw) - 1
      BY ONLY <1>1, <3>1, Counting
    <3> QED
      BY ONLY <1>2, <1>3, <1>4, <2>1, <2>2, <3>2 DEF Goal
  <2>4. CASE ~MayAsk(e, a)
    <3>1. ca' \subseteq ca
      BY <2>1, <2>4
    <3> QED
      BY <1>5, <2>1, <2>2, <3>1
  <2> QED
    BY <2>3, <2>4
<1>15. ASSUME NEW e \in Engine, Silence(e)
       PROVE  Goal
  <2>1. /\ UNCHANGED <<up, rows, requests, leader, ran, restarts>>
        /\ silences' = silences + 1
        /\ Close(e)
        /\ \A f : f # e => Close(f)' = Close(f)
    BY <1>15 DEF Silence, TypeOK
  <2>2. tw' \subseteq tw
    BY <2>1
  <2>3. CASE MayAsk(e, a)
    <3>1. aw' \subseteq aw \cup {e}
      BY <2>1
    <3>2. Cardinality(aw') <= Cardinality(aw) + 1
      BY ONLY <1>1, <3>1, Counting
    <3>3. ca' # {} => ca # {}
      <4>1. CASE leader = e
        BY <2>1, <2>3, <4>1
      <4>2. CASE leader # e
        BY <2>1, <4>2
      <4> QED
        BY <4>1, <4>2
    <3> QED
      BY ONLY <1>2, <1>3, <1>4, <2>1, <2>2, <3>2, <3>3 DEF Goal
  <2>4. CASE ~MayAsk(e, a)
    <3>1. aw' \subseteq aw
      BY <2>1, <2>4
    <3> QED
      BY ONLY <1>2, <1>3, <1>4, <2>1, <2>2, <3>1 DEF Goal
  <2> QED
    BY <2>3, <2>4
<1>16. ASSUME NEW e \in Engine, Crash(e)
       PROVE  Goal
  <2>1. /\ UNCHANGED <<rows, requests, heard, leader, ran, silences>>
        /\ restarts' = restarts + 1
        /\ \A f \in Engine : f # e => up'[f] = up[f]
    BY <1>16 DEF Crash, TypeOK
  <2>2. CASE Pending(e, a)
    <3>1. tw' \subseteq tw \cup {e} /\ aw' \subseteq aw /\ ca' \subseteq ca
      BY <2>1, <2>2
    <3>2. Cardinality(tw') <= Cardinality(tw) + 1
      BY ONLY <1>1, <3>1, Counting
    <3> QED
      BY ONLY <1>2, <1>3, <1>4, <2>1, <3>1, <3>2 DEF Goal
  <2>3. CASE ~Pending(e, a) /\ Close(e)
    <3>1. tw' \subseteq tw /\ aw' \subseteq aw
      BY <2>1, <2>3
    <3> QED
      BY ONLY <1>2, <1>3, <1>4, <2>1, <3>1 DEF Goal
  <2>4. CASE ~Pending(e, a) /\ ~Close(e)
    <3>1. tw' \subseteq tw /\ aw' \subseteq aw \cup {e} /\ ca' \subseteq ca
      BY <2>1, <2>4
    <3>2. Cardinality(aw') <= Cardinality(aw) + 1
      BY ONLY <1>1, <3>1, Counting
    <3> QED
      BY ONLY <1>2, <1>3, <1>4, <2>1, <3>1, <3>2 DEF Goal
  <2> QED
    BY <2>2, <2>3, <2>4
<1>17. CASE RestartDriver
  <2> DEFINE near == {e \in Engine : heard[e] = "fresh"}
  <2>1. /\ UNCHANGED <<up, requests, ran>>
        /\ restarts' = restarts + 1
        /\ silences' = silences + Cardinality(near)
        /\ leader' = NoLeader
        /\ \A e \in Engine : /\ e # DriverNode => rows'[e] = rows[e]
                             /\ heard'[e] = "never"
    BY <1>17 DEF RestartDriver
  <2>2. aw' \subseteq aw \cup near
    BY <2>1
  <2>3. CASE DriverNode \notin Engine \/ ~Pending(DriverNode, a)
    <3>1. tw' \subseteq tw
      BY <2>1, <2>3
    <3>2. Cardinality(near) \in Nat /\ Cardinality(aw') <= Cardinality(aw) + Cardinality(near)
      BY ONLY <1>1, <2>2, near \subseteq Engine, CountingUnion
    <3> QED
      BY ONLY <1>2, <1>3, <1>4, <2>1, <3>1, <3>2 DEF Goal
  <2>4. CASE DriverNode \in Engine /\ Pending(DriverNode, a)
    <3>1. tw' \subseteq tw \cup {DriverNode}
      BY <2>1
    <3>2. Cardinality(tw') <= Cardinality(tw) + 1
      BY ONLY <1>1, <3>1, Counting
    <3>3. CASE ca # {}
      <4>1. Cardinality(near) \in Nat /\ Cardinality(aw') <= Cardinality(aw) + Cardinality(near)
        BY ONLY <1>1, <2>2, near \subseteq Engine, CountingUnion
      <4> HIDE DEF tw, aw, ca, near
      <4> QED
        BY ONLY <1>2, <1>3, <1>4, <2>1, <3>2, <3>3, <4>1 DEF Goal
    <3>4. CASE ca = {}
      <4>1. leader \in near /\ leader # DriverNode /\ ~MayAsk(leader, a)
        BY <2>4, <3>4 DEF TypeOK
      <4> DEFINE rest == near \ {leader}
      <4>2. aw' \subseteq aw \cup rest
        BY <2>1, <2>2, <4>1
      <4>3. Cardinality(rest) <= Cardinality(near) - 1 /\ Cardinality(near) \in Nat
        BY ONLY <4>1, near \subseteq Engine, rest \subseteq near \ {leader}, rest \subseteq Engine, Counting
      <4>4. Cardinality(rest) \in Nat /\ Cardinality(aw') <= Cardinality(aw) + Cardinality(rest)
        BY ONLY <1>1, <4>2, rest \subseteq Engine, CountingUnion
      <4> QED
        BY ONLY <1>2, <1>3, <1>4, <2>1, <3>2, <4>3, <4>4 DEF Goal
    <3> QED
      BY <3>3, <3>4
  <2> QED
    BY <2>3, <2>4
<1> QED
  BY <1>6, <1>7, <1>8, <1>9, <1>10, <1>11, <1>12, <1>13, <1>14, <1>15, <1>16, <1>17
     DEF Next

\* The driver obeys one engine at a time: if the nodes know each other at the
\* start, an action runs once, and once more at most for each loss of contact,
\* crash or restart, for any number of engines (request_execute and
\* _check_leader_heartbeat).
THEOREM OneLeader ==
  ASSUME Acquainted = TRUE
  PROVE  Spec => []OneLeaderObeyed
<1>1. Init => ObeyedInv
  <2> SUFFICES ASSUME Init, NEW a \in Action
               PROVE  ran[a] + ToCome(a) <= 1 + silences + restarts
    BY DEF ObeyedInv
  <2>1. Twice(a) = {} /\ Away(a) = {}
    BY DEF Init, Twice, Away, Pending, Close
  <2> QED
    BY <2>1, FS_EmptySet DEF Init, ToCome
<1>2. TypeOK /\ ObeyedInv /\ [Next]_vars => ObeyedInv'
  BY ObeyedStep
<1>3. TypeOK /\ ObeyedInv => OneLeaderObeyed
  <2> SUFFICES ASSUME TypeOK, ObeyedInv, NEW a \in Action
               PROVE  ran[a] <= 1 + silences + restarts
    BY DEF OneLeaderObeyed
  <2>1. ToCome(a) \in Nat
    <3>1. Twice(a) \subseteq Engine /\ Away(a) \subseteq Engine
      BY DEF Twice, Away
    <3> QED
      BY <3>1, Counting DEF ToCome
  <2> QED
    BY <2>1, LimitAssumption DEF TypeOK, ObeyedInv
<1> QED
  BY <1>1, <1>2, <1>3, TypeCorrect, PTL DEF Spec
=============================================================================
