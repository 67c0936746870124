--------------------------- MODULE ActionExecution ---------------------------
(***************************************************************************)
(* Reactive enforcement with replicated engines: every engine that finds a *)
(* new row in a table it must execute asks the datasource driver to        *)
(* execute the action, and the driver obeys one engine, its local leader   *)
(* (congress/policy_engines/agnostic.py _execute_table, execute_action and *)
(* _rpc; ExecutionDriver in congress/datasources/datasource_driver.py;     *)
(* heartbeats in congress/dse2/control_bus.py).                            *)
(*                                                                         *)
(* An action stands for one row that appears once and stays.               *)
(***************************************************************************)
EXTENDS Naturals, FiniteSets

CONSTANTS
  Engine,       \* nodes with a policy engine
  DriverNode,   \* the node of the driver; it may be one of Engine
  NoLeader,     \* _leader_node_id is None
  Action,       \* rows of execute[...] tables
  Acquainted,   \* TRUE: the nodes have heard of each other at the start
  Retry,        \* cfg.CONF.dse.execute_action_retry
  Unsteady,     \* TRUE: heartbeats of a running node may stay away
  MaxLosses,    \* bound on requests that get lost
  MaxSilences,  \* bound on losses of contact with a node that is running
  MaxRestarts   \* bound on crashes and restarts

ASSUME EngineAssumption == IsFiniteSet(Engine) /\ NoLeader \notin Engine
ASSUME SwitchAssumption == {Acquainted, Retry, Unsteady} \subseteq BOOLEAN
ASSUME LimitAssumption == {MaxLosses, MaxSilences, MaxRestarts} \subseteq Nat

VARIABLES
  needed,     \* actions whose row is in the data
  up,         \* the engine's node is running
  rows,       \* the rows each engine's trigger has seen
  requests,   \* request_execute calls on their way
  knows,      \* the engine's node has the driver in its directory
  heard,      \* what the driver's node knows of each peer's heartbeat
  leader,     \* _leader_node_id
  ran,        \* history: how often each action was executed
  silences,   \* history: how often the driver's node lost contact with a peer
  restarts,   \* number of crashes and driver restarts so far
  losses      \* number of requests lost so far

vars == <<needed, up, rows, requests, knows, heard, leader, ran, silences, restarts, losses>>

Request == [from : Engine, act : Action]

TypeOK ==
  /\ needed \subseteq Action
  /\ up \in [Engine -> BOOLEAN]
  /\ rows \in [Engine -> SUBSET needed]
  /\ requests \subseteq Request
  /\ knows \in [Engine -> BOOLEAN]
  /\ heard \in [Engine -> {"never", "fresh", "old"}]
  /\ leader \in Engine \cup {NoLeader}
  /\ ran \in [Action -> Nat]
  /\ silences \in Nat
  /\ restarts \in 0 .. MaxRestarts
  /\ losses \in 0 .. MaxLosses

\* A node never hears itself (drop_cast_echos).
Init ==
  /\ needed = {}
  /\ up = [e \in Engine |-> TRUE]
  /\ rows = [e \in Engine |-> {}]
  /\ requests = {}
  /\ knows = [e \in Engine |-> Acquainted]
  /\ heard = [e \in Engine |-> IF Acquainted /\ e # DriverNode THEN "fresh" ELSE "never"]
  /\ leader = NoLeader
  /\ ran = [a \in Action |-> 0]
  /\ silences = 0
  /\ restarts = 0
  /\ losses = 0

----------------------------------------------------------------------------
(***************************************************************************)
(* The engines.                                                            *)
(***************************************************************************)
Appear(a) ==
  /\ a \notin needed
  /\ needed' = needed \cup {a}
  /\ UNCHANGED <<up, rows, requests, knows, heard, leader, ran, silences, restarts, losses>>

\* is_valid_service: a local service, or one of a peer that sent a heartbeat.
ServiceExists(e) == e = DriverNode \/ knows[e]

\* The trigger's _execute_table: every row that is new is executed.  A driver
\* that is not in the directory is logged and the row is not new again.
ExecuteTable(e, a) ==
  /\ up[e]
  /\ a \in needed \ rows[e]
  /\ rows' = [rows EXCEPT ![e] = @ \cup {a}]
  /\ requests' = IF ServiceExists(e) THEN requests \cup {[from |-> e, act |-> a]} ELSE requests
  /\ UNCHANGED <<needed, up, knows, heard, leader, ran, silences, restarts, losses>>

\* invoke_service_rpc tells the caller of a request without answer with a
\* NotFound, whatever the messaging library raised.
Raised(exc) ==
  IF exc \in {"MessagingTimeout", "MessageDeliveryFailure"} THEN "NotFound" ELSE exc

\* execute_retry goes on after the errors it catches; execute_once never does.
Retries(exc) == Retry /\ exc \in {"MessagingTimeout", "MessageDeliveryFailure"}

\* A request is lost on its way and times out.
TimeOut(r) ==
  /\ losses < MaxLosses
  /\ r \in requests
  /\ losses' = losses + 1
  /\ requests' = IF up[r.from] /\ Retries(Raised("MessagingTimeout")) THEN requests
                 ELSE requests \ {r}
  /\ UNCHANGED <<needed, up, rows, knows, heard, leader, ran, silences, restarts>>

----------------------------------------------------------------------------
(***************************************************************************)
(* The driver.                                                             *)
(***************************************************************************)

\* Mutant: whoever asks is obeyed.
RequestExecuteAnyone(r) ==
  /\ r \in requests
  /\ requests' = requests \ {r}
  /\ leader' = IF leader = NoLeader THEN r.from ELSE leader
  /\ ran' = [ran EXCEPT ![r.act] = @ + 1]
  /\ UNCHANGED <<needed, up, rows, knows, heard, silences, restarts, losses>>

\* Mutant: the request that makes an engine the leader is not executed.
RequestExecuteElectOnly(r) ==
  /\ r \in requests
  /\ requests' = requests \ {r}
  /\ leader' = IF leader = NoLeader THEN r.from ELSE leader
  /\ ran' = IF leader = r.from THEN [ran EXCEPT ![r.act] = @ + 1] ELSE ran
  /\ UNCHANGED <<needed, up, rows, knows, heard, silences, restarts, losses>>

\* request_execute: the leader is obeyed, the first to ask becomes leader, and
\* anyone else gets an answer as if the action had been executed.
RequestExecute(r) ==
  /\ r \in requests
  /\ requests' = requests \ {r}
  /\ \/ /\ leader \in {NoLeader, r.from}
        /\ leader' = r.from
        /\ ran' = [ran EXCEPT ![r.act] = @ + 1]
     \/ /\ leader \notin {NoLeader, r.from}
        /\ UNCHANGED <<leader, ran>>
  /\ UNCHANGED <<needed, up, rows, knows, heard, silences, restarts, losses>>

\* Mutant: only a leader that is not in the directory is given up.
CheckLeaderHeartbeatNoAge ==
  /\ leader \notin {NoLeader, DriverNode}
  /\ heard[leader] = "never"
  /\ leader' = NoLeader
  /\ UNCHANGED <<needed, up, rows, requests, knows, heard, ran, silences, restarts, losses>>

\* Mutant: without a leader the driver turns to its own node.
CheckLeaderHeartbeatLocal ==
  /\ leader \notin {NoLeader, DriverNode}
  /\ heard[leader] # "fresh"
  /\ leader' = DriverNode
  /\ UNCHANGED <<needed, up, rows, requests, knows, heard, ran, silences, restarts, losses>>

\* _check_leader_heartbeat, in every turn of the heartbeat loop.
CheckLeaderHeartbeat ==
  /\ leader \notin {NoLeader, DriverNode}
  /\ heard[leader] # "fresh"
  /\ leader' = NoLeader
  /\ UNCHANGED <<needed, up, rows, requests, knows, heard, ran, silences, restarts, losses>>

----------------------------------------------------------------------------
(***************************************************************************)
(* Heartbeats, crashes and restarts.                                       *)
(***************************************************************************)

\* accept_heartbeat on the driver's node.
AcceptHeartbeat(e) ==
  /\ up[e]
  /\ e # DriverNode
  /\ heard[e] # "fresh"
  /\ heard' = [heard EXCEPT ![e] = "fresh"]
  /\ UNCHANGED <<needed, up, rows, requests, knows, leader, ran, silences, restarts, losses>>

\* accept_heartbeat on an engine's node, of the driver's.
HearDriver(e) ==
  /\ up[e]
  /\ ~knows[e]
  /\ knows' = [knows EXCEPT ![e] = TRUE]
  /\ UNCHANGED <<needed, up, rows, requests, heard, leader, ran, silences, restarts, losses>>

\* LEADER_TIMEOUT passes without a heartbeat.
Silence(e) ==
  /\ heard[e] = "fresh"
  /\ ~up[e] \/ (Unsteady /\ silences < MaxSilences)
  /\ heard' = [heard EXCEPT ![e] = "old"]
  /\ silences' = silences + 1
  /\ UNCHANGED <<needed, up, rows, requests, knows, leader, ran, restarts, losses>>

Crash(e) ==
  /\ up[e]
  /\ e # DriverNode
  /\ restarts < MaxRestarts
  /\ restarts' = restarts + 1
  /\ up' = [up EXCEPT ![e] = FALSE]
  /\ UNCHANGED <<needed, rows, requests, knows, heard, leader, ran, silences, losses>>

\* A new process has empty tables and an empty directory: once it has loaded
\* its rules and data, every row is new to it.
Start(e) ==
  /\ ~up[e]
  /\ up' = [up EXCEPT ![e] = TRUE]
  /\ rows' = [rows EXCEPT ![e] = {}]
  /\ knows' = [knows EXCEPT ![e] = FALSE]
  /\ UNCHANGED <<needed, requests, heard, leader, ran, silences, restarts, losses>>

\* The driver's node is restarted, with the engine on it if there is one; it
\* loses contact with all its peers.
RestartDriver ==
  /\ restarts < MaxRestarts
  /\ restarts' = restarts + 1
  /\ leader' = NoLeader
  /\ heard' = [e \in Engine |-> "never"]
  /\ silences' = silences + Cardinality({e \in Engine : heard[e] = "fresh"})
  /\ rows' = [e \in Engine |-> IF e = DriverNode THEN {} ELSE rows[e]]
  /\ UNCHANGED <<needed, up, requests, knows, ran, losses>>

----------------------------------------------------------------------------
Next ==
  \/ \E a \in Action : Appear(a)
  \/ \E e \in Engine, a \in Action : ExecuteTable(e, a)
  \/ \E r \in requests : RequestExecute(r) \/ TimeOut(r)
  \/ CheckLeaderHeartbeat
  \/ RestartDriver
  \/ \E e \in Engine :
       AcceptHeartbeat(e) \/ HearDriver(e) \/ Silence(e) \/ Crash(e) \/ Start(e)

Spec == Init /\ [][Next]_vars

(***************************************************************************)
(* Data reaches every running engine, requests that are not lost are       *)
(* served, heartbeats are sent and checked every second, and silence is    *)
(* noticed.  Nothing makes a crashed node come back.                       *)
(***************************************************************************)
Fairness ==
  /\ \A e \in Engine, a \in Action :
       /\ WF_vars(ExecuteTable(e, a))
       /\ WF_vars(RequestExecute([from |-> e, act |-> a]))
  /\ \A e \in Engine : /\ WF_vars(AcceptHeartbeat(e))
                       /\ WF_vars(HearDriver(e))
                       /\ WF_vars(~up[e] /\ Silence(e))
  /\ WF_vars(CheckLeaderHeartbeat)

FairSpec == Spec /\ Fairness

----------------------------------------------------------------------------
(***************************************************************************)
(* Properties.                                                             *)
(***************************************************************************)

\* However many engines ask for it, an action is executed once, and once more
\* at most for every loss of contact with a peer, crash or restart:
\* request_execute obeys one engine at a time and each engine asks once.
OneLeaderObeyed == \A a \in Action : ran[a] <= 1 + silences + restarts

\* A leader that has crashed is given up (_check_leader_heartbeat), also if a
\* late request of it makes it leader again.
DeadLeaderVacated ==
  \A e \in Engine : (leader = e /\ ~up[e]) ~> (leader # e \/ up[e])

\* Something went wrong that may cost an action.  A lost request need not,
\* with retries.
Disturbed == silences > 0 \/ restarts > 0 \/ (losses > 0 /\ ~Retry)

\* Every action that a rule calls for is executed in the end, although all
\* requests but the leader's are ignored, unless a request or a heartbeat is
\* lost or a process restarts.
EveryActionRuns == \A a \in Action : a \in needed ~> (ran[a] > 0 \/ Disturbed)
=============================================================================
