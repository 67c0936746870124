----------------------------- MODULE PolicySync -----------------------------
(***************************************************************************)
(* Policies and rules in the shared database and in the engines that load  *)
(* them: the persistent_* calls of congress/policy_engines/agnostic.py and *)
(* congress/synchronizer/policy_rule_synchronizer.py over                  *)
(* congress/db/db_policy_rules.py.                                         *)
(*                                                                         *)
(* Every engine node has API threads and one periodic thread.  A thread    *)
(* gives up control only while it waits for a lock, the database or a      *)
(* subscription; what it does in between is one step.  A database read is  *)
(* a step of its own and leaves its result in the thread's task, so it may *)
(* be stale when it is used.                                               *)
(***************************************************************************)
EXTENDS Integers, FiniteSets

CONSTANTS
  Node,         \* nodes with a policy engine
  ApiThread,    \* threads that serve API calls on each node
  Periodic,     \* the thread of the node's PeriodicWorker
  Nobody,       \* a lock that is free
  Name,         \* policy names other than `classification' and `action',
                \* which cannot be deleted
  Datasource,   \* those of them that a datasource has too
  Existing,     \* those of them for which there is a policy at the start
  Rule,         \* rule texts
  Fact,         \* those of them without a body
  Recursive,    \* sets of [pol, rule] that are recursive together
  Op,           \* the API calls clients make
  CallbackErrors, \* whether the callbacks of an insertion may raise
  Replicated,   \* cfg.CONF.replicated_policy_engine
  MaxId,        \* bound on the ids of policies and rules
  MaxRestarts   \* bound on restarts of engine nodes

ASSUME NameAssumption ==
  Name # {} /\ Datasource \subseteq Name /\ Existing \subseteq Name \ Datasource
ASSUME RuleAssumption == Fact \subseteq Rule /\ Rule # {}
ASSUME OpAssumption ==
  Op \subseteq {"create_policy", "delete_policy", "insert_rule", "delete_rule"}
ASSUME ErrorAssumption == CallbackErrors \in BOOLEAN
ASSUME ThreadAssumption == Periodic \notin ApiThread /\ Nobody \notin ApiThread \cup {Periodic} \cup Node
ASSUME SyncBoundAssumption ==
  /\ MaxId \in Nat /\ MaxRestarts \in Nat /\ Replicated \in BOOLEAN
  /\ Cardinality(Existing) \in 0 .. MaxId

VARIABLES
  dbPolicy,   \* table policies: the id of the policy with each name
  dbRule,     \* table policy_rules
  tableLock,  \* the node that has locked table policy_rules
  lastId,     \* the last uuid given out
  theory,     \* each engine's theories
  ruleLock,   \* holder of lock congress_synchronize_rules in each node
  policyLock, \* holder of lock congress_synchronize_policies in each node
  task,       \* what each thread is doing
  restarts,   \* number of restarts so far
  accepted    \* history: rules whose insertion succeeded on a node and that
              \* nobody has asked to delete since

dbVars == <<dbPolicy, dbRule, lastId>>
lockVars == <<tableLock, ruleLock, policyLock>>
vars == <<dbVars, lockVars, theory, task, restarts, accepted>>

Thread == ApiThread \cup {Periodic}
Id == 1 .. MaxId
None == 0           \* no id
DatasourceId == -1  \* marks a datasource's theory, which has no policy id

StoredRule == [id : Id, pol : Name, rule : Rule]

\* A theory's rules have ids, its facts have not.
LoadedRule == [id : Id, rule : Rule \ Fact] \cup [id : {None}, rule : Fact]
Theory == [id : Id \cup {None, DatasourceId}, rules : SUBSET LoadedRule]
Absent == [id |-> None, rules |-> {}]

Step == {"idle", "lock_table", "sync_rules", "sync_one", "sync_one_apply", "check",
         "apply", "write", "delete", "delete_write", "rules", "policies"}
Task == [at : Step, op : Op \cup {"none"}, pol : Name, rule : Rule, id : Id \cup {None},
         seenRules : SUBSET StoredRule, seenPolicy : [Name -> Id \cup {None}]]

SomeName == CHOOSE p \in Name : TRUE
SomeRule == CHOOSE r \in Rule : TRUE
NoPolicies == [p \in Name |-> None]
Idle == [at |-> "idle", op |-> "none", pol |-> SomeName, rule |-> SomeRule, id |-> None,
         seenRules |-> {}, seenPolicy |-> NoPolicies]

\* A policy's name is in the database once, and a theory holds a text once.
TypeOK ==
  /\ dbPolicy \in [Name -> Id \cup {None}]
  /\ dbRule \subseteq StoredRule
  /\ tableLock \in Node \cup {Nobody}
  /\ lastId \in 0 .. MaxId
  /\ theory \in [Node -> [Name -> Theory]]
  /\ \A n \in Node, p \in Name : \A x, y \in theory[n][p].rules : x.rule = y.rule => x = y
  /\ ruleLock \in [Node -> Thread \cup {Nobody}]
  /\ policyLock \in [Node -> Thread \cup {Nobody}]
  /\ task \in [Node -> [Thread -> Task]]
  /\ restarts \in 0 .. MaxRestarts
  /\ accepted \in [Node -> SUBSET StoredRule]

\* What an engine holds before it has loaded anything: the datasources'
\* theories.  They do not come and go here.
FreshTheory ==
  [p \in Name |-> IF p \in Datasource THEN [id |-> DatasourceId, rules |-> {}] ELSE Absent]

Init ==
  /\ \E f \in [Name -> 0 .. Cardinality(Existing)] :
       /\ \A p \in Name : f[p] = None <=> p \notin Existing
       /\ \A p, q \in Existing : f[p] = f[q] => p = q
       /\ dbPolicy = f
       /\ theory = [n \in Node |-> [p \in Name |-> IF p \in Existing
                                      THEN [id |-> f[p], rules |-> {}] ELSE FreshTheory[p]]]
  /\ dbRule = {}
  /\ tableLock = Nobody
  /\ lastId = Cardinality(Existing)
  /\ ruleLock = [n \in Node |-> Nobody]
  /\ policyLock = [n \in Node |-> Nobody]
  /\ task = [n \in Node |-> [t \in Thread |-> Idle]]
  /\ restarts = 0
  /\ accepted = [n \in Node |-> {}]

----------------------------------------------------------------------------
(***************************************************************************)
(* The engine: Runtime.update and the theories it changes.                 *)
(***************************************************************************)
Exists(n, p) == theory[n][p].id # None
HasText(th, r) == \E x \in th.rules : x.rule = r

\* Mutant: a fact keeps the id it is stored under.
LoadedWithId(x) == [id |-> x.id, rule |-> x.rule]

\* A stored rule as the engine knows it.
Loaded(x) == [id |-> IF x.rule \in Fact THEN None ELSE x.id, rule |-> x.rule]

\* The rules of an engine's policies, by policy.
Active(n) ==
  UNION { { [id |-> x.id, pol |-> p, rule |-> x.rule] : x \in theory[n][p].rules }
            : p \in {q \in Name : theory[n][q].id \in Id} }

Texts(X) == { [pol |-> x.pol, rule |-> x.rule] : x \in X }

Change(i, p, r) == [id |-> i, pol |-> p, rule |-> r]

\* The theory after insertions, then deletions, by text; `first' gives the id
\* of the first of the insertions of each text.
Updated(th, first, del) ==
  [th EXCEPT !.rules =
     { x \in th.rules \cup { [id |-> first[r], rule |-> r] : r \in {q \in DOMAIN first : ~HasText(th, q)} }
         : x.rule \notin { d.rule : d \in del } }]

\* Runtime.update: events that change nothing are left out; an unknown policy
\* or a set of rules that would be recursive refuses the whole batch.  The
\* rest is applied to EVERY theory that one of the events is for.
Actual(n, ins, del) ==
  [ins |-> { e \in ins : ~HasText(theory[n][e.pol], e.rule) },
   del |-> { e \in del : HasText(theory[n][e.pol], e.rule) }]

Permitted(n, ins, del) ==
  LET a == Actual(n, ins, del)
      after == (Texts(Active(n)) \ Texts(a.del)) \cup Texts(a.ins)
  IN /\ \A e \in ins \cup del : Exists(n, e.pol)
     /\ \A C \in Recursive : ~(C \subseteq after)

Update(n, ins, del) ==
  LET a == Actual(n, ins, del)
      texts == { e.rule : e \in a.ins }
      targets == { e.pol : e \in a.ins \cup a.del }
  IN \E first \in [texts -> { e.id : e \in a.ins }] :
       /\ \A r \in texts : \E e \in a.ins : e.rule = r /\ e.id = first[r]
       /\ theory' = [theory EXCEPT ![n] = [p \in Name |->
                       IF p \in targets THEN Updated(theory[n][p], first, a.del)
                                        ELSE theory[n][p]]]

UpdateIfPermitted(n, ins, del) ==
  \/ Permitted(n, ins, del) /\ Update(n, ins, del)
  \/ ~Permitted(n, ins, del) /\ UNCHANGED theory

\* Mutant: what is no longer stored is not removed.
SynchronizeRulesOnlyAdds(n, stored) ==
  LET configured == { [id |-> Loaded(x).id, pol |-> x.pol, rule |-> x.rule] : x \in stored }
  IN UpdateIfPermitted(n, configured \ Active(n), {})

\* synchronize_rules_nonlocking, with what it read from the database: insert
\* what is not loaded (with this id) and delete what is loaded and not stored.
SynchronizeRules(n, stored) ==
  LET configured == { [id |-> Loaded(x).id, pol |-> x.pol, rule |-> x.rule] : x \in stored }
  IN UpdateIfPermitted(n, configured \ Active(n), Active(n) \ configured)

\* synchronize_all_policies: theories that are not stored are deleted, then
\* missing ones are created; a name that a datasource has raises a KeyError,
\* which ends the pass where it is.
SynchronizePolicies(n, stored) ==
  LET stale == { p \in Name : theory[n][p].id \in Id /\ theory[n][p].id # stored[p] }
      missing == { p \in Name : stored[p] # None /\ theory[n][p].id # stored[p] }
  IN \E made \in SUBSET (missing \ Datasource) :
       /\ missing \cap Datasource = {} => made = missing
       /\ theory' = [theory EXCEPT ![n] = [p \in Name |->
                       IF p \in made THEN [id |-> stored[p], rules |-> {}]
                       ELSE IF p \in stale THEN Absent ELSE theory[n][p]]]

\* sync_one_policy: a datasource of that name takes precedence.
SyncOnePolicy(n, p, id) ==
  theory' = IF p \in Datasource \/ theory[n][p].id = id THEN theory
            ELSE [theory EXCEPT ![n][p] = [id |-> id, rules |-> {}]]

----------------------------------------------------------------------------
(***************************************************************************)
(* API calls.                                                              *)
(***************************************************************************)
Go(n, t, step) == task' = [task EXCEPT ![n][t].at = step]
Done(n, t) == task' = [task EXCEPT ![n][t] = Idle]
Fresh == lastId + 1

\* persistent_create_policy, up to the database's answer; a name that is taken
\* is refused by the database.
CreatePolicy(n, t, p) ==
  /\ task[n][t].at = "idle"
  /\ Fresh \in Id
  /\ dbPolicy[p] = None
  /\ dbPolicy' = [dbPolicy EXCEPT ![p] = Fresh]
  /\ lastId' = Fresh
  /\ task' = [task EXCEPT ![n][t] = [Idle EXCEPT !.at = "sync_one", !.op = "create_policy", !.pol = p]]
  /\ UNCHANGED <<dbRule, lockVars, theory, restarts, accepted>>

\* persistent_delete_policy, up to the end of the transaction that deletes the
\* policy and the rules stored under its name.
DeletePolicy(n, t, p) ==
  /\ task[n][t].at = "idle"
  /\ dbPolicy[p] # None
  /\ tableLock = Nobody
  /\ dbPolicy' = [dbPolicy EXCEPT ![p] = None]
  /\ dbRule' = { x \in dbRule : x.pol # p }
  /\ accepted' = [m \in Node |-> { x \in accepted[m] : x.pol # p }]
  /\ task' = [task EXCEPT ![n][t] = [Idle EXCEPT !.at = "sync_one", !.op = "delete_policy", !.pol = p]]
  /\ UNCHANGED <<lastId, lockVars, theory, restarts>>

\* Mutant: the rules lock is not taken.
InsertRuleNoLock(n, t, p, r) ==
  /\ task[n][t].at = "idle"
  /\ Fresh \in Id
  /\ lastId' = Fresh
  /\ task' = [task EXCEPT ![n][t] =
                [Idle EXCEPT !.at = IF Replicated THEN "lock_table" ELSE "sync_one",
                             !.op = "insert_rule", !.pol = p, !.rule = r, !.id = Fresh]]
  /\ UNCHANGED <<dbPolicy, dbRule, lockVars, theory, restarts, accepted>>

\* persistent_insert_rule takes the rules lock of its node.
InsertRule(n, t, p, r) ==
  /\ task[n][t].at = "idle"
  /\ Fresh \in Id
  /\ ruleLock[n] = Nobody
  /\ ruleLock' = [ruleLock EXCEPT ![n] = t]
  /\ lastId' = Fresh
  /\ task' = [task EXCEPT ![n][t] =
                [Idle EXCEPT !.at = IF Replicated THEN "lock_table" ELSE "sync_one",
                             !.op = "insert_rule", !.pol = p, !.rule = r, !.id = Fresh]]
  /\ UNCHANGED <<dbPolicy, dbRule, tableLock, policyLock, theory, restarts, accepted>>

\* With replicated engines: lock the table and read it ...
LockTable(n, t) ==
  /\ task[n][t].at = "lock_table"
  /\ tableLock = Nobody
  /\ tableLock' = n
  /\ task' = [task EXCEPT ![n][t].at = "sync_rules", ![n][t].seenRules = dbRule]
  /\ UNCHANGED <<dbVars, ruleLock, policyLock, theory, restarts, accepted>>

\* Mutant: the engine is not brought up to date.
SyncBeforeInsertSkipped(n, t) ==
  /\ task[n][t].at = "sync_rules"
  /\ task' = [task EXCEPT ![n][t].at = "sync_one", ![n][t].seenRules = {}]
  /\ UNCHANGED <<dbVars, lockVars, theory, restarts, accepted>>

\* ... and bring the engine up to date before the rule is checked against it.
SyncBeforeInsert(n, t) ==
  /\ task[n][t].at = "sync_rules"
  /\ SynchronizeRules(n, task[n][t].seenRules)
  /\ task' = [task EXCEPT ![n][t].at = "sync_one", ![n][t].seenRules = {}]
  /\ UNCHANGED <<dbVars, lockVars, restarts, accepted>>

\* Mutant: the policy is read without the lock.
SyncOneReadNoLock(n, t) ==
  /\ task[n][t].at = "sync_one"
  /\ task' = [task EXCEPT ![n][t].at = "sync_one_apply", ![n][t].seenPolicy = dbPolicy]
  /\ UNCHANGED <<dbVars, lockVars, theory, restarts, accepted>>

\* sync_one_policy takes the policies lock and reads the policy.
SyncOneRead(n, t) ==
  /\ task[n][t].at = "sync_one"
  /\ policyLock[n] = Nobody
  /\ policyLock' = [policyLock EXCEPT ![n] = t]
  /\ task' = [task EXCEPT ![n][t].at = "sync_one_apply", ![n][t].seenPolicy = dbPolicy]
  /\ UNCHANGED <<dbVars, tableLock, ruleLock, theory, restarts, accepted>>

SyncOneApply(n, t) ==
  LET k == task[n][t] IN
  /\ k.at = "sync_one_apply"
  /\ SyncOnePolicy(n, k.pol, k.seenPolicy[k.pol])
  /\ policyLock' = [policyLock EXCEPT ![n] = Nobody]
  /\ IF k.op = "insert_rule" THEN Go(n, t, "check") ELSE Done(n, t)
  /\ UNCHANGED <<dbVars, tableLock, ruleLock, restarts, accepted>>

\* The list of policies is read to refuse rules for policies that are not
\* stored.
CheckPolicy(n, t) ==
  /\ task[n][t].at = "check"
  /\ task' = [task EXCEPT ![n][t].at = "apply", ![n][t].seenPolicy = dbPolicy]
  /\ UNCHANGED <<dbVars, lockVars, theory, restarts, accepted>>

\* The end of persistent_insert_rule: its `finally' and its lock.
FinishInsert(n, t) ==
  /\ Done(n, t)
  /\ ruleLock' = [ruleLock EXCEPT ![n] = Nobody]
  /\ tableLock' = IF tableLock = n THEN Nobody ELSE tableLock
  /\ UNCHANGED policyLock

\* The rule goes into the engine first; one that is refused or already there
\* is an error.
ApplyInsert(n, t) ==
  LET k == task[n][t]
      ins == {Change(Loaded([id |-> k.id, rule |-> k.rule]).id, k.pol, k.rule)}
      possible == /\ k.seenPolicy[k.pol] # None
                  /\ Exists(n, k.pol)
                  /\ Permitted(n, ins, {})
                  /\ Actual(n, ins, {}).ins # {}
  IN /\ k.at = "apply"
     /\ \/ possible /\ Update(n, ins, {}) /\ Go(n, t, "write") /\ UNCHANGED lockVars
        \/ ~possible /\ FinishInsert(n, t) /\ UNCHANGED theory
     /\ UNCHANGED <<dbVars, restarts, accepted>>

\* Then it is stored and committed.
WriteRule(n, t) ==
  LET k == task[n][t]
      x == [id |-> k.id, pol |-> k.pol, rule |-> k.rule]
  IN /\ k.at = "write"
     /\ dbRule' = dbRule \cup {x}
     /\ accepted' = [accepted EXCEPT ![n] = @ \cup {x}]
     /\ FinishInsert(n, t)
     /\ UNCHANGED <<dbPolicy, lastId, theory, restarts>>

\* The database fails: the rule is taken out of the engine again.
WriteFails(n, t) ==
  LET k == task[n][t] IN
  /\ k.at = "write"
  /\ UpdateIfPermitted(n, {}, {Change(k.id, k.pol, k.rule)})
  /\ FinishInsert(n, t)
  /\ UNCHANGED <<dbVars, restarts, accepted>>

\* A trigger's callback or a subscription raises after the engine has taken the rule:
\* it is not stored, and stays in the engine until the engine is synchronized.
InsertRaises(n, t) ==
  /\ CallbackErrors
  /\ task[n][t].at = "write"
  /\ FinishInsert(n, t)
  /\ UNCHANGED <<dbVars, theory, restarts, accepted>>

\* persistent_delete_rule reads the rule, without any lock ...
DeleteRule(n, t, x) ==
  /\ task[n][t].at = "idle"
  /\ Exists(n, x.pol)
  /\ accepted' = [m \in Node |-> accepted[m] \ {x}]
  /\ task' = [task EXCEPT ![n][t] = [Idle EXCEPT !.at = "delete", !.op = "delete_rule",
                                       !.pol = x.pol, !.rule = x.rule, !.id = x.id]]
  /\ UNCHANGED <<dbVars, lockVars, theory, restarts>>

\* ... deletes it from the engine, unless its policy has gone ...
DeleteApply(n, t) ==
  LET k == task[n][t] IN
  /\ k.at = "delete"
  /\ \/ /\ Exists(n, k.pol)
        /\ Update(n, {}, {Change(k.id, k.pol, k.rule)})
        /\ Go(n, t, "delete_write")
     \/ ~Exists(n, k.pol) /\ Done(n, t) /\ UNCHANGED theory
  /\ UNCHANGED <<dbVars, lockVars, restarts, accepted>>

\* ... and then from the database.
DeleteWrite(n, t) ==
  /\ task[n][t].at = "delete_write"
  /\ tableLock = Nobody
  /\ dbRule' = { x \in dbRule : x.id # task[n][t].id }
  /\ Done(n, t)
  /\ UNCHANGED <<dbPolicy, lastId, lockVars, theory, restarts, accepted>>

----------------------------------------------------------------------------
(***************************************************************************)
(* The periodic tasks, and restarts.                                       *)
(***************************************************************************)
StartSyncRules(n) ==
  /\ task[n][Periodic].at = "idle"
  /\ ruleLock[n] = Nobody
  /\ ruleLock' = [ruleLock EXCEPT ![n] = Periodic]
  /\ task' = [task EXCEPT ![n][Periodic].at = "rules", ![n][Periodic].seenRules = dbRule]
  /\ UNCHANGED <<dbVars, tableLock, policyLock, theory, restarts, accepted>>

SyncRules(n) ==
  /\ task[n][Periodic].at = "rules"
  /\ SynchronizeRules(n, task[n][Periodic].seenRules)
  /\ ruleLock' = [ruleLock EXCEPT ![n] = Nobody]
  /\ Done(n, Periodic)
  /\ UNCHANGED <<dbVars, tableLock, policyLock, restarts, accepted>>

StartSyncPolicies(n) ==
  /\ task[n][Periodic].at = "idle"
  /\ policyLock[n] = Nobody
  /\ policyLock' = [policyLock EXCEPT ![n] = Periodic]
  /\ task' = [task EXCEPT ![n][Periodic].at = "policies", ![n][Periodic].seenPolicy = dbPolicy]
  /\ UNCHANGED <<dbVars, tableLock, ruleLock, theory, restarts, accepted>>

SyncPolicies(n) ==
  /\ task[n][Periodic].at = "policies"
  /\ SynchronizePolicies(n, task[n][Periodic].seenPolicy)
  /\ policyLock' = [policyLock EXCEPT ![n] = Nobody]
  /\ Done(n, Periodic)
  /\ UNCHANGED <<dbVars, tableLock, ruleLock, restarts, accepted>>

\* An engine's process is replaced: its theories, locks and calls in progress
\* are gone, and the database gives up its session's lock.
Restart(n) ==
  /\ restarts < MaxRestarts
  /\ restarts' = restarts + 1
  /\ theory' = [theory EXCEPT ![n] = FreshTheory]
  /\ task' = [task EXCEPT ![n] = [t \in Thread |-> Idle]]
  /\ ruleLock' = [ruleLock EXCEPT ![n] = Nobody]
  /\ policyLock' = [policyLock EXCEPT ![n] = Nobody]
  /\ tableLock' = IF tableLock = n THEN Nobody ELSE tableLock
  /\ accepted' = [accepted EXCEPT ![n] = {}]
  /\ UNCHANGED dbVars

----------------------------------------------------------------------------
Request(n, t) ==
  \/ "create_policy" \in Op /\ \E p \in Name : CreatePolicy(n, t, p)
  \/ "delete_policy" \in Op /\ \E p \in Name : DeletePolicy(n, t, p)
  \/ "insert_rule" \in Op /\ \E p \in Name, r \in Rule : InsertRule(n, t, p, r)
  \/ "delete_rule" \in Op /\ \E x \in dbRule : DeleteRule(n, t, x)

Continue(n, t) ==
  \/ LockTable(n, t) \/ SyncBeforeInsert(n, t)
  \/ SyncOneRead(n, t) \/ SyncOneApply(n, t)
  \/ CheckPolicy(n, t) \/ ApplyInsert(n, t) \/ WriteRule(n, t) \/ WriteFails(n, t)
  \/ InsertRaises(n, t)
  \/ DeleteApply(n, t) \/ DeleteWrite(n, t)

Next ==
  \E n \in Node :
    \/ \E t \in ApiThread : Request(n, t) \/ Continue(n, t)
    \/ StartSyncRules(n) \/ SyncRules(n) \/ StartSyncPolicies(n) \/ SyncPolicies(n)
    \/ Restart(n)

Spec == Init /\ [][Next]_vars

(***************************************************************************)
(* Calls that have started go on.  The PeriodicWorker runs one callable at *)
(* a time and each of them again when its period is over, so neither keeps *)
(* the other away, and a thread waiting for a lock gets it.                *)
(***************************************************************************)
Fairness ==
  \A n \in Node :
    /\ \A t \in ApiThread : SF_vars(Continue(n, t))
    /\ SF_vars(StartSyncRules(n)) /\ WF_vars(SyncRules(n))
    /\ SF_vars(StartSyncPolicies(n)) /\ WF_vars(SyncPolicies(n))

FairSpec == Spec /\ Fairness

----------------------------------------------------------------------------
(***************************************************************************)
(* Properties.                                                             *)
(***************************************************************************)

\* A rule whose insertion succeeded stays stored, and stays in the engine that
\* inserted it, until somebody deletes it or its policy: no synchronization
\* with an older state of the database takes it away.
AcceptedStays ==
  \A n \in Node : \A x \in accepted[n] :
    x \in dbRule /\ Loaded(x) \in theory[n][x.pol].rules

\* Where there is one engine: when no call that creates or deletes a policy is
\* in progress the engine has exactly the stored policies, whatever stale
\* reads the calls and the periodic task have acted on.
PoliciesMatch ==
  \A n \in Node :
    (\A t \in ApiThread : task[n][t].op \notin {"create_policy", "delete_policy"})
      => \A p \in Name \ Datasource : theory[n][p].id = dbPolicy[p]

\* However many engines insert rules at once, those stored are never
\* recursive together ("lock policy_rules table to prevent conflicting rules
\* insertion (say causing unsupported recursion)").
NeverRecursive ==
  \A C \in Recursive : ~(C \subseteq Texts(dbRule))

\* An engine holds the policies and the rules that are stored.
InSync(n) ==
  /\ \A p \in Name : dbPolicy[p] # None => theory[n][p].id = dbPolicy[p]
  /\ Texts(Active(n)) = Texts(dbRule)

\* Once the database stops changing every engine ends up with what is stored,
\* whatever calls, failures and restarts came before (eventual consistency).
EventuallyInSync == <>[](\A n \in Node : InSync(n))

\* Deleting a policy deletes its rules: no rule is stored for a policy that
\* does not exist.
RulesHavePolicies == \A x \in dbRule : dbPolicy[x.pol] # None
=============================================================================
