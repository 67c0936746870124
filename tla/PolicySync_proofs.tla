-------------------------- MODULE PolicySync_proofs --------------------------
(***************************************************************************)
(* Proofs about PolicySync: type correctness; that one engine's policies   *)
(* are the stored ones whenever no call that creates or deletes a policy   *)
(* is in progress; and that engines which insert rules at once never store *)
(* recursive ones and lose none that they accepted.                        *)
(***************************************************************************)
EXTENDS PolicySync, TLAPS

(***************************************************************************)
(* Theories.                                                               *)
(***************************************************************************)
TheoryType == theory \in [Node -> [Name -> Theory]]

\* A theory holds a text once, under one id.
TextsOnce ==
  \A n \in Node, p \in Name : \A x, y \in theory[n][p].rules : x.rule = y.rule => x = y

\* Events that insert rules in the form the engine keeps them.
Loadable(ins) ==
  \A e \in ins : [id |-> e.id, rule |-> e.rule] \in LoadedRule

\* Runtime.update keeps theories well-formed: it neither loads a text twice
\* nor changes a theory's id.
LEMMA UpdateKeeps ==
  ASSUME TheoryType, TextsOnce, NEW n \in Node, NEW ins, NEW del, Loadable(ins),
         Update(n, ins, del)
  PROVE  /\ TheoryType' /\ TextsOnce'
         /\ \A m \in Node, p \in Name : theory'[m][p].id = theory[m][p].id
<1> DEFINE a == Actual(n, ins, del)
           texts == {e.rule : e \in a.ins}
           targets == {e.pol : e \in a.ins \cup a.del}
<1>1. PICK first \in [texts -> {e.id : e \in a.ins}] :
        /\ \A r \in texts : \E e \in a.ins : e.rule = r /\ e.id = first[r]
        /\ theory' = [theory EXCEPT ![n] = [p \in Name |->
                        IF p \in targets THEN Updated(theory[n][p], first, a.del)
                                         ELSE theory[n][p]]]
  BY DEF Update
<1>2. a.ins \subseteq ins
  BY DEF Actual
<1>3. \A r \in texts : [id |-> first[r], rule |-> r] \in LoadedRule
  BY <1>1, <1>2 DEF Loadable
<1>4. DOMAIN first = texts
  BY <1>1
<1> HIDE DEF a, texts, targets
<1>5. ASSUME NEW p \in Name
      PROVE  LET th == theory[n][p]
                 u == Updated(th, first, a.del)
             IN /\ u \in Theory /\ u.id = th.id
                /\ \A x, y \in u.rules : x.rule = y.rule => x = y
  <2> DEFINE th == theory[n][p]
             new == {[id |-> first[r], rule |-> r] : r \in {q \in DOMAIN first : ~HasText(th, q)}}
             kept == {x \in th.rules \cup new : x.rule \notin {d.rule : d \in a.del}}
             u == Updated(th, first, a.del)
  <2>1. th \in Theory
    BY DEF TheoryType
  <2>2. u = [th EXCEPT !.rules = kept]
    BY DEF Updated
  <2>3. new \subseteq LoadedRule /\ th.rules \subseteq LoadedRule
    BY <1>3, <1>4, <2>1 DEF Theory
  <2>4. \A x, y \in th.rules : x.rule = y.rule => x = y
    BY DEF TextsOnce
  <2>5. \A x, y \in new : x.rule = y.rule => x = y
    OBVIOUS
  <2>6. \A x \in th.rules, y \in new : x.rule # y.rule
    BY DEF HasText
  <2>7. u \in Theory /\ u.id = th.id /\ u.rules = kept
    <3> HIDE DEF new, th, u
    <3>1. kept \subseteq LoadedRule
      BY <2>3
    <3> HIDE DEF kept
    <3> QED
      BY <2>1, <2>2, <3>1 DEF Theory
  <2>8. \A x, y \in kept : x.rule = y.rule => x = y
    <3> HIDE DEF new, th
    <3> QED
      BY <2>4, <2>5, <2>6
  <2> HIDE DEF th, new, kept, u
  <2>9. /\ u \in Theory /\ u.id = th.id
        /\ \A x, y \in u.rules : x.rule = y.rule => x = y
    BY <2>7, <2>8
  <2> QED
    BY <2>9 DEF u, th
<1>6. \A m \in Node, p \in Name :
        theory'[m][p] = IF m = n /\ p \in targets
                        THEN Updated(theory[n][p], first, a.del) ELSE theory[m][p]
  BY <1>1 DEF TheoryType
<1>7. \A m \in Node, p \in Name : theory[m][p] \in Theory
  BY DEF TheoryType
<1>8. \A m \in Node, p \in Name :
        /\ theory'[m][p] \in Theory
        /\ theory'[m][p].id = theory[m][p].id
        /\ \A x, y \in theory'[m][p].rules : x.rule = y.rule => x = y
  BY <1>5, <1>6, <1>7 DEF TextsOnce
<1>9. theory' \in [Node -> [Name -> Theory]]
  <2>1. theory' = [m \in Node |-> [p \in Name |-> theory'[m][p]]]
    BY <1>1 DEF TheoryType
  <2> QED
    BY <1>8, <2>1
<1> QED
  BY <1>8, <1>9 DEF TheoryType, TextsOnce

\* synchronize_rules_nonlocking changes theories through Runtime.update only.
LEMMA SynchronizeRulesKeeps ==
  ASSUME TheoryType, TextsOnce, NEW n \in Node, NEW stored, stored \subseteq StoredRule,
         SynchronizeRules(n, stored)
  PROVE  /\ TheoryType' /\ TextsOnce'
         /\ \A m \in Node, p \in Name : theory'[m][p].id = theory[m][p].id
<1> DEFINE configured == {[id |-> Loaded(x).id, pol |-> x.pol, rule |-> x.rule] : x \in stored}
           ins == configured \ Active(n)
           del == Active(n) \ configured
<1>1. Loadable(ins)
  <2>1. \A x \in StoredRule : [id |-> Loaded(x).id, rule |-> x.rule] \in LoadedRule
    BY DEF StoredRule, LoadedRule, Loaded
  <2> QED
    BY <2>1 DEF Loadable
<1>2. UpdateIfPermitted(n, ins, del)
  BY DEF SynchronizeRules
<1> HIDE DEF ins, del
<1>3. CASE Update(n, ins, del)
  BY <1>1, <1>3, UpdateKeeps
<1>4. CASE UNCHANGED theory
  BY <1>4 DEF TheoryType, TextsOnce
<1> QED
  BY <1>2, <1>3, <1>4 DEF UpdateIfPermitted

\* synchronize_all_policies leaves every theory as it was, empties it or
\* removes it.
LEMMA SynchronizePoliciesKeeps ==
  ASSUME TheoryType, TextsOnce, NEW n \in Node, NEW stored \in [Name -> Id \cup {None}],
         SynchronizePolicies(n, stored)
  PROVE  /\ TheoryType' /\ TextsOnce'
         /\ \A p \in Name : stored[p] = theory[n][p].id => theory'[n][p] = theory[n][p]
<1> DEFINE stale == {p \in Name : theory[n][p].id \in Id /\ theory[n][p].id # stored[p]}
           missing == {p \in Name : stored[p] # None /\ theory[n][p].id # stored[p]}
<1>1. PICK made \in SUBSET (missing \ Datasource) :
        theory' = [theory EXCEPT ![n] = [p \in Name |->
                     IF p \in made THEN [id |-> stored[p], rules |-> {}]
                     ELSE IF p \in stale THEN Absent ELSE theory[n][p]]]
  BY DEF SynchronizePolicies
<1>2. \A p \in Name : theory'[n][p] \in
        {[id |-> stored[p], rules |-> {}], Absent, theory[n][p]}
  BY <1>1 DEF TheoryType
<1>3. \A m \in Node : m # n => theory'[m] = theory[m]
  BY <1>1 DEF TheoryType
<1>4. \A p \in Name : [id |-> stored[p], rules |-> {}] \in Theory
  BY DEF Theory
<1>5. Absent \in Theory
  BY DEF Theory, Absent
<1>6. \A m \in Node, p \in Name : theory'[m][p] \in Theory
  BY <1>2, <1>3, <1>4, <1>5 DEF TheoryType
<1>7. TheoryType'
  <2>1. theory' = [m \in Node |-> [p \in Name |-> theory'[m][p]]]
    BY <1>1 DEF TheoryType
  <2> QED
    BY <1>6, <2>1 DEF TheoryType
<1>8. TextsOnce'
  BY <1>2, <1>3 DEF TextsOnce, Absent
<1> QED
  BY <1>1, <1>7, <1>8 DEF TheoryType

\* sync_one_policy leaves every other theory as it was.
LEMMA SyncOneKeeps ==
  ASSUME TheoryType, TextsOnce, NEW n \in Node, NEW p \in Name, NEW id \in Id \cup {None},
         SyncOnePolicy(n, p, id)
  PROVE  /\ TheoryType' /\ TextsOnce'
         /\ \A q \in Name : q # p => theory'[n][q] = theory[n][q]
         /\ p \notin Datasource => theory'[n][p].id = id
<1>1. [id |-> id, rules |-> {}] \in Theory
  BY DEF Theory
<1>2. CASE UNCHANGED theory /\ (p \in Datasource \/ theory[n][p].id = id)
  BY <1>2 DEF TheoryType, TextsOnce
<1>3. CASE theory' = [theory EXCEPT ![n][p] = [id |-> id, rules |-> {}]]
  <2>1. \A m \in Node, q \in Name :
          theory'[m][q] = IF m = n /\ q = p THEN [id |-> id, rules |-> {}] ELSE theory[m][q]
    BY <1>3 DEF TheoryType
  <2>2. theory' \in [Node -> [Name -> Theory]]
    BY <1>1, <1>3 DEF TheoryType
  <2> QED
    BY <2>1, <2>2 DEF TheoryType, TextsOnce
<1> QED
  BY <1>2, <1>3 DEF SyncOnePolicy

----------------------------------------------------------------------------
(***************************************************************************)
(* Type correctness.                                                       *)
(***************************************************************************)
TaskType == task \in [Node -> [Thread -> Task]]

\* A thread that is done, or goes on with what it has read, has a task.
LEMMA TaskEdits ==
  /\ Idle \in Task
  /\ \A k \in Task, s \in Step : [k EXCEPT !.at = s] \in Task
  /\ \A k \in Task, s \in Step, R \in SUBSET StoredRule :
       [k EXCEPT !.at = s, !.seenRules = R] \in Task
  /\ \A k \in Task, s \in Step, P \in [Name -> Id \cup {None}] :
       [k EXCEPT !.at = s, !.seenPolicy = P] \in Task
  /\ \A s \in Step, o \in Op, p \in Name :
       [Idle EXCEPT !.at = s, !.op = o, !.pol = p] \in Task
  /\ \A s \in Step, o \in Op, p \in Name, r \in Rule, i \in Id :
       [Idle EXCEPT !.at = s, !.op = o, !.pol = p, !.rule = r, !.id = i] \in Task
<1>1. SomeName \in Name /\ SomeRule \in Rule
  BY NameAssumption, RuleAssumption DEF SomeName, SomeRule
<1>2. Idle \in Task
  BY <1>1 DEF Idle, Task, Step, NoPolicies
<1> QED
  BY <1>2 DEF Task

\* A step that gives one thread another task leaves all threads with tasks.
LEMMA OneTask ==
  ASSUME TaskType, NEW n \in Node, NEW t \in Thread, NEW k \in Task,
         task' = [task EXCEPT ![n][t] = k]
  PROVE  TaskType' /\ task'[n][t] = k
BY DEF TaskType

\* What a step of a call that is under way does to the call's task: it ends,
\* or goes on to the next step for the same rule of the same policy.
Follows ==
  {<<"lock_table", "sync_rules">>, <<"sync_rules", "sync_one">>, <<"sync_one", "sync_one_apply">>,
   <<"sync_one_apply", "check">>, <<"check", "apply">>, <<"apply", "write">>,
   <<"delete", "delete_write">>}

Others(n, t) ==
  \A m \in Node, u \in Thread : m # n \/ u # t => task'[m][u] = task[m][u]

Moved(n, t, s) ==
  /\ task'[n][t].at = s
  /\ task'[n][t].op = task[n][t].op
  /\ task'[n][t].pol = task[n][t].pol
  /\ task'[n][t].rule = task[n][t].rule
  /\ task'[n][t].id = task[n][t].id
  /\ Others(n, t)

\* Every step of a call is one of those.
LEMMA ContinueTask ==
  ASSUME TaskType, NEW n \in Node, NEW t \in ApiThread, Continue(n, t)
  PROVE  /\ Others(n, t)
         /\ \/ /\ task'[n][t] = Idle
               /\ task[n][t].at \notin {"idle", "sync_one"}
            \/ \E s : /\ Moved(n, t, s)
                      /\ <<task[n][t].at, s>> \in Follows
                      /\ s = "check" => task[n][t].op = "insert_rule"
<1>0. t \in Thread /\ task[n][t] \in Task
  BY DEF Thread, TaskType
<1>1. ASSUME Done(n, t) PROVE task'[n][t] = Idle /\ Others(n, t)
  BY <1>0, <1>1 DEF Done, TaskType, Others
<1>2. ASSUME NEW s, Go(n, t, s) PROVE Moved(n, t, s)
  BY <1>0, <1>2 DEF Go, TaskType, Task, Moved, Others
<1>3. CASE LockTable(n, t)
  <2>1. Moved(n, t, "sync_rules")
    BY <1>0, <1>3 DEF LockTable, TaskType, Task, Moved, Others
  <2> QED
    BY <1>3, <2>1 DEF LockTable, Follows, Moved
<1>4. CASE SyncBeforeInsert(n, t)
  <2>1. Moved(n, t, "sync_one")
    BY <1>0, <1>4 DEF SyncBeforeInsert, TaskType, Task, Moved, Others
  <2> QED
    BY <1>4, <2>1 DEF SyncBeforeInsert, Follows, Moved
<1>5. CASE SyncOneRead(n, t)
  <2>1. Moved(n, t, "sync_one_apply")
    BY <1>0, <1>5 DEF SyncOneRead, TaskType, Task, Moved, Others
  <2> QED
    BY <1>5, <2>1 DEF SyncOneRead, Follows, Moved
<1>6. CASE CheckPolicy(n, t)
  <2>1. Moved(n, t, "apply")
    BY <1>0, <1>6 DEF CheckPolicy, TaskType, Task, Moved, Others
  <2> QED
    BY <1>6, <2>1 DEF CheckPolicy, Follows, Moved
<1>7. CASE SyncOneApply(n, t)
  BY <1>1, <1>2, <1>7 DEF SyncOneApply, Follows, Moved
<1>8. CASE ApplyInsert(n, t)
  <2>1. task[n][t].at = "apply" /\ (Go(n, t, "write") \/ Done(n, t))
    BY <1>8 DEF ApplyInsert, FinishInsert
  <2>2. CASE Go(n, t, "write")
    BY <1>2, <2>1, <2>2 DEF Follows, Moved
  <2>3. CASE Done(n, t)
    BY <1>1, <2>1, <2>3
  <2> QED
    BY <2>1, <2>2, <2>3
<1>9. CASE WriteRule(n, t) \/ WriteFails(n, t) \/ InsertRaises(n, t)
  BY <1>1, <1>9 DEF WriteRule, WriteFails, InsertRaises, FinishInsert
<1>10. CASE DeleteApply(n, t)
  BY <1>1, <1>2, <1>10 DEF DeleteApply, Follows, Moved
<1>11. CASE DeleteWrite(n, t)
  BY <1>1, <1>11 DEF DeleteWrite
<1> QED
  BY <1>3, <1>4, <1>5, <1>6, <1>7, <1>8, <1>9, <1>10, <1>11 DEF Continue

\* A call that inserts a rule has an id for it.
InsertsHaveIds ==
  \A n \in Node, t \in ApiThread :
    \/ task[n][t].op = "insert_rule"
    \/ task[n][t].at \in {"lock_table", "sync_rules", "check", "apply", "write"}
    => task[n][t].id \in Id

\* A call keeps the id it was given.
LEMMA InsertIdsStep == TypeOK /\ InsertsHaveIds /\ [Next]_vars => InsertsHaveIds'
<1> SUFFICES ASSUME TypeOK, InsertsHaveIds, [Next]_vars,
                    NEW m \in Node, NEW u \in ApiThread
             PROVE  \/ task'[m][u].op = "insert_rule"
                    \/ task'[m][u].at \in {"lock_table", "sync_rules", "check", "apply", "write"}
                    => task'[m][u].id \in Id
  BY DEF InsertsHaveIds
<1> DEFINE Goal == \/ task'[m][u].op = "insert_rule"
                   \/ task'[m][u].at \in {"lock_table", "sync_rules", "check", "apply", "write"}
                   => task'[m][u].id \in Id
<1>1. task \in [Node -> [Thread -> Task]] /\ u \in Thread /\ u # Periodic
  BY ThreadAssumption DEF TypeOK, Thread
<1>2. \/ task[m][u].op = "insert_rule"
      \/ task[m][u].at \in {"lock_table", "sync_rules", "check", "apply", "write"}
      => task[m][u].id \in Id
  BY DEF InsertsHaveIds
<1>3. ASSUME task'[m][u] \in {task[m][u], Idle} PROVE Goal
  BY <1>2, <1>3 DEF Idle
<1>4. ASSUME NEW n \in Node, NEW t \in ApiThread, Request(n, t) PROVE Goal
  <2>1. ASSUME NEW p \in Name, CreatePolicy(n, t, p) \/ DeletePolicy(n, t, p) PROVE Goal
    <3> DEFINE k(o) == [Idle EXCEPT !.at = "sync_one", !.op = o, !.pol = p]
    <3>1. \A o : k(o).at = "sync_one" /\ k(o).op = o
      BY DEF Idle
    <3>2. task'[m][u] \in {task[m][u], k("create_policy"), k("delete_policy")}
      BY <1>1, <2>1 DEF CreatePolicy, DeletePolicy, Thread
    <3> HIDE DEF k
    <3> QED
      BY <1>2, <3>1, <3>2
  <2>2. ASSUME NEW p \in Name, NEW r \in Rule, InsertRule(n, t, p, r) PROVE Goal
    <3> DEFINE k == [Idle EXCEPT !.at = IF Replicated THEN "lock_table" ELSE "sync_one",
                             !.op = "insert_rule", !.pol = p, !.rule = r, !.id = Fresh]
    <3>1. k.id = Fresh
      BY DEF Idle
    <3>2. task'[m][u] \in {task[m][u], k} /\ Fresh \in Id
      BY <1>1, <2>2 DEF InsertRule, Thread
    <3> QED
      BY <1>2, <3>1, <3>2
  <2>3. ASSUME NEW x \in dbRule, DeleteRule(n, t, x) PROVE Goal
    BY <1>1, <1>2, <2>3 DEF DeleteRule, Idle, Thread
  <2> QED
    BY <1>4, <2>1, <2>2, <2>3 DEF Request
<1>5. ASSUME NEW n \in Node, NEW t \in ApiThread, Continue(n, t) PROVE Goal
  <2>1. CASE m # n \/ u # t
    <3>1. Others(n, t)
      BY <1>1, <1>5, ContinueTask DEF TaskType
    <3> QED
      BY <1>1, <1>3, <2>1, <3>1 DEF Others
  <2>2. CASE m = n /\ u = t
    <3>1. CASE task'[m][u] = Idle
      BY <1>3, <3>1
    <3>2. CASE \E s : /\ Moved(n, t, s)
                      /\ <<task[n][t].at, s>> \in Follows
                      /\ s = "check" => task[n][t].op = "insert_rule"
      BY <1>2, <2>2, <3>2 DEF Moved, Follows
    <3> QED
      BY <1>1, <1>5, <2>2, <3>1, <3>2, ContinueTask DEF TaskType
  <2> QED
    BY <2>1, <2>2
<1>6. ASSUME NEW n \in Node,
             StartSyncRules(n) \/ SyncRules(n) \/ StartSyncPolicies(n) \/ SyncPolicies(n)
      PROVE  Goal
  BY <1>1, <1>3, <1>6 DEF StartSyncRules, SyncRules, StartSyncPolicies, SyncPolicies, Done
<1>7. ASSUME NEW n \in Node, Restart(n) PROVE Goal
  BY <1>1, <1>3, <1>7 DEF Restart
<1>8. CASE UNCHANGED vars
  BY <1>3, <1>8 DEF vars
<1> QED
  BY <1>4, <1>5, <1>6, <1>7, <1>8 DEF Next

\* Every state has the types of TypeOK; in particular no theory ever holds a
\* text twice, whatever batches the synchronizers and the calls apply.
THEOREM TypeCorrect == Spec => []TypeOK
<1>1. Init => TypeOK
  <2> SUFFICES ASSUME Init PROVE TypeOK
    OBVIOUS
  <2> USE SyncBoundAssumption, NameAssumption
  <2>1. PICK f \in [Name -> 0 .. Cardinality(Existing)] :
          /\ \A p \in Name : f[p] = None <=> p \notin Existing
          /\ dbPolicy = f
          /\ theory = [n \in Node |-> [p \in Name |-> IF p \in Existing
                         THEN [id |-> f[p], rules |-> {}] ELSE FreshTheory[p]]]
    BY DEF Init
  <2>2. \A p \in Name : f[p] \in Id \cup {None}
    BY DEF Id, None
  <2>3. \A p \in Name : FreshTheory[p] \in Theory /\ FreshTheory[p].rules = {}
    BY DEF FreshTheory, Theory, Absent
  <2>4. \A n \in Node, p \in Name : theory[n][p] \in Theory /\ theory[n][p].rules = {}
    BY <2>1, <2>2, <2>3 DEF Theory
  <2>5. theory \in [Node -> [Name -> Theory]]
    BY <2>1, <2>4
  <2>6. dbPolicy \in [Name -> Id \cup {None}]
    BY <2>1, <2>2
  <2>7. task \in [Node -> [Thread -> Task]]
    BY TaskEdits DEF Init
  <2> QED
    <3>1. \A n \in Node, p \in Name : \A x, y \in theory[n][p].rules : x.rule = y.rule => x = y
      BY <2>4
    <3> QED
      BY <2>5, <2>6, <2>7, <3>1 DEF Init, TypeOK
<1>2. TypeOK /\ InsertsHaveIds /\ [Next]_vars => TypeOK'
  <2> SUFFICES ASSUME TypeOK, InsertsHaveIds, [Next]_vars
               PROVE  TypeOK'
    OBVIOUS
  <2>0. TheoryType /\ TextsOnce /\ TaskType
    BY DEF TypeOK, TheoryType, TextsOnce, TaskType
  <2> DEFINE Parts == /\ TheoryType' /\ TextsOnce' /\ TaskType'
                      /\ dbPolicy' \in [Name -> Id \cup {None}]
                      /\ dbRule' \subseteq StoredRule
                      /\ tableLock' \in Node \cup {Nobody}
                      /\ lastId' \in 0 .. MaxId
                      /\ ruleLock' \in [Node -> Thread \cup {Nobody}]
                      /\ policyLock' \in [Node -> Thread \cup {Nobody}]
                      /\ restarts' \in 0 .. MaxRestarts
                      /\ accepted' \in [Node -> SUBSET StoredRule]
  <2> SUFFICES Parts
    BY DEF TypeOK, TheoryType, TextsOnce, TaskType
  <2>1. ASSUME UNCHANGED theory PROVE TheoryType' /\ TextsOnce'
    BY <2>0, <2>1 DEF TheoryType, TextsOnce
  <2>2. ASSUME NEW n \in Node, NEW t \in ApiThread, NEW p \in Name, CreatePolicy(n, t, p),
               "create_policy" \in Op
        PROVE  Parts
    <3> DEFINE k == [Idle EXCEPT !.at = "sync_one", !.op = "create_policy", !.pol = p]
    <3>1. k \in Task
      BY <2>2, TaskEdits DEF Step
    <3>2. TaskType'
      BY <2>0, <2>2, <3>1, OneTask DEF CreatePolicy, Thread
    <3> QED
      BY <2>1, <2>2, <3>2 DEF CreatePolicy, TypeOK, lockVars, Id, Fresh
  <2>3. ASSUME NEW n \in Node, NEW t \in ApiThread, NEW p \in Name, DeletePolicy(n, t, p),
               "delete_policy" \in Op
        PROVE  Parts
    <3> DEFINE k == [Idle EXCEPT !.at = "sync_one", !.op = "delete_policy", !.pol = p]
    <3>1. k \in Task
      BY <2>3, TaskEdits DEF Step
    <3>2. TaskType'
      BY <2>0, <2>3, <3>1, OneTask DEF DeletePolicy, Thread
    <3> QED
      BY <2>1, <2>3, <3>2 DEF DeletePolicy, TypeOK, lockVars
  <2>4. ASSUME NEW n \in Node, NEW t \in ApiThread, NEW p \in Name, NEW r \in Rule,
               InsertRule(n, t, p, r), "insert_rule" \in Op
        PROVE  Parts
    <3> DEFINE k == [Idle EXCEPT !.at = IF Replicated THEN "lock_table" ELSE "sync_one",
                             !.op = "insert_rule", !.pol = p, !.rule = r, !.id = Fresh]
    <3>1. k \in Task
      BY <2>4, TaskEdits, ZenonT(60) DEF InsertRule, Step
    <3>2. TaskType'
      BY <2>0, <2>4, <3>1, OneTask DEF InsertRule, Thread
    <3> QED
      BY <2>1, <2>4, <3>2 DEF InsertRule, TypeOK, Thread, Id, Fresh
  <2>5. ASSUME NEW n \in Node, NEW t \in ApiThread, NEW x \in dbRule, DeleteRule(n, t, x),
               "delete_rule" \in Op
        PROVE  Parts
    <3> DEFINE k == [Idle EXCEPT !.at = "delete", !.op = "delete_rule",
                                       !.pol = x.pol, !.rule = x.rule, !.id = x.id]
    <3>1. k \in Task
      BY <2>5, TaskEdits, ZenonT(60) DEF Step, TypeOK, StoredRule
    <3>2. TaskType'
      BY <2>0, <2>5, <3>1, OneTask DEF DeleteRule, Thread
    <3> QED
      BY <2>1, <2>5, <3>2 DEF DeleteRule, TypeOK, lockVars, dbVars
  <2>6. ASSUME NEW n \in Node, NEW t \in Thread
        PROVE  task[n][t] \in Task
    BY <2>0 DEF TaskType
  <2>7. ASSUME NEW n \in Node, NEW t \in ApiThread,
               LockTable(n, t) \/ SyncBeforeInsert(n, t)
        PROVE  Parts
    <3> DEFINE k == task[n][t]
    <3>1. CASE LockTable(n, t)
      <4>1. task' = [task EXCEPT ![n][t] = [k EXCEPT !.at = "sync_rules", !.seenRules = dbRule]]
        BY <2>0, <3>1 DEF LockTable, TaskType
      <4>2. TaskType'
        BY <2>0, <2>6, <4>1, OneTask, TaskEdits DEF TypeOK, Thread, Step
      <4> QED
        BY <2>1, <3>1, <4>2 DEF LockTable, TypeOK, dbVars
    <3>2. CASE SyncBeforeInsert(n, t)
      <4>1. task' = [task EXCEPT ![n][t] = [k EXCEPT !.at = "sync_one", !.seenRules = {}]]
        BY <2>0, <3>2 DEF SyncBeforeInsert, TaskType
      <4>2. TaskType'
        BY <2>0, <2>6, <4>1, OneTask, TaskEdits DEF TypeOK, Thread, Step
      <4>3. k.seenRules \subseteq StoredRule
        BY <2>6 DEF Task, Thread
      <4>4. TheoryType' /\ TextsOnce'
        BY <2>0, <3>2, <4>3, SynchronizeRulesKeeps DEF SyncBeforeInsert
      <4> QED
        BY <3>2, <4>2, <4>4 DEF SyncBeforeInsert, TypeOK, dbVars, lockVars
    <3> QED
      BY <2>7, <3>1, <3>2
  <2>8. ASSUME NEW n \in Node, NEW t \in ApiThread,
               SyncOneRead(n, t) \/ CheckPolicy(n, t)
        PROVE  Parts
    <3> DEFINE k == task[n][t]
    <3>1. \/ task' = [task EXCEPT ![n][t] = [k EXCEPT !.at = "sync_one_apply", !.seenPolicy = dbPolicy]]
          \/ task' = [task EXCEPT ![n][t] = [k EXCEPT !.at = "apply", !.seenPolicy = dbPolicy]]
      <4>1. CASE SyncOneRead(n, t)
        BY <2>0, <4>1 DEF SyncOneRead, TaskType
      <4>2. CASE CheckPolicy(n, t)
        BY <2>0, <4>2 DEF CheckPolicy, TaskType
      <4> QED
        BY <2>8, <4>1, <4>2
    <3>2. TaskType'
      BY <2>0, <2>6, <3>1, OneTask, TaskEdits DEF TypeOK, Thread, Step
    <3> QED
      BY <2>1, <2>8, <3>2, ZenonT(60) DEF SyncOneRead, CheckPolicy, TypeOK, dbVars, lockVars, Thread
  <2>9. ASSUME NEW n \in Node, NEW t \in Thread, NEW s \in Step, Go(n, t, s)
        PROVE  TaskType'
    <3>1. task' = [task EXCEPT ![n][t] = [task[n][t] EXCEPT !.at = s]]
      BY <2>0, <2>9 DEF Go, TaskType
    <3> QED
      BY <2>0, <2>6, <3>1, OneTask, TaskEdits
  <2>10. ASSUME NEW n \in Node, NEW t \in Thread, Done(n, t)
         PROVE  TaskType'
    BY <2>0, <2>10, OneTask, TaskEdits DEF Done
  <2>11. ASSUME NEW n \in Node, NEW t \in ApiThread, FinishInsert(n, t)
         PROVE  /\ TaskType'
                /\ tableLock' \in Node \cup {Nobody}
                /\ ruleLock' \in [Node -> Thread \cup {Nobody}]
                /\ policyLock' \in [Node -> Thread \cup {Nobody}]
    BY <2>10, <2>11 DEF FinishInsert, TypeOK, Thread
  <2>12. ASSUME NEW n \in Node, NEW t \in ApiThread, SyncOneApply(n, t)
         PROVE  Parts
    <3>1. TaskType'
      BY <2>9, <2>10, <2>12 DEF SyncOneApply, Thread, Step
    <3>2. task[n][t].pol \in Name /\ task[n][t].seenPolicy[task[n][t].pol] \in Id \cup {None}
      BY <2>6 DEF Task, Thread
    <3>3. TheoryType' /\ TextsOnce'
      BY <2>0, <2>12, <3>2, SyncOneKeeps DEF SyncOneApply
    <3> QED
      BY <2>12, <3>1, <3>3 DEF SyncOneApply, TypeOK, dbVars
  <2>13. ASSUME NEW n \in Node, NEW t \in ApiThread, ApplyInsert(n, t)
         PROVE  Parts
    <3> DEFINE k == task[n][t]
               ins == {Change(Loaded([id |-> k.id, rule |-> k.rule]).id, k.pol, k.rule)}
    <3>1. CASE Update(n, ins, {}) /\ Go(n, t, "write") /\ UNCHANGED lockVars
      <4>1. k.rule \in Rule /\ k.id \in Id
        BY <2>6, <2>13 DEF ApplyInsert, Task, Thread, InsertsHaveIds
      <4>2. Loadable(ins)
        BY <4>1 DEF Loadable, Change, Loaded, LoadedRule
      <4>3. TheoryType' /\ TextsOnce'
        BY <2>0, <3>1, <4>2, UpdateKeeps
      <4>4. TaskType'
        BY <2>9, <3>1 DEF Thread, Step
      <4> QED
        BY <2>13, <3>1, <4>3, <4>4 DEF ApplyInsert, TypeOK, dbVars, lockVars
    <3>2. CASE FinishInsert(n, t) /\ UNCHANGED theory
      BY <2>1, <2>11, <2>13, <3>2 DEF ApplyInsert, TypeOK, dbVars
    <3> QED
      BY <2>13, <3>1, <3>2 DEF ApplyInsert
  <2>14. ASSUME NEW n \in Node, NEW t \in ApiThread, WriteRule(n, t)
         PROVE  Parts
    <3> DEFINE k == task[n][t]
               x == [id |-> k.id, pol |-> k.pol, rule |-> k.rule]
    <3>1. x \in StoredRule
      BY <2>6, <2>14 DEF WriteRule, Task, Thread, StoredRule, InsertsHaveIds
    <3> QED
      BY <2>1, <2>11, <2>14, <3>1 DEF WriteRule, TypeOK
  <2>15. ASSUME NEW n \in Node, NEW t \in ApiThread, WriteFails(n, t)
         PROVE  Parts
    <3> DEFINE del == {Change(task[n][t].id, task[n][t].pol, task[n][t].rule)}
    <3>1. Update(n, {}, del) => TheoryType' /\ TextsOnce'
      BY <2>0, UpdateKeeps DEF Loadable
    <3>2. TheoryType' /\ TextsOnce'
      BY <2>1, <2>15, <3>1 DEF WriteFails, UpdateIfPermitted
    <3> QED
      BY <2>11, <2>15, <3>2 DEF WriteFails, TypeOK, dbVars
  <2>a. ASSUME NEW n \in Node, NEW t \in ApiThread, InsertRaises(n, t)
        PROVE  Parts
    BY <2>1, <2>11, <2>a DEF InsertRaises, TypeOK, dbVars
  <2>16. ASSUME NEW n \in Node, NEW t \in ApiThread, DeleteApply(n, t) \/ DeleteWrite(n, t)
         PROVE  Parts
    <3>1. CASE DeleteApply(n, t)
      <4> DEFINE del == {Change(task[n][t].id, task[n][t].pol, task[n][t].rule)}
      <4>1. Update(n, {}, del) => TheoryType' /\ TextsOnce'
        BY <2>0, UpdateKeeps DEF Loadable
      <4>2. TheoryType' /\ TextsOnce'
        BY <2>1, <3>1, <4>1 DEF DeleteApply
      <4>3. TaskType'
        BY <2>9, <2>10, <3>1 DEF DeleteApply, Thread, Step
      <4> QED
        BY <3>1, <4>2, <4>3 DEF DeleteApply, TypeOK, dbVars, lockVars
    <3>2. CASE DeleteWrite(n, t)
      BY <2>1, <2>10, <3>2 DEF DeleteWrite, TypeOK, lockVars, Thread
    <3> QED
      BY <2>16, <3>1, <3>2
  <2>17. ASSUME NEW n \in Node, StartSyncRules(n) \/ StartSyncPolicies(n)
         PROVE  Parts
    <3> DEFINE k == task[n][Periodic]
    <3>1. \/ task' = [task EXCEPT ![n][Periodic] = [k EXCEPT !.at = "rules", !.seenRules = dbRule]]
          \/ task' = [task EXCEPT ![n][Periodic] = [k EXCEPT !.at = "policies", !.seenPolicy = dbPolicy]]
      <4>1. CASE StartSyncRules(n)
        BY <2>0, <4>1 DEF StartSyncRules, TaskType, Thread
      <4>2. CASE StartSyncPolicies(n)
        BY <2>0, <4>2 DEF StartSyncPolicies, TaskType, Thread
      <4> QED
        BY <2>17, <4>1, <4>2
    <3>2. TaskType'
      BY <2>0, <2>6, <3>1, OneTask, TaskEdits DEF TypeOK, Thread, Step
    <3> QED
      BY <2>1, <2>17, <3>2 DEF StartSyncRules, StartSyncPolicies, TypeOK, dbVars, Thread
  <2>18. ASSUME NEW n \in Node, SyncRules(n)
         PROVE  Parts
    <3>1. task[n][Periodic].seenRules \subseteq StoredRule
      BY <2>6 DEF Task, Thread
    <3>2. TheoryType' /\ TextsOnce'
      BY <2>0, <2>18, <3>1, SynchronizeRulesKeeps DEF SyncRules
    <3> QED
      BY <2>10, <2>18, <3>2 DEF SyncRules, TypeOK, dbVars, Thread
  <2>19. ASSUME NEW n \in Node, SyncPolicies(n)
         PROVE  Parts
    <3>1. task[n][Periodic].seenPolicy \in [Name -> Id \cup {None}]
      BY <2>6 DEF Task, Thread
    <3>2. TheoryType' /\ TextsOnce'
      BY <2>0, <2>19, <3>1, SynchronizePoliciesKeeps DEF SyncPolicies
    <3> QED
      BY <2>10, <2>19, <3>2 DEF SyncPolicies, TypeOK, dbVars, Thread
  <2>20. ASSUME NEW n \in Node, Restart(n)
         PROVE  Parts
    <3>1. FreshTheory \in [Name -> Theory] /\ \A p \in Name : FreshTheory[p].rules = {}
      BY DEF FreshTheory, Theory, Absent
    <3>2. TheoryType'
      BY <2>0, <2>20, <3>1 DEF Restart, TheoryType
    <3>3. \A m \in Node : theory'[m] = IF m = n THEN FreshTheory ELSE theory[m]
      BY <2>0, <2>20 DEF Restart, TheoryType
    <3>4. TextsOnce'
      BY <2>0, <3>1, <3>3 DEF TextsOnce
    <3>5. TaskType'
      BY <2>0, <2>20, TaskEdits DEF Restart, TaskType
    <3> QED
      BY <2>20, <3>2, <3>4, <3>5, SyncBoundAssumption DEF Restart, TypeOK, dbVars
  <2>21. CASE UNCHANGED vars
    BY <2>0, <2>1, <2>21 DEF vars, dbVars, lockVars, TypeOK, TaskType
  <2> HIDE DEF Parts
  <2> QED
    BY <2>2, <2>3, <2>4, <2>5, <2>7, <2>8, <2>12, <2>13, <2>14, <2>15, <2>a, <2>16, <2>17, <2>18,
       <2>19, <2>20, <2>21 DEF Next, Request, Continue
<1>3. Init => InsertsHaveIds
  BY DEF Init, InsertsHaveIds, Idle, Thread
<1>4. TypeOK /\ InsertsHaveIds /\ [Next]_vars => InsertsHaveIds'
  BY InsertIdsStep
<1> QED
  BY <1>1, <1>2, <1>3, <1>4, PTL DEF Spec

----------------------------------------------------------------------------
(***************************************************************************)
(* One engine has the stored policies.  Whenever its theories, or what a   *)
(* synchronization has read and is about to apply, differ from the         *)
(* database in a policy, a call that created or deleted that policy is     *)
(* still to synchronize it, and will read the database after taking the    *)
(* lock.                                                                   *)
(***************************************************************************)
PolicyLocked ==
  \A n \in Node, t \in Thread :
    task[n][t].at \in {"sync_one_apply", "policies"} => policyLock[n] = t

\* The calls for a policy that have yet to read it.
ToSync(n, p) ==
  {t \in ApiThread : /\ task[n][t].at = "sync_one"
                     /\ task[n][t].op \in {"create_policy", "delete_policy"}
                     /\ task[n][t].pol = p}

\* The calls for a policy that have read what the database has now.
Syncing(n, p) ==
  {t \in ApiThread : /\ task[n][t].at = "sync_one_apply"
                     /\ task[n][t].op \in {"create_policy", "delete_policy"}
                     /\ task[n][t].pol = p
                     /\ task[n][t].seenPolicy[p] = dbPolicy[p]}

TheoriesRepaired ==
  \A n \in Node, p \in Name \ Datasource :
    theory[n][p].id # dbPolicy[p] => ToSync(n, p) \cup Syncing(n, p) # {}

StaleReadsRepaired ==
  \A n \in Node, p \in Name \ Datasource, t \in Thread :
    /\ task[n][t].at \in {"sync_one_apply", "policies"}
    /\ task[n][t].seenPolicy[p] # dbPolicy[p]
    => ToSync(n, p) # {}

MatchInv == PolicyLocked /\ TheoriesRepaired /\ StaleReadsRepaired

\* A thread whose step does not touch a synchronization of policies.
Aside(n, t) ==
  \/ task'[n][t] = task[n][t]
  \/ /\ task[n][t].at \notin {"sync_one_apply", "policies"}
     /\ task[n][t].at = "sync_one" => task[n][t].op \notin {"create_policy", "delete_policy"}
     /\ task'[n][t].at \notin {"sync_one_apply", "policies"}

\* A step that changes neither the stored policies nor a theory's id, and in
\* which no thread goes on with a synchronization of policies.
LEMMA QuietStep ==
  ASSUME MatchInv, UNCHANGED <<dbPolicy, policyLock>>,
         \A n \in Node, p \in Name : theory'[n][p].id = theory[n][p].id,
         \A n \in Node, t \in Thread : Aside(n, t)
  PROVE  MatchInv'
<1>1. PolicyLocked'
  BY DEF MatchInv, PolicyLocked, Aside
<1>2. ASSUME NEW n \in Node, NEW p \in Name
      PROVE  ToSync(n, p) \subseteq ToSync(n, p)' /\ Syncing(n, p) \subseteq Syncing(n, p)'
  BY DEF ToSync, Syncing, Aside, Thread
<1>3. TheoriesRepaired'
  <2> SUFFICES ASSUME NEW n \in Node, NEW p \in Name \ Datasource,
                      theory'[n][p].id # dbPolicy'[p]
               PROVE  ToSync(n, p)' \cup Syncing(n, p)' # {}
    BY DEF TheoriesRepaired
  <2>1. ToSync(n, p) \cup Syncing(n, p) # {}
    BY DEF MatchInv, TheoriesRepaired
  <2> QED
    BY <1>2, <2>1
<1>4. StaleReadsRepaired'
  <2> SUFFICES ASSUME NEW n \in Node, NEW p \in Name \ Datasource, NEW t \in Thread,
                      task'[n][t].at \in {"sync_one_apply", "policies"},
                      task'[n][t].seenPolicy[p] # dbPolicy'[p]
               PROVE  ToSync(n, p)' # {}
    BY DEF StaleReadsRepaired
  <2>1. task'[n][t] = task[n][t]
    BY DEF Aside
  <2>2. ToSync(n, p) # {}
    BY <2>1 DEF MatchInv, StaleReadsRepaired
  <2> QED
    BY <1>2, <2>2
<1> QED
  BY <1>1, <1>3, <1>4 DEF MatchInv

\* The steps that are of no concern to the policies.
LEMMA RuleSteps ==
  ASSUME TypeOK, InsertsHaveIds, MatchInv, NEW n \in Node,
         \/ \E t \in ApiThread :
              \/ \E p \in Name, r \in Rule : InsertRule(n, t, p, r)
              \/ \E x \in dbRule : DeleteRule(n, t, x)
              \/ Continue(n, t) /\ ~SyncOneRead(n, t) /\ ~SyncOneApply(n, t)
         \/ StartSyncRules(n)
         \/ SyncRules(n)
  PROVE  MatchInv'
<1>0. /\ TaskType /\ TheoryType /\ TextsOnce
      /\ \A t \in Thread : task[n][t] \in Task
  BY DEF TypeOK, TaskType, TheoryType, TextsOnce
<1>1. ASSUME UNCHANGED theory
      PROVE  \A m \in Node, p \in Name : theory'[m][p].id = theory[m][p].id
  BY <1>1
<1>2. ASSUME NEW t \in ApiThread, NEW p \in Name, NEW r \in Rule, InsertRule(n, t, p, r)
      PROVE  MatchInv'
  <2>1. \A m \in Node, u \in Thread : Aside(m, u)
    <3> DEFINE k == [Idle EXCEPT !.at = IF Replicated THEN "lock_table" ELSE "sync_one",
                             !.op = "insert_rule", !.pol = p, !.rule = r, !.id = Fresh]
    <3>1. k.at \in {"lock_table", "sync_one"}
      BY DEF Idle
    <3>2. /\ task[n][t].at = "idle"
          /\ task' = [task EXCEPT ![n][t] = k]
      BY <1>2 DEF InsertRule
    <3> HIDE DEF k
    <3> QED
      BY <1>0, <3>1, <3>2 DEF Aside, TaskType
  <2> QED
    BY <1>1, <1>2, <2>1, QuietStep DEF InsertRule
<1>3. ASSUME NEW t \in ApiThread, NEW x \in dbRule, DeleteRule(n, t, x)
      PROVE  MatchInv'
  <2>1. \A m \in Node, u \in Thread : Aside(m, u)
    <3> DEFINE k == [Idle EXCEPT !.at = "delete", !.op = "delete_rule",
                                 !.pol = x.pol, !.rule = x.rule, !.id = x.id]
    <3>1. k.at = "delete"
      BY DEF Idle
    <3>2. /\ task[n][t].at = "idle"
          /\ task' = [task EXCEPT ![n][t] = k]
      BY <1>3 DEF DeleteRule
    <3> HIDE DEF k
    <3> QED
      BY <1>0, <3>1, <3>2 DEF Aside, TaskType
  <2> QED
    BY <1>1, <1>3, <2>1, QuietStep DEF DeleteRule, dbVars, lockVars
<1>4. ASSUME NEW t \in ApiThread, Continue(n, t), ~SyncOneRead(n, t), ~SyncOneApply(n, t)
      PROVE  MatchInv'
  <2> DEFINE k == task[n][t]
  <2>1. k.at \notin {"idle", "sync_one", "sync_one_apply", "policies"}
    BY <1>4 DEF Continue, LockTable, SyncBeforeInsert, CheckPolicy, ApplyInsert, WriteRule,
                WriteFails, InsertRaises, DeleteApply, DeleteWrite
  <2>2. \A m \in Node, u \in Thread : Aside(m, u)
    <3>1. task'[n][t].at \notin {"sync_one_apply", "policies"} /\ Others(n, t)
      <4>1. CASE task'[n][t] = Idle
        BY <1>0, <1>4, <4>1, ContinueTask DEF Idle
      <4>2. CASE \E s : /\ Moved(n, t, s)
                        /\ <<k.at, s>> \in Follows
                        /\ s = "check" => k.op = "insert_rule"
        BY <2>1, <4>2 DEF Moved, Follows
      <4> QED
        BY <1>0, <1>4, <4>1, <4>2, ContinueTask
    <3> QED
      BY <2>1, <3>1 DEF Aside, Others
  <2>3. \A m \in Node, p \in Name : theory'[m][p].id = theory[m][p].id
    <3>1. k \in Task
      BY <1>0 DEF Thread
    <3>2. ASSUME NEW del, Update(n, {}, del)
          PROVE  \A m \in Node, p \in Name : theory'[m][p].id = theory[m][p].id
      BY <1>0, <3>2, UpdateKeeps DEF Loadable
    <3>3. CASE SyncBeforeInsert(n, t)
      <4>1. k.seenRules \subseteq StoredRule
        BY <3>1 DEF Task
      <4> QED
        BY <1>0, <3>3, <4>1, SynchronizeRulesKeeps DEF SyncBeforeInsert
    <3>4. CASE ApplyInsert(n, t)
      <4> DEFINE ins == {Change(Loaded([id |-> k.id, rule |-> k.rule]).id, k.pol, k.rule)}
      <4>1. k.rule \in Rule /\ k.id \in Id
        BY <3>1, <3>4 DEF ApplyInsert, Task, InsertsHaveIds
      <4>2. Loadable(ins)
        BY <4>1 DEF Loadable, Change, Loaded, LoadedRule
      <4>3. Update(n, ins, {}) \/ UNCHANGED theory
        BY <3>4 DEF ApplyInsert
      <4> HIDE DEF ins
      <4> QED
        BY <1>0, <1>1, <4>2, <4>3, UpdateKeeps
    <3>5. CASE WriteFails(n, t) \/ DeleteApply(n, t)
      BY <1>1, <3>2, <3>5 DEF WriteFails, DeleteApply, UpdateIfPermitted
    <3>6. CASE UNCHANGED theory
      BY <1>1, <3>6
    <3> QED
      BY <1>4, <3>3, <3>4, <3>5, <3>6 DEF Continue, LockTable, CheckPolicy, WriteRule, InsertRaises, DeleteWrite
  <2>4. UNCHANGED <<dbPolicy, policyLock>>
    BY <1>4 DEF Continue, LockTable, SyncBeforeInsert, CheckPolicy, ApplyInsert, WriteRule,
                WriteFails, InsertRaises, DeleteApply, DeleteWrite, FinishInsert, dbVars, lockVars
  <2> QED
    BY <2>2, <2>3, <2>4, QuietStep
<1>5. CASE StartSyncRules(n)
  <2>1. /\ task'[n][Periodic].at = "rules" /\ task[n][Periodic].at = "idle"
        /\ Others(n, Periodic)
    BY <1>0, <1>5 DEF StartSyncRules, TaskType, Task, Thread, Others
  <2>2. \A m \in Node, u \in Thread : Aside(m, u)
    BY <2>1 DEF Aside, Others
  <2> QED
    BY <1>1, <1>5, <2>2, QuietStep DEF StartSyncRules, dbVars
<1>6. CASE SyncRules(n)
  <2>1. /\ task'[n][Periodic].at = "idle" /\ task[n][Periodic].at = "rules"
        /\ Others(n, Periodic)
    BY <1>0, <1>6 DEF SyncRules, Done, TaskType, Idle, Thread, Others
  <2>2. \A m \in Node, u \in Thread : Aside(m, u)
    BY <2>1 DEF Aside, Others
  <2>3. task[n][Periodic].seenRules \subseteq StoredRule
    BY <1>0 DEF Task, Thread
  <2>4. \A m \in Node, p \in Name : theory'[m][p].id = theory[m][p].id
    BY <1>0, <1>6, <2>3, SynchronizeRulesKeeps DEF SyncRules
  <2> QED
    BY <1>6, <2>2, <2>4, QuietStep DEF SyncRules, dbVars
<1> QED
  BY <1>2, <1>3, <1>4, <1>5, <1>6

\* The database changes: the call that changed it has yet to synchronize.
LEMMA StoredPolicyStep ==
  ASSUME TypeOK, MatchInv, \A m, n \in Node : m = n,
         NEW n \in Node, NEW t \in ApiThread, NEW p \in Name,
         CreatePolicy(n, t, p) \/ DeletePolicy(n, t, p)
  PROVE  MatchInv'
<1> DEFINE k(o) == [Idle EXCEPT !.at = "sync_one", !.op = o, !.pol = p]
<1>1. \A o : k(o).at = "sync_one" /\ k(o).op = o /\ k(o).pol = p
  BY DEF Idle
<1> HIDE DEF k
<1>2. /\ task[n][t].at = "idle"
      /\ \E o \in {"create_policy", "delete_policy"} : task' = [task EXCEPT ![n][t] = k(o)]
      /\ \A q \in Name : q # p => dbPolicy'[q] = dbPolicy[q]
      /\ UNCHANGED <<policyLock, theory>>
  BY DEF CreatePolicy, DeletePolicy, k, TypeOK, lockVars
<1>3. /\ task'[n][t].at = "sync_one" /\ task'[n][t].pol = p
      /\ task'[n][t].op \in {"create_policy", "delete_policy"}
      /\ \A u \in Thread : u # t => task'[n][u] = task[n][u]
  BY <1>1, <1>2 DEF TypeOK, Thread
<1>4. PolicyLocked'
  BY <1>2, <1>3 DEF MatchInv, PolicyLocked
<1>5. t \in ToSync(n, p)'
  BY <1>3 DEF ToSync
<1>6. ASSUME NEW q \in Name, q # p
      PROVE  ToSync(n, q) \subseteq ToSync(n, q)' /\ Syncing(n, q) \subseteq Syncing(n, q)'
  BY <1>2, <1>3, <1>6 DEF ToSync, Syncing, Thread
<1>7. ASSUME NEW q \in Name \ Datasource, theory'[n][q].id # dbPolicy'[q]
      PROVE  ToSync(n, q)' \cup Syncing(n, q)' # {}
  <2>1. CASE q = p
    BY <1>5, <2>1
  <2>2. CASE q # p
    <3>1. ToSync(n, q) \cup Syncing(n, q) # {}
      BY <1>2, <1>7, <2>2 DEF MatchInv, TheoriesRepaired
    <3> QED
      BY <1>6, <2>2, <3>1
  <2> QED
    BY <2>1, <2>2
<1>8. ASSUME NEW q \in Name \ Datasource, NEW u \in Thread,
             task'[n][u].at \in {"sync_one_apply", "policies"},
             task'[n][u].seenPolicy[q] # dbPolicy'[q]
      PROVE  ToSync(n, q)' # {}
  <2>1. CASE q = p
    BY <1>5, <2>1
  <2>2. CASE q # p
    <3>1. ToSync(n, q) # {}
      BY <1>2, <1>3, <1>8, <2>2 DEF MatchInv, StaleReadsRepaired
    <3> QED
      BY <1>6, <2>2, <3>1
  <2> QED
    BY <2>1, <2>2
<1> QED
  BY <1>4, <1>7, <1>8 DEF MatchInv, TheoriesRepaired, StaleReadsRepaired

\* A thread takes the lock and reads the stored policies.
LEMMA PolicyReadStep ==
  ASSUME TypeOK, MatchInv, \A m, n \in Node : m = n,
         NEW n \in Node,
         (\E t \in ApiThread : SyncOneRead(n, t)) \/ StartSyncPolicies(n)
  PROVE  MatchInv'
<1>1. PICK t \in Thread : /\ task'[n][t].at \in {"sync_one_apply", "policies"}
                          /\ task'[n][t].at = "policies" => t = Periodic /\ task[n][t].at = "idle"
                          /\ task'[n][t].at = "sync_one_apply" => task[n][t].at = "sync_one"
                          /\ task'[n][t].seenPolicy = dbPolicy
                          /\ task'[n][t].op = task[n][t].op
                          /\ task'[n][t].pol = task[n][t].pol
                          /\ \A u \in Thread : u # t => task'[n][u] = task[n][u]
                          /\ policyLock[n] = Nobody /\ policyLock'[n] = t
                          /\ UNCHANGED <<dbPolicy, theory>>
  <2>1. ASSUME NEW t \in ApiThread, SyncOneRead(n, t)
        PROVE  /\ t \in Thread
               /\ task'[n][t].at = "sync_one_apply" /\ task[n][t].at = "sync_one"
               /\ task'[n][t].seenPolicy = dbPolicy
               /\ task'[n][t].op = task[n][t].op
               /\ task'[n][t].pol = task[n][t].pol
               /\ \A u \in Thread : u # t => task'[n][u] = task[n][u]
               /\ policyLock[n] = Nobody /\ policyLock'[n] = t
               /\ UNCHANGED <<dbPolicy, theory>>
    <3>1. t \in Thread /\ task[n][t] \in Task
      BY DEF Thread, TypeOK
    <3> QED
      BY <2>1, <3>1 DEF SyncOneRead, TypeOK, Task, dbVars
  <2>2. ASSUME StartSyncPolicies(n)
        PROVE  /\ Periodic \in Thread
               /\ task'[n][Periodic].at = "policies" /\ task[n][Periodic].at = "idle"
               /\ task'[n][Periodic].seenPolicy = dbPolicy
               /\ task'[n][Periodic].op = task[n][Periodic].op
               /\ task'[n][Periodic].pol = task[n][Periodic].pol
               /\ \A u \in Thread : u # Periodic => task'[n][u] = task[n][u]
               /\ policyLock[n] = Nobody /\ policyLock'[n] = Periodic
               /\ UNCHANGED <<dbPolicy, theory>>
    <3>1. Periodic \in Thread /\ task[n][Periodic] \in Task
      BY DEF Thread, TypeOK
    <3> QED
      BY <2>2, <3>1 DEF StartSyncPolicies, TypeOK, Task, dbVars
  <2> QED
    BY <2>1, <2>2
<1>2. \A u \in Thread : task[n][u].at \notin {"sync_one_apply", "policies"}
  BY <1>1, ThreadAssumption DEF MatchInv, PolicyLocked, Thread
<1>3. PolicyLocked'
  BY <1>1, <1>2 DEF PolicyLocked
<1>4. StaleReadsRepaired'
  BY <1>1, <1>2 DEF StaleReadsRepaired
<1>5. ASSUME NEW q \in Name \ Datasource, theory'[n][q].id # dbPolicy'[q]
      PROVE  ToSync(n, q)' \cup Syncing(n, q)' # {}
  <2>1. PICK u : u \in ToSync(n, q) \cup Syncing(n, q)
    BY <1>1, <1>5 DEF MatchInv, TheoriesRepaired
  <2>2. u \in ToSync(n, q) /\ u \in ApiThread /\ u \in Thread
    BY <1>2, <2>1 DEF ToSync, Syncing, Thread
  <2>3. CASE u # t
    BY <1>1, <2>2, <2>3 DEF ToSync
  <2>4. CASE u = t
    <3>1. u \in Syncing(n, q)'
      BY <1>1, <2>2, <2>4, ThreadAssumption DEF ToSync, Syncing
    <3> QED
      BY <3>1
  <2> QED
    BY <2>3, <2>4
<1> QED
  BY <1>3, <1>4, <1>5 DEF MatchInv, TheoriesRepaired

\* A thread applies what it has read and gives the lock back.
LEMMA PolicyApplyStep ==
  ASSUME TypeOK, MatchInv, \A m, n \in Node : m = n,
         NEW n \in Node,
         (\E t \in ApiThread : SyncOneApply(n, t)) \/ SyncPolicies(n)
  PROVE  MatchInv'
<1>0. TaskType /\ TheoryType /\ TextsOnce /\ \A u \in Thread : task[n][u] \in Task
  BY DEF TypeOK, TaskType, TheoryType, TextsOnce
<1>1. PICK t \in Thread :
        /\ task[n][t].at \in {"sync_one_apply", "policies"}
        /\ task'[n][t].at \notin {"sync_one", "sync_one_apply", "policies"}
        /\ \A u \in Thread : u # t => task'[n][u] = task[n][u]
        /\ UNCHANGED dbPolicy
        /\ \A q \in Name \ Datasource :
             \/ theory'[n][q].id = task[n][t].seenPolicy[q]
             \/ /\ theory[n][q].id # task[n][t].seenPolicy[q]
                /\ task[n][t].at = "policies"
             \/ /\ theory'[n][q] = theory[n][q]
                /\ task[n][t].at = "sync_one_apply" /\ task[n][t].pol # q
  <2>1. ASSUME NEW t \in ApiThread, SyncOneApply(n, t)
        PROVE  /\ t \in Thread
               /\ task[n][t].at = "sync_one_apply"
               /\ task'[n][t].at \notin {"sync_one", "sync_one_apply", "policies"}
               /\ \A u \in Thread : u # t => task'[n][u] = task[n][u]
               /\ UNCHANGED dbPolicy
               /\ \A q \in Name \ Datasource :
                    IF task[n][t].pol = q THEN theory'[n][q].id = task[n][t].seenPolicy[q]
                                          ELSE theory'[n][q] = theory[n][q]
    <3> DEFINE k == task[n][t]
    <3>1. k.at = "sync_one_apply" /\ UNCHANGED dbPolicy /\ t \in Thread
      BY <2>1 DEF SyncOneApply, dbVars, Thread
    <3>2. task'[n][t].at \notin {"sync_one", "sync_one_apply", "policies"} /\ Others(n, t)
      <4>1. Continue(n, t)
        BY <2>1 DEF Continue
      <4>2. CASE task'[n][t] = Idle
        BY <1>0, <4>1, <4>2, ContinueTask DEF Idle
      <4>3. CASE \E s : /\ Moved(n, t, s)
                        /\ <<k.at, s>> \in Follows
                        /\ s = "check" => k.op = "insert_rule"
        BY <3>1, <4>3 DEF Moved, Follows
      <4> QED
        BY <1>0, <4>1, <4>2, <4>3, ContinueTask
    <3>3. /\ k.pol \in Name /\ k.seenPolicy[k.pol] \in Id \cup {None}
          /\ SyncOnePolicy(n, k.pol, k.seenPolicy[k.pol])
      BY <1>0, <2>1 DEF SyncOneApply, Task, Thread
    <3>4. /\ \A q \in Name : q # k.pol => theory'[n][q] = theory[n][q]
          /\ k.pol \notin Datasource => theory'[n][k.pol].id = k.seenPolicy[k.pol]
      BY <1>0, <3>3, SyncOneKeeps
    <3> QED
      BY <3>1, <3>2, <3>4 DEF Others
  <2>2. ASSUME SyncPolicies(n)
        PROVE  /\ Periodic \in Thread
               /\ task[n][Periodic].at = "policies"
               /\ task'[n][Periodic].at = "idle"
               /\ \A u \in Thread : u # Periodic => task'[n][u] = task[n][u]
               /\ UNCHANGED dbPolicy
               /\ \A q \in Name : task[n][Periodic].seenPolicy[q] = theory[n][q].id
                                    => theory'[n][q] = theory[n][q]
    <3>1. Periodic \in Thread /\ task[n][Periodic].seenPolicy \in [Name -> Id \cup {None}]
      BY <1>0 DEF Task, Thread
    <3>2. \A q \in Name : task[n][Periodic].seenPolicy[q] = theory[n][q].id
                                    => theory'[n][q] = theory[n][q]
      BY <1>0, <2>2, <3>1, SynchronizePoliciesKeeps DEF SyncPolicies
    <3> QED
      BY <1>0, <2>2, <3>1, <3>2 DEF SyncPolicies, Done, Idle, TaskType, dbVars
  <2>3. CASE \E t \in ApiThread : SyncOneApply(n, t)
    BY <2>1, <2>3
  <2>4. CASE SyncPolicies(n)
    <3>1. \A q \in Name \ Datasource :
            \/ theory'[n][q].id = task[n][Periodic].seenPolicy[q]
            \/ theory[n][q].id # task[n][Periodic].seenPolicy[q]
      BY <2>2, <2>4
    <3> QED
      BY <2>2, <2>4, <3>1
  <2> QED
    BY <2>3, <2>4
<1>2. \A u \in Thread : u # t => task[n][u].at \notin {"sync_one_apply", "policies"}
  BY <1>1 DEF MatchInv, PolicyLocked
<1>3. \A u \in Thread : task'[n][u].at \notin {"sync_one_apply", "policies"}
  BY <1>1, <1>2
<1>4. \A q \in Name : ToSync(n, q) \subseteq ToSync(n, q)'
  BY <1>1 DEF ToSync, Thread
<1>5. ASSUME NEW q \in Name \ Datasource, theory'[n][q].id # dbPolicy'[q]
      PROVE  ToSync(n, q)' # {}
  <2>1. CASE task[n][t].seenPolicy[q] # dbPolicy[q]
    <3>1. ToSync(n, q) # {}
      BY <1>1, <2>1 DEF MatchInv, StaleReadsRepaired
    <3> QED
      BY <1>4, <3>1
  <2>2. CASE task[n][t].seenPolicy[q] = dbPolicy[q]
    <3>1. /\ theory[n][q].id # dbPolicy[q]
          /\ task[n][t].at = "sync_one_apply" => task[n][t].pol # q
      BY <1>1, <1>5, <2>2
    <3>2. ToSync(n, q) \cup Syncing(n, q) # {}
      BY <3>1 DEF MatchInv, TheoriesRepaired
    <3>3. Syncing(n, q) = {}
      BY <1>2, <3>1 DEF Syncing, Thread
    <3> QED
      BY <1>4, <3>2, <3>3
  <2> QED
    BY <2>1, <2>2
<1> QED
  BY <1>3, <1>5 DEF MatchInv, PolicyLocked, TheoriesRepaired, StaleReadsRepaired

\* One engine that is not restarted has exactly the stored policies whenever
\* no call that creates or deletes a policy is in progress, for any number of
\* API threads, policies, rules and datasources: the locks and the order of
\* read and apply in sync_one_policy and synchronize_all_policies are enough.
THEOREM OneEngineMatches ==
  ASSUME \A m, n \in Node : m = n, MaxRestarts = 0
  PROVE  Spec => []PoliciesMatch
<1>1. Init => MatchInv
  <2> SUFFICES ASSUME Init PROVE MatchInv
    OBVIOUS
  <2>1. \A n \in Node, t \in Thread : task[n][t].at = "idle"
    BY DEF Init, Idle
  <2>2. \A n \in Node, p \in Name \ Datasource : theory[n][p].id = dbPolicy[p]
    BY DEF Init, FreshTheory, Absent
  <2> QED
    BY <2>1, <2>2 DEF MatchInv, PolicyLocked, TheoriesRepaired, StaleReadsRepaired
<1>2. TypeOK /\ InsertsHaveIds /\ MatchInv /\ [Next]_vars => MatchInv'
  <2> SUFFICES ASSUME TypeOK, InsertsHaveIds, MatchInv, [Next]_vars
               PROVE  MatchInv'
    OBVIOUS
  <2>1. ASSUME NEW n \in Node, Restart(n) PROVE FALSE
    BY <2>1 DEF Restart, TypeOK
  <2>2. CASE UNCHANGED vars
    BY <2>2 DEF vars, dbVars, lockVars, MatchInv, PolicyLocked, TheoriesRepaired,
                StaleReadsRepaired, ToSync, Syncing
  <2>3. CASE Next
    <3>1. PICK n \in Node :
            \/ \E t \in ApiThread : Request(n, t) \/ Continue(n, t)
            \/ StartSyncRules(n) \/ SyncRules(n) \/ StartSyncPolicies(n) \/ SyncPolicies(n)
            \/ Restart(n)
      BY <2>3 DEF Next
    <3>2. ASSUME NEW t \in ApiThread, Request(n, t)
          PROVE  MatchInv'
      <4>1. ASSUME NEW p \in Name, CreatePolicy(n, t, p) \/ DeletePolicy(n, t, p)
            PROVE  MatchInv'
        BY <4>1, StoredPolicyStep
      <4>2. CASE \/ \E p \in Name, r \in Rule : InsertRule(n, t, p, r)
                 \/ \E x \in dbRule : DeleteRule(n, t, x)
        BY <4>2, RuleSteps
      <4> QED
        BY <3>2, <4>1, <4>2 DEF Request
    <3>3. ASSUME NEW t \in ApiThread, Continue(n, t)
          PROVE  MatchInv'
      <4>1. CASE SyncOneRead(n, t)
        BY <4>1, PolicyReadStep
      <4>2. CASE SyncOneApply(n, t)
        BY <4>2, PolicyApplyStep
      <4>3. CASE ~SyncOneRead(n, t) /\ ~SyncOneApply(n, t)
        BY <3>3, <4>3, RuleSteps
      <4> QED
        BY <4>1, <4>2, <4>3
    <3>4. CASE StartSyncRules(n) \/ SyncRules(n)
      BY <3>4, RuleSteps
    <3>5. CASE StartSyncPolicies(n)
      BY <3>5, PolicyReadStep
    <3>6. CASE SyncPolicies(n)
      BY <3>6, PolicyApplyStep
    <3> QED
      BY <2>1, <3>1, <3>2, <3>3, <3>4, <3>5, <3>6
  <2> QED
    BY <2>2, <2>3
<1>3. MatchInv => PoliciesMatch
  BY DEF MatchInv, TheoriesRepaired, ToSync, Syncing, PoliciesMatch
<1>4. Init => InsertsHaveIds
  BY DEF Init, InsertsHaveIds, Idle, Thread
<1>5. TypeOK /\ InsertsHaveIds /\ [Next]_vars => InsertsHaveIds'
  BY InsertIdsStep
<1> QED
  BY <1>1, <1>2, <1>3, <1>4, <1>5, TypeCorrect, PTL DEF Spec

----------------------------------------------------------------------------
(***************************************************************************)
(* Replicated engines that insert rules into one policy.  The engine that  *)
(* has locked the table has exactly the stored rules when it checks a new  *)
(* one; every other engine has some of the stored rules.                   *)
(***************************************************************************)
LoadedSet(X) == {Loaded(x) : x \in X}

\* Nobody creates or deletes policies, so every theory is the stored one.
PoliciesFixed ==
  /\ \A n \in Node, p \in Name : theory[n][p].id = dbPolicy[p] /\ dbPolicy[p] \in Id
  /\ \A n \in Node, t \in Thread :
       task[n][t].at \in {"sync_one_apply", "policies"} => task[n][t].seenPolicy = dbPolicy

\* An insertion holds the lock of its node, and the table from its reading on.
InsertsLocked ==
  /\ \A n \in Node, t \in ApiThread :
       /\ task[n][t].at \in {"idle", "lock_table", "sync_rules", "sync_one", "sync_one_apply",
                             "check", "apply", "write"}
       /\ task[n][t].at # "idle" => task[n][t].op = "insert_rule" /\ ruleLock[n] = t
       /\ task[n][t].at \notin {"idle", "lock_table"} => tableLock = n
  /\ \A n \in Node :
       /\ task[n][Periodic].at \in {"idle", "rules", "policies"}
       /\ task[n][Periodic].at = "rules" => ruleLock[n] = Periodic

\* No text is stored twice.
StoredOnce == \A x, y \in dbRule : x.rule = y.rule => x = y

ReadsRight ==
  /\ \A n \in Node, t \in ApiThread :
       task[n][t].at = "sync_rules" => task[n][t].seenRules = dbRule
  /\ \A n \in Node :
       task[n][Periodic].at = "rules" => /\ task[n][Periodic].seenRules \subseteq dbRule
                                         /\ accepted[n] \subseteq task[n][Periodic].seenRules

\* What an engine holds, by the progress of its insertion.
EngineRight ==
  \A n \in Node, p \in Name :
    /\ (\A t \in ApiThread : task[n][t].at # "write")
         => theory[n][p].rules \subseteq LoadedSet(dbRule)
    /\ \A t \in ApiThread :
         task[n][t].at \in {"sync_one", "sync_one_apply", "check", "apply"}
           => theory[n][p].rules = LoadedSet(dbRule)
    /\ \A t \in ApiThread :
         task[n][t].at = "write" =>
           LET k == task[n][t]
               x == [id |-> k.id, pol |-> k.pol, rule |-> k.rule]
           IN /\ theory[n][p].rules = LoadedSet(dbRule \cup {x})
              /\ \A y \in dbRule : y.rule # k.rule
              /\ \A C \in Recursive : ~(C \subseteq Texts(dbRule \cup {x}))

InsertInv ==
  /\ PoliciesFixed /\ InsertsLocked /\ StoredOnce /\ ReadsRight /\ EngineRight
  /\ NeverRecursive /\ AcceptedStays

\* The only policy after an update: rules with the new texts are added, and
\* those with a deleted text are gone.
OnlyPolicyUpdated(n, p, a) ==
  \E new :
    /\ \A x \in new : \E e \in a.ins : x = [id |-> e.id, rule |-> e.rule]
    /\ \A e \in a.ins : \E x \in new : x.rule = e.rule
    /\ theory'[n][p].rules = {x \in theory[n][p].rules \cup new :
                                x.rule \notin {d.rule : d \in a.del}}

\* Runtime.update does that to the only policy, and nothing to other engines.
LEMMA UpdateOnlyPolicy ==
  ASSUME TheoryType, NEW n \in Node, NEW p \in Name, \A q \in Name : q = p,
         NEW ins, NEW del, \A e \in ins \cup del : e.pol = p, Update(n, ins, del)
  PROVE  /\ \A m \in Node : m # n => theory'[m] = theory[m]
         /\ OnlyPolicyUpdated(n, p, Actual(n, ins, del))
<1> DEFINE a == Actual(n, ins, del)
           texts == {e.rule : e \in a.ins}
           targets == {e.pol : e \in a.ins \cup a.del}
           th == theory[n][p]
<1>1. PICK first \in [texts -> {e.id : e \in a.ins}] :
        /\ \A r \in texts : \E e \in a.ins : e.rule = r /\ e.id = first[r]
        /\ theory' = [theory EXCEPT ![n] = [q \in Name |->
                        IF q \in targets THEN Updated(theory[n][q], first, a.del)
                                         ELSE theory[n][q]]]
  BY DEF Update
<1>2. /\ a.ins \subseteq ins /\ a.del \subseteq del
      /\ \A e \in a.ins : ~HasText(th, e.rule)
  BY DEF Actual
<1>3. DOMAIN first = texts
  BY <1>1
<1>4. /\ theory'[n][p] = IF p \in targets THEN Updated(th, first, a.del) ELSE th
      /\ \A m \in Node : m # n => theory'[m] = theory[m]
  BY <1>1 DEF TheoryType
<1>5. th \in Theory
  BY DEF TheoryType
<1> DEFINE new == {[id |-> first[r], rule |-> r] : r \in texts}
<1>6. /\ \A x \in new : \E e \in a.ins : x = [id |-> e.id, rule |-> e.rule]
      /\ \A e \in a.ins : \E x \in new : x.rule = e.rule
  <2>1. ASSUME NEW x \in new
        PROVE  \E e \in a.ins : x = [id |-> e.id, rule |-> e.rule]
    <3>1. PICK r \in texts : x = [id |-> first[r], rule |-> r]
      OBVIOUS
    <3>2. PICK e \in a.ins : e.rule = r /\ e.id = first[r]
      BY <1>1
    <3> QED
      BY <3>1, <3>2
  <2>2. ASSUME NEW e \in a.ins
        PROVE  \E x \in new : x.rule = e.rule
    <3>1. [id |-> first[e.rule], rule |-> e.rule] \in new
      OBVIOUS
    <3> QED
      BY <3>1
  <2> QED
    BY <2>1, <2>2
<1>7. theory'[n][p].rules = {x \in th.rules \cup new : x.rule \notin {d.rule : d \in a.del}}
  <2>1. CASE p \in targets
    <3>1. {q \in DOMAIN first : ~HasText(th, q)} = texts
      BY <1>2, <1>3
    <3>2. Updated(th, first, a.del)
            = [th EXCEPT !.rules = {x \in th.rules \cup new : x.rule \notin {d.rule : d \in a.del}}]
      BY <3>1 DEF Updated
    <3> QED
      BY <1>4, <1>5, <2>1, <3>2 DEF Theory
  <2>2. CASE p \notin targets
    <3>1. a.ins = {} /\ a.del = {}
      BY <1>2, <2>2
    <3>2. new = {}
      BY <3>1
    <3> QED
      BY <1>4, <2>2, <3>1, <3>2
  <2> QED
    BY <2>1, <2>2
<1> HIDE DEF a, new
<1> QED
  BY <1>4, <1>6, <1>7 DEF a, OnlyPolicyUpdated

\* synchronize_rules_nonlocking leaves an engine with exactly the rules it has
\* read, if these can be together and neither they nor the engine's own hold a
\* text under two ids.
LEMMA SynchronizeOnlyPolicy ==
  ASSUME TheoryType, NEW n \in Node, NEW p \in Name, \A q \in Name : q = p,
         theory[n][p].id \in Id,
         NEW D, D \subseteq StoredRule, \A x, y \in D : x.rule = y.rule => x = y,
         NEW stored, stored \subseteq D,
         theory[n][p].rules \subseteq LoadedSet(D),
         \A C \in Recursive : ~(C \subseteq Texts(stored)),
         SynchronizeRules(n, stored)
  PROVE  /\ theory'[n][p].rules = LoadedSet(stored)
         /\ \A m \in Node : m # n => theory'[m] = theory[m]
<1> DEFINE R == theory[n][p].rules
           L == LoadedSet(stored)
           Event(x) == [id |-> x.id, pol |-> p, rule |-> x.rule]
           configured == {[id |-> Loaded(x).id, pol |-> x.pol, rule |-> x.rule] : x \in stored}
           ins == configured \ Active(n)
           del == Active(n) \ configured
           a == Actual(n, ins, del)
<1>0. \A x : Loaded(x).rule = x.rule /\ Loaded(x) = [id |-> Loaded(x).id, rule |-> x.rule]
  BY DEF Loaded
<1>1. \A x, y \in LoadedSet(D) : x.rule = y.rule => x = y
  BY <1>0 DEF LoadedSet
<1>2. L \subseteq LoadedSet(D) /\ R \subseteq LoadedSet(D)
  BY DEF LoadedSet
<1>3. \A x \in LoadedSet(D) : x = [id |-> x.id, rule |-> x.rule]
  BY <1>0 DEF LoadedSet
<1>4. Active(n) = {Event(x) : x \in R}
  BY DEF Active
<1>5. configured = {Event(x) : x \in L}
  <2>1. \A x \in stored : x.pol = p
    BY DEF StoredRule
  <2>2. \A x \in stored : [id |-> Loaded(x).id, pol |-> x.pol, rule |-> x.rule] = Event(Loaded(x))
    BY <1>0, <2>1
  <2>3. ASSUME NEW c \in configured PROVE c \in {Event(x) : x \in L}
    <3>1. PICK x \in stored : c = Event(Loaded(x))
      BY <2>2
    <3>2. Loaded(x) \in L
      BY DEF LoadedSet
    <3> QED
      BY <3>1, <3>2
  <2>4. ASSUME NEW x \in L PROVE Event(x) \in configured
    <3>1. PICK y \in stored : x = Loaded(y)
      BY DEF LoadedSet
    <3> QED
      BY <2>2, <3>1
  <2> QED
    BY <2>3, <2>4, ZenonT(60)
<1>6. \A x, y \in LoadedSet(D) : Event(x) = Event(y) => x = y
  BY <1>1
<1> HIDE DEF R, L, configured
<1>7. ins = {Event(x) : x \in L \ R} /\ del = {Event(x) : x \in R \ L}
  BY <1>2, <1>4, <1>5, <1>6
<1>8. /\ \A x \in L \ R : ~HasText(theory[n][p], x.rule)
      /\ \A x \in R \ L : HasText(theory[n][p], x.rule)
  BY <1>1, <1>2 DEF HasText, R
<1>9. a.ins = ins /\ a.del = del
  BY <1>7, <1>8 DEF Actual
<1>10. Permitted(n, ins, del)
  <2> DEFINE after == (Texts(Active(n)) \ Texts(a.del)) \cup Texts(a.ins)
  <2>1. after \subseteq Texts(stored)
    <3> DEFINE T(X) == {[pol |-> p, rule |-> x.rule] : x \in X}
    <3>1. Texts(Active(n)) = T(R) /\ Texts(del) = T(R \ L) /\ Texts(ins) = T(L \ R)
      <4>1. ASSUME NEW X PROVE Texts({Event(x) : x \in X}) = T(X)
        <5>1. ASSUME NEW c \in Texts({Event(x) : x \in X}) PROVE c \in T(X)
          BY DEF Texts
        <5>2. ASSUME NEW x \in X
              PROVE  [pol |-> p, rule |-> x.rule] \in Texts({Event(y) : y \in X})
          <6>1. Event(x) \in {Event(y) : y \in X}
            OBVIOUS
          <6>2. Event(x).pol = p /\ Event(x).rule = x.rule
            OBVIOUS
          <6> HIDE DEF Event
          <6> QED
            BY <6>1, <6>2 DEF Texts
        <5> QED
          BY <5>1, <5>2
      <4> QED
        BY <1>4, <1>7, <4>1
    <3>2. Texts(stored) = T(L)
      <4>1. \A x \in stored : x.pol = p /\ Loaded(x).rule = x.rule
        BY <1>0 DEF StoredRule
      <4> QED
        BY <4>1 DEF Texts, L, LoadedSet
    <3> HIDE DEF ins, del, a
    <3> QED
      BY <1>9, <3>1, <3>2
  <2>2. \A e \in ins \cup del : Exists(n, e.pol)
    BY <1>7 DEF Exists, Id, None
  <2>3. \A C \in Recursive : ~(C \subseteq after)
    BY <2>1
  <2> QED
    BY <2>2, <2>3 DEF Permitted
<1>11. Update(n, ins, del)
  BY <1>10 DEF SynchronizeRules, UpdateIfPermitted, configured
<1>12. \A e \in ins \cup del : e.pol = p
  BY <1>7
<1> HIDE DEF ins, del, a
<1>13. PICK new : /\ \A x \in new : \E e \in a.ins : x = [id |-> e.id, rule |-> e.rule]
                  /\ \A e \in a.ins : \E x \in new : x.rule = e.rule
                  /\ theory'[n][p].rules = {x \in R \cup new : x.rule \notin {d.rule : d \in a.del}}
  <2>1. OnlyPolicyUpdated(n, p, a)
    BY <1>11, <1>12, UpdateOnlyPolicy DEF a
  <2> QED
    BY <2>1 DEF OnlyPolicyUpdated, R
<1>14. new = L \ R
  <2>1. \A x \in new : \E y \in L \ R : x = [id |-> y.id, rule |-> y.rule]
    BY <1>7, <1>9, <1>13
  <2>2. new \subseteq L \ R
    BY <1>2, <1>3, <2>1
  <2>3. ASSUME NEW y \in L \ R PROVE y \in new
    <3>1. Event(y) \in a.ins
      BY <1>7, <1>9
    <3>2. PICK x \in new : x.rule = y.rule
      BY <1>13, <3>1
    <3> QED
      BY <1>1, <1>2, <2>2, <3>2
  <2> QED
    BY <2>2, <2>3
<1>15. \A r : r \in {d.rule : d \in a.del} <=> \E x \in R \ L : x.rule = r
  <2>1. a.del = {Event(x) : x \in R \ L}
    BY <1>7, <1>9
  <2>2. \A x : Event(x).rule = x.rule
    OBVIOUS
  <2>3. ASSUME NEW d \in a.del PROVE \E x \in R \ L : x.rule = d.rule
    BY <2>1, <2>2
  <2>4. ASSUME NEW x \in R \ L PROVE \E d \in a.del : x.rule = d.rule
    <3>1. Event(x) \in a.del
      BY <2>1
    <3> QED
      BY <2>2, <3>1
  <2> QED
    BY <2>3, <2>4
<1>16. theory'[n][p].rules = L
  <2>1. ASSUME NEW x \in theory'[n][p].rules PROVE x \in L
    BY <1>13, <1>14, <1>15
  <2>2. ASSUME NEW x \in L PROVE x \in theory'[n][p].rules
    <3>1. ~ \E y \in R \ L : y.rule = x.rule
      BY <1>1, <1>2
    <3> QED
      BY <1>13, <1>14, <1>15, <3>1
  <2> QED
    BY <2>1, <2>2
<1>17. \A m \in Node : m # n => theory'[m] = theory[m]
  BY <1>11, <1>12, UpdateOnlyPolicy
<1> QED
  BY <1>16, <1>17 DEF L

\* A step that changes neither theories nor the database, in which insertions
\* go on between the synchronization and the check, or before it.
LEMMA QuietInsertStep ==
  ASSUME TypeOK, InsertInv, UNCHANGED <<dbRule, accepted>>,
         \A m \in Node, q \in Name : theory'[m][q] = theory[m][q],
         \A m \in Node, u \in ApiThread :
           \/ task'[m][u] = task[m][u]
           \/ /\ task'[m][u].at \in {"idle", "lock_table", "sync_rules"}
              /\ task[m][u].at # "write"
           \/ {task[m][u].at, task'[m][u].at} \subseteq {"sync_one", "sync_one_apply", "check", "apply"}
  PROVE  EngineRight' /\ StoredOnce' /\ NeverRecursive' /\ AcceptedStays'
<1>1. StoredOnce' /\ NeverRecursive'
  BY DEF InsertInv, StoredOnce, NeverRecursive, Texts
<1>2. EngineRight'
  <2> SUFFICES ASSUME NEW m \in Node, NEW q \in Name
               PROVE  /\ (\A t \in ApiThread : task'[m][t].at # "write")
                           => theory'[m][q].rules \subseteq LoadedSet(dbRule)
                      /\ \A t \in ApiThread :
                           task'[m][t].at \in {"sync_one", "sync_one_apply", "check", "apply"}
                             => theory'[m][q].rules = LoadedSet(dbRule)
                      /\ \A t \in ApiThread : task'[m][t].at = "write" =>
                           LET k == task'[m][t]
                               x == [id |-> k.id, pol |-> k.pol, rule |-> k.rule]
                           IN /\ theory'[m][q].rules = LoadedSet(dbRule \cup {x})
                              /\ \A y \in dbRule : y.rule # k.rule
                              /\ \A C \in Recursive : ~(C \subseteq Texts(dbRule \cup {x}))
    BY DEF EngineRight, LoadedSet, Texts
  <2>1. (\A t \in ApiThread : task'[m][t].at # "write")
           => (\A t \in ApiThread : task[m][t].at # "write")
    OBVIOUS
  <2>2. \A t \in ApiThread : task'[m][t].at = "write" => task'[m][t] = task[m][t]
    OBVIOUS
  <2>3. \A t \in ApiThread :
          task'[m][t].at \in {"sync_one", "sync_one_apply", "check", "apply"}
            => task[m][t].at \in {"sync_one", "sync_one_apply", "check", "apply"}
    OBVIOUS
  <2>4. theory'[m][q].rules = theory[m][q].rules
    OBVIOUS
  <2>5. (\A t \in ApiThread : task'[m][t].at # "write")
           => theory'[m][q].rules \subseteq LoadedSet(dbRule)
    BY <2>1, <2>4 DEF InsertInv, EngineRight
  <2>6. \A t \in ApiThread :
          task'[m][t].at \in {"sync_one", "sync_one_apply", "check", "apply"}
            => theory'[m][q].rules = LoadedSet(dbRule)
    BY <2>3, <2>4 DEF InsertInv, EngineRight
  <2>7. ASSUME NEW t \in ApiThread, task'[m][t].at = "write"
        PROVE  LET k == task'[m][t]
                   x == [id |-> k.id, pol |-> k.pol, rule |-> k.rule]
               IN /\ theory'[m][q].rules = LoadedSet(dbRule \cup {x})
                  /\ \A y \in dbRule : y.rule # k.rule
                  /\ \A C \in Recursive : ~(C \subseteq Texts(dbRule \cup {x}))
    <3>1. task'[m][t] = task[m][t] /\ task[m][t].at = "write"
      BY <2>2, <2>7
    <3>2. LET k == task[m][t]
              x == [id |-> k.id, pol |-> k.pol, rule |-> k.rule]
          IN /\ theory[m][q].rules = LoadedSet(dbRule \cup {x})
             /\ \A y \in dbRule : y.rule # k.rule
             /\ \A C \in Recursive : ~(C \subseteq Texts(dbRule \cup {x}))
      BY <3>1 DEF InsertInv, EngineRight
    <3> QED
      BY <2>4, <3>1, <3>2
  <2> QED
    BY <2>5, <2>6, <2>7
<1>3. AcceptedStays'
  BY DEF InsertInv, AcceptedStays, Loaded, TypeOK, StoredRule
<1> QED
  BY <1>1, <1>2, <1>3

\* An insertion that has its node's lock is the only one there, and no other
\* engine has the table while it has it.
LEMMA InsertAlone ==
  ASSUME TypeOK, InsertInv, NEW n \in Node, NEW t \in ApiThread, task[n][t].at # "idle"
  PROVE  /\ \A u \in ApiThread : u # t => task[n][u].at = "idle"
         /\ task[n][Periodic].at # "rules"
         /\ task[n][t].at # "lock_table" =>
              \A m \in Node, u \in ApiThread :
                m # n => task[m][u].at \in {"idle", "lock_table"}
BY ThreadAssumption DEF InsertInv, InsertsLocked

\* The steps of a call before it changes its engine or the database.
LEMMA InsertBegins ==
  ASSUME TypeOK, InsertInv, Replicated = TRUE, NEW n \in Node, NEW t \in ApiThread,
         \/ \E p \in Name, r \in Rule : InsertRule(n, t, p, r)
         \/ LockTable(n, t)
  PROVE  InsertInv'
<1>0. /\ task \in [Node -> [Thread -> Task]] /\ ruleLock \in [Node -> Thread \cup {Nobody}]
      /\ t \in Thread /\ Periodic \in Thread /\ t # Periodic
      /\ \A u \in ApiThread : u \in Thread /\ u # Periodic /\ u # Nobody
      /\ Nobody \notin Node /\ Nobody # Periodic
  BY ThreadAssumption DEF TypeOK, Thread
<1>1. ASSUME NEW p \in Name, NEW r \in Rule, InsertRule(n, t, p, r)
      PROVE  InsertInv'
  <2> DEFINE k == [Idle EXCEPT !.at = IF Replicated THEN "lock_table" ELSE "sync_one",
                               !.op = "insert_rule", !.pol = p, !.rule = r, !.id = Fresh]
  <2>1. k.at = "lock_table" /\ k.op = "insert_rule"
    BY DEF Idle
  <2>2. /\ task[n][t].at = "idle" /\ ruleLock[n] = Nobody
        /\ ruleLock' = [ruleLock EXCEPT ![n] = t]
        /\ task' = [task EXCEPT ![n][t] = k]
        /\ UNCHANGED <<dbPolicy, dbRule, tableLock, policyLock, theory, restarts, accepted>>
    BY <1>1 DEF InsertRule
  <2> HIDE DEF k
  <2>3. task'[n][t] = k /\ Others(n, t)
    BY <1>0, <2>2 DEF Others
  <2>4. EngineRight' /\ StoredOnce' /\ NeverRecursive' /\ AcceptedStays'
    <3>1. \A m \in Node, u \in ApiThread :
            \/ task'[m][u] = task[m][u]
            \/ task'[m][u].at = "lock_table" /\ task[m][u].at # "write"
      BY <1>0, <2>1, <2>2, <2>3 DEF Others
    <3> QED
      BY <2>2, <3>1, QuietInsertStep
  <2>5. PoliciesFixed'
    BY <1>0, <2>1, <2>2, <2>3 DEF InsertInv, PoliciesFixed, Others
  <2>6. InsertsLocked'
    <3>1. /\ ruleLock'[n] = t
          /\ \A m \in Node : m # n => ruleLock'[m] = ruleLock[m]
      BY <1>0, <2>2
    <3>2. \A u \in ApiThread : task[n][u].at = "idle"
      BY <1>0, <2>2 DEF InsertInv, InsertsLocked
    <3>3. task[n][Periodic].at # "rules"
      BY <1>0, <2>2 DEF InsertInv, InsertsLocked
    <3> QED
      BY <1>0, <2>1, <2>2, <2>3, <3>1, <3>2, <3>3 DEF InsertInv, InsertsLocked, Others
  <2>7. ReadsRight'
    BY <1>0, <2>1, <2>2, <2>3 DEF InsertInv, ReadsRight, Others
  <2> QED
    BY <2>4, <2>5, <2>6, <2>7 DEF InsertInv
<1>2. CASE LockTable(n, t)
  <2>1. /\ task[n][t].at = "lock_table" /\ tableLock = Nobody /\ tableLock' = n
        /\ UNCHANGED <<dbPolicy, dbRule, ruleLock, theory, accepted>>
    BY <1>2 DEF LockTable, dbVars
  <2>2. /\ task'[n][t].at = "sync_rules" /\ task'[n][t].op = task[n][t].op
        /\ task'[n][t].seenRules = dbRule /\ Others(n, t)
    BY <1>0, <1>2 DEF LockTable, Task, Others
  <2>3. EngineRight' /\ StoredOnce' /\ NeverRecursive' /\ AcceptedStays'
    <3>1. \A m \in Node, u \in ApiThread :
            \/ task'[m][u] = task[m][u]
            \/ task'[m][u].at = "sync_rules" /\ task[m][u].at # "write"
      BY <1>0, <2>1, <2>2 DEF Others
    <3> QED
      BY <2>1, <3>1, QuietInsertStep
  <2>4. PoliciesFixed'
    BY <1>0, <2>1, <2>2 DEF InsertInv, PoliciesFixed, Others
  <2>5. InsertsLocked'
    BY <1>0, <2>1, <2>2 DEF InsertInv, InsertsLocked, Others
  <2>6. ReadsRight'
    BY <1>0, <2>1, <2>2 DEF InsertInv, ReadsRight, Others
  <2> QED
    BY <2>3, <2>4, <2>5, <2>6 DEF InsertInv
<1> QED
  BY <1>1, <1>2

\* The steps that read policies, or apply what they read: policies do not
\* change, so neither do theories.
LEMMA InsertPolicySteps ==
  ASSUME TypeOK, InsertInv, NEW n \in Node, NEW t \in ApiThread,
         SyncOneRead(n, t) \/ SyncOneApply(n, t) \/ CheckPolicy(n, t)
  PROVE  InsertInv'
<1>0. /\ task \in [Node -> [Thread -> Task]]
      /\ t \in Thread /\ Periodic \in Thread /\ t # Periodic
      /\ \A u \in ApiThread : u \in Thread /\ u # Periodic
  BY ThreadAssumption DEF TypeOK, Thread
<1> DEFINE Mid == {"sync_one", "sync_one_apply", "check", "apply"}
<1>1. ASSUME Others(n, t), task[n][t].at \in Mid, task'[n][t].at \in Mid,
             task'[n][t].op = task[n][t].op,
             task'[n][t].at = "sync_one_apply" => task'[n][t].seenPolicy = dbPolicy,
             UNCHANGED <<dbPolicy, dbRule, tableLock, ruleLock, theory, accepted>>
      PROVE  InsertInv'
  <2>1. EngineRight' /\ StoredOnce' /\ NeverRecursive' /\ AcceptedStays'
    <3>1. \A m \in Node, u \in ApiThread :
            \/ task'[m][u] = task[m][u]
            \/ {task[m][u].at, task'[m][u].at} \subseteq Mid
      BY <1>0, <1>1 DEF Others
    <3> QED
      BY <1>1, <3>1, QuietInsertStep
  <2>2. PoliciesFixed'
    BY <1>0, <1>1 DEF InsertInv, PoliciesFixed, Others
  <2>3. InsertsLocked'
    BY <1>0, <1>1 DEF InsertInv, InsertsLocked, Others
  <2>4. ReadsRight'
    BY <1>0, <1>1 DEF InsertInv, ReadsRight, Others
  <2> QED
    BY <2>1, <2>2, <2>3, <2>4 DEF InsertInv
<1>2. CASE SyncOneRead(n, t)
  <2>1. Others(n, t) /\ task'[n][t].at = "sync_one_apply" /\ task'[n][t].op = task[n][t].op
        /\ task'[n][t].seenPolicy = dbPolicy
    BY <1>0, <1>2 DEF SyncOneRead, Task, Others
  <2> QED
    BY <1>1, <1>2, <2>1 DEF SyncOneRead, dbVars
<1>3. CASE CheckPolicy(n, t)
  <2>1. Others(n, t) /\ task'[n][t].at = "apply" /\ task'[n][t].op = task[n][t].op
    BY <1>0, <1>3 DEF CheckPolicy, Task, Others
  <2> QED
    BY <1>1, <1>3, <2>1 DEF CheckPolicy, dbVars, lockVars
<1>4. CASE SyncOneApply(n, t)
  <2>1. task[n][t].at = "sync_one_apply" /\ task[n][t].op = "insert_rule"
        /\ task[n][t].seenPolicy = dbPolicy
    BY <1>0, <1>4 DEF SyncOneApply, InsertInv, InsertsLocked, PoliciesFixed
  <2>2. Others(n, t) /\ task'[n][t].at = "check" /\ task'[n][t].op = task[n][t].op
    BY <1>0, <1>4, <2>1, ZenonT(60) DEF SyncOneApply, Go, Task, Others
  <2>3. theory' = theory
    <3>1. task[n][t].pol \in Name
      BY <1>0 DEF Task
    <3>2. theory[n][task[n][t].pol].id = task[n][t].seenPolicy[task[n][t].pol]
      BY <2>1, <3>1 DEF InsertInv, PoliciesFixed
    <3> QED
      BY <1>4, <3>2 DEF SyncOneApply, SyncOnePolicy
  <2> QED
    BY <1>1, <1>4, <2>1, <2>2, <2>3 DEF SyncOneApply, dbVars
<1> QED
  BY <1>2, <1>3, <1>4

\* The periodic task's reads, and its synchronization of policies.
LEMMA InsertPeriodicSteps ==
  ASSUME TypeOK, InsertInv, NEW n \in Node,
         StartSyncRules(n) \/ StartSyncPolicies(n) \/ SyncPolicies(n)
  PROVE  InsertInv'
<1>0. /\ task \in [Node -> [Thread -> Task]] /\ ruleLock \in [Node -> Thread \cup {Nobody}]
      /\ Periodic \in Thread
      /\ \A u \in ApiThread : u \in Thread /\ u # Periodic /\ u # Nobody
      /\ Periodic # Nobody
  BY ThreadAssumption DEF TypeOK, Thread
<1>1. ASSUME Others(n, Periodic), UNCHANGED <<dbRule, accepted>>,
             \A m \in Node, q \in Name : theory'[m][q] = theory[m][q]
      PROVE  EngineRight' /\ StoredOnce' /\ NeverRecursive' /\ AcceptedStays'
  <2>1. \A m \in Node, u \in ApiThread : task'[m][u] = task[m][u]
    BY <1>0, <1>1 DEF Others
  <2> QED
    BY <1>1, <2>1, QuietInsertStep
<1>2. CASE StartSyncRules(n)
  <2>1. /\ task[n][Periodic].at = "idle" /\ ruleLock[n] = Nobody
        /\ ruleLock' = [ruleLock EXCEPT ![n] = Periodic]
        /\ UNCHANGED <<dbPolicy, dbRule, tableLock, theory, accepted>>
    BY <1>2 DEF StartSyncRules, dbVars
  <2>2. /\ task'[n][Periodic].at = "rules" /\ task'[n][Periodic].seenRules = dbRule
        /\ Others(n, Periodic)
    BY <1>0, <1>2 DEF StartSyncRules, Task, Others
  <2>3. EngineRight' /\ StoredOnce' /\ NeverRecursive' /\ AcceptedStays'
    BY <1>1, <2>1, <2>2
  <2>4. PoliciesFixed'
    BY <1>0, <2>1, <2>2 DEF InsertInv, PoliciesFixed, Others
  <2>5. InsertsLocked'
    <3>1. /\ ruleLock'[n] = Periodic
          /\ \A m \in Node : m # n => ruleLock'[m] = ruleLock[m]
      BY <1>0, <2>1
    <3>2. \A u \in ApiThread : task[n][u].at = "idle"
      BY <1>0, <2>1 DEF InsertInv, InsertsLocked
    <3> QED
      BY <1>0, <2>1, <2>2, <3>1, <3>2 DEF InsertInv, InsertsLocked, Others
  <2>6. ReadsRight'
    <3>1. accepted[n] \subseteq dbRule
      BY DEF InsertInv, AcceptedStays
    <3> QED
      BY <1>0, <2>1, <2>2, <3>1, SMTT(30) DEF InsertInv, ReadsRight, Others
  <2> QED
    BY <2>3, <2>4, <2>5, <2>6 DEF InsertInv
<1>3. CASE StartSyncPolicies(n)
  <2>1. /\ task'[n][Periodic].at = "policies" /\ task'[n][Periodic].seenPolicy = dbPolicy
        /\ Others(n, Periodic)
    BY <1>0, <1>3 DEF StartSyncPolicies, Task, Others
  <2>2. UNCHANGED <<dbPolicy, dbRule, tableLock, ruleLock, theory, accepted>>
    BY <1>3 DEF StartSyncPolicies, dbVars
  <2>3. EngineRight' /\ StoredOnce' /\ NeverRecursive' /\ AcceptedStays'
    BY <1>1, <2>1, <2>2
  <2>4. PoliciesFixed'
    BY <1>0, <2>1, <2>2 DEF InsertInv, PoliciesFixed, Others
  <2>5. InsertsLocked'
    BY <1>0, <2>1, <2>2 DEF InsertInv, InsertsLocked, Others
  <2>6. ReadsRight'
    BY <1>0, <2>1, <2>2 DEF InsertInv, ReadsRight, Others
  <2> QED
    BY <2>3, <2>4, <2>5, <2>6 DEF InsertInv
<1>4. CASE SyncPolicies(n)
  <2>1. task'[n][Periodic].at = "idle" /\ Others(n, Periodic)
    BY <1>0, <1>4 DEF SyncPolicies, Done, Idle, Others
  <2>2. UNCHANGED <<dbPolicy, dbRule, tableLock, ruleLock, accepted>>
    BY <1>4 DEF SyncPolicies, dbVars
  <2>3. \A m \in Node, q \in Name : theory'[m][q] = theory[m][q]
    <3>1. task[n][Periodic].seenPolicy = dbPolicy /\ dbPolicy \in [Name -> Id \cup {None}]
      BY <1>0, <1>4 DEF SyncPolicies, InsertInv, PoliciesFixed, TypeOK
    <3>2. SynchronizePolicies(n, dbPolicy)
      BY <1>4, <3>1 DEF SyncPolicies
    <3>3. \A q \in Name : dbPolicy[q] = theory[n][q].id
      BY DEF InsertInv, PoliciesFixed
    <3>4. TheoryType /\ TextsOnce
      BY DEF TypeOK, TheoryType, TextsOnce
    <3>5. \A q \in Name : theory'[n][q] = theory[n][q]
      BY <3>1, <3>2, <3>3, <3>4, SynchronizePoliciesKeeps
    <3>6. \A m \in Node : m # n => theory'[m] = theory[m]
      BY <3>2, <3>4 DEF SynchronizePolicies, TheoryType
    <3> QED
      BY <3>5, <3>6
  <2>4. EngineRight' /\ StoredOnce' /\ NeverRecursive' /\ AcceptedStays'
    BY <1>1, <2>1, <2>2, <2>3
  <2>5. PoliciesFixed'
    BY <1>0, <2>1, <2>2, <2>3 DEF InsertInv, PoliciesFixed, Others
  <2>6. InsertsLocked'
    BY <1>0, <2>1, <2>2 DEF InsertInv, InsertsLocked, Others
  <2>7. ReadsRight'
    BY <1>0, <2>1, <2>2 DEF InsertInv, ReadsRight, Others
  <2> QED
    BY <2>4, <2>5, <2>6, <2>7 DEF InsertInv
<1> QED
  BY <1>2, <1>3, <1>4

\* An engine that synchronizes its rules ends up with those it has read.
LEMMA RulesSynchronized ==
  ASSUME TypeOK, InsertInv, NEW p \in Name, \A q \in Name : q = p, NEW n \in Node,
         \A u \in ApiThread : task[n][u].at # "write",
         NEW stored, stored \subseteq dbRule, SynchronizeRules(n, stored)
  PROVE  /\ theory'[n][p].rules = LoadedSet(stored)
         /\ \A m \in Node : m # n => theory'[m] = theory[m]
         /\ \A m \in Node, q \in Name : theory'[m][q].id = theory[m][q].id
<1>1. TheoryType /\ TextsOnce /\ dbRule \subseteq StoredRule
  BY DEF TypeOK, TheoryType, TextsOnce
<1>2. theory[n][p].id \in Id
  BY DEF InsertInv, PoliciesFixed
<1>3. \A x, y \in dbRule : x.rule = y.rule => x = y
  BY DEF InsertInv, StoredOnce
<1>4. theory[n][p].rules \subseteq LoadedSet(dbRule)
  BY DEF InsertInv, EngineRight
<1>5. \A C \in Recursive : ~(C \subseteq Texts(stored))
  <2>1. Texts(stored) \subseteq Texts(dbRule)
    BY DEF Texts
  <2> QED
    BY <2>1 DEF InsertInv, NeverRecursive
<1>6. /\ theory'[n][p].rules = LoadedSet(stored)
      /\ \A m \in Node : m # n => theory'[m] = theory[m]
  BY <1>1, <1>2, <1>3, <1>4, <1>5, SynchronizeOnlyPolicy
<1>7. \A m \in Node, q \in Name : theory'[m][q].id = theory[m][q].id
  BY <1>1, SynchronizeRulesKeeps
<1> QED
  BY <1>6, <1>7

\* The synchronization of an engine's rules, before an insertion or by the
\* periodic task, takes nothing away that the engine's clients were promised.
LEMMA InsertSyncSteps ==
  ASSUME TypeOK, InsertInv, NEW p \in Name, \A q \in Name : q = p, NEW n \in Node,
         SyncRules(n) \/ \E t \in ApiThread : SyncBeforeInsert(n, t)
  PROVE  InsertInv'
<1>0. /\ task \in [Node -> [Thread -> Task]] /\ ruleLock \in [Node -> Thread \cup {Nobody}]
      /\ Periodic \in Thread
      /\ \A u \in ApiThread : u \in Thread /\ u # Periodic /\ u # Nobody
      /\ Periodic # Nobody
  BY ThreadAssumption DEF TypeOK, Thread
<1>1. ASSUME NEW stored, stored \subseteq dbRule, accepted[n] \subseteq stored,
             theory'[n][p].rules = LoadedSet(stored),
             \A m \in Node : m # n => theory'[m] = theory[m],
             UNCHANGED <<dbRule, accepted>>,
             \A m \in Node, u \in ApiThread : m # n => task'[m][u] = task[m][u],
             \A u \in ApiThread : task'[n][u].at \in {"idle", "sync_one"},
             stored = dbRule \/ \A u \in ApiThread : task'[n][u].at = "idle"
      PROVE  EngineRight' /\ StoredOnce' /\ NeverRecursive' /\ AcceptedStays'
  <2>1. StoredOnce' /\ NeverRecursive'
    BY <1>1 DEF InsertInv, StoredOnce, NeverRecursive, Texts
  <2>2. AcceptedStays'
    <3>1. ASSUME NEW m \in Node, NEW x \in accepted[m]
          PROVE  x \in dbRule /\ Loaded(x) \in theory'[m][x.pol].rules
      <4>1. x \in dbRule /\ Loaded(x) \in theory[m][x.pol].rules
        BY DEF InsertInv, AcceptedStays
      <4>2. CASE m # n
        BY <1>1, <4>1, <4>2
      <4>3. CASE m = n
        <5>1. x.pol = p
          BY <4>1 DEF TypeOK, StoredRule
        <5> QED
          BY <1>1, <4>1, <4>3, <5>1 DEF LoadedSet
      <4> QED
        BY <4>2, <4>3
    <3> QED
      BY <1>1, <3>1 DEF AcceptedStays, Loaded
  <2>3. EngineRight'
    <3>1. LoadedSet(stored) \subseteq LoadedSet(dbRule)
      BY <1>1 DEF LoadedSet
    <3> DEFINE Right(m, q) ==
          /\ (\A t \in ApiThread : task'[m][t].at # "write")
               => theory'[m][q].rules \subseteq LoadedSet(dbRule)
          /\ \A t \in ApiThread :
               task'[m][t].at \in {"sync_one", "sync_one_apply", "check", "apply"}
                 => theory'[m][q].rules = LoadedSet(dbRule)
          /\ \A t \in ApiThread : task'[m][t].at = "write" =>
               LET k == task'[m][t]
                   x == [id |-> k.id, pol |-> k.pol, rule |-> k.rule]
               IN /\ theory'[m][q].rules = LoadedSet(dbRule \cup {x})
                  /\ \A y \in dbRule : y.rule # k.rule
                  /\ \A C \in Recursive : ~(C \subseteq Texts(dbRule \cup {x}))
    <3>2. ASSUME NEW q \in Name PROVE Right(n, q)
      BY <1>1, <3>1
    <3>3. ASSUME NEW m \in Node, m # n, NEW q \in Name PROVE Right(m, q)
      <4>1. theory'[m] = theory[m] /\ \A u \in ApiThread : task'[m][u] = task[m][u]
        BY <1>1, <3>3
      <4> QED
        BY <4>1, SMTT(30) DEF InsertInv, EngineRight
    <3> QED
      BY <1>1, <3>2, <3>3 DEF EngineRight, LoadedSet, Texts
  <2> QED
    BY <2>1, <2>2, <2>3
<1>2. ASSUME NEW t \in ApiThread, SyncBeforeInsert(n, t)
      PROVE  InsertInv'
  <2>1. /\ task[n][t].at = "sync_rules" /\ task[n][t].seenRules = dbRule
        /\ UNCHANGED <<dbPolicy, dbRule, tableLock, ruleLock, accepted>>
        /\ SynchronizeRules(n, dbRule)
    BY <1>2 DEF SyncBeforeInsert, dbVars, lockVars, InsertInv, ReadsRight
  <2>2. task'[n][t].at = "sync_one" /\ task'[n][t].op = task[n][t].op /\ Others(n, t)
    BY <1>0, <1>2 DEF SyncBeforeInsert, Task, Others
  <2>3. \A u \in ApiThread : u # t => task[n][u].at = "idle"
    BY <2>1, InsertAlone
  <2>4. /\ theory'[n][p].rules = LoadedSet(dbRule)
        /\ \A m \in Node : m # n => theory'[m] = theory[m]
        /\ \A m \in Node, q \in Name : theory'[m][q].id = theory[m][q].id
    <3>1. \A u \in ApiThread : task[n][u].at # "write"
      BY <2>1, <2>3
    <3> QED
      BY <2>1, <3>1, RulesSynchronized
  <2>5. EngineRight' /\ StoredOnce' /\ NeverRecursive' /\ AcceptedStays'
    <3>1. accepted[n] \subseteq dbRule
      BY DEF InsertInv, AcceptedStays
    <3>2. /\ \A m \in Node, u \in ApiThread : m # n => task'[m][u] = task[m][u]
          /\ \A u \in ApiThread : task'[n][u].at \in {"idle", "sync_one"}
      BY <1>0, <2>2, <2>3 DEF Others
    <3> QED
      BY <1>1, <2>1, <2>4, <3>1, <3>2
  <2>6. PoliciesFixed'
    BY <1>0, <2>1, <2>2, <2>4 DEF InsertInv, PoliciesFixed, Others
  <2>7. InsertsLocked'
    BY <1>0, <2>1, <2>2, SMTT(30) DEF InsertInv, InsertsLocked, Others
  <2>8. ReadsRight'
    BY <1>0, <2>1, <2>2 DEF InsertInv, ReadsRight, Others
  <2> QED
    BY <2>5, <2>6, <2>7, <2>8 DEF InsertInv
<1>3. CASE SyncRules(n)
  <2> DEFINE stored == task[n][Periodic].seenRules
  <2>1. /\ task[n][Periodic].at = "rules" /\ stored \subseteq dbRule /\ accepted[n] \subseteq stored
        /\ ruleLock' = [ruleLock EXCEPT ![n] = Nobody]
        /\ UNCHANGED <<dbPolicy, dbRule, tableLock, accepted>>
        /\ SynchronizeRules(n, stored)
    BY <1>3 DEF SyncRules, dbVars, InsertInv, ReadsRight
  <2> HIDE DEF stored
  <2>2. task'[n][Periodic].at = "idle" /\ Others(n, Periodic)
    BY <1>0, <1>3 DEF SyncRules, Done, Idle, Others
  <2>3. \A u \in ApiThread : task[n][u].at = "idle"
    BY <2>1, InsertAlone
  <2>4. /\ theory'[n][p].rules = LoadedSet(stored)
        /\ \A m \in Node : m # n => theory'[m] = theory[m]
        /\ \A m \in Node, q \in Name : theory'[m][q].id = theory[m][q].id
    <3>1. \A u \in ApiThread : task[n][u].at # "write"
      BY <2>3
    <3> QED
      BY <2>1, <3>1, RulesSynchronized
  <2>5. EngineRight' /\ StoredOnce' /\ NeverRecursive' /\ AcceptedStays'
    <3>1. /\ \A m \in Node, u \in ApiThread : m # n => task'[m][u] = task[m][u]
          /\ \A u \in ApiThread : task'[n][u].at = "idle"
      BY <1>0, <2>2, <2>3 DEF Others
    <3> QED
      BY <1>1, <2>1, <2>4, <3>1
  <2>6. PoliciesFixed'
    BY <1>0, <2>1, <2>2, <2>4 DEF InsertInv, PoliciesFixed, Others
  <2>7. InsertsLocked'
    <3>1. \A m \in Node : m # n => ruleLock'[m] = ruleLock[m]
      BY <1>0, <2>1
    <3> QED
      BY <1>0, <2>1, <2>2, <2>3, <3>1 DEF InsertInv, InsertsLocked, Others
  <2>8. ReadsRight'
    BY <1>0, <2>1, <2>2 DEF InsertInv, ReadsRight, Others
  <2> QED
    BY <2>5, <2>6, <2>7, <2>8 DEF InsertInv
<1> QED
  BY <1>2, <1>3

\* The end of an insertion gives back the lock of its node and the table,
\* which no other insertion has.
LEMMA InsertEnds ==
  ASSUME TypeOK, InsertInv, NEW n \in Node, NEW t \in ApiThread,
         task[n][t].at \notin {"idle", "lock_table"}, FinishInsert(n, t)
  PROVE  /\ InsertsLocked'
         /\ task'[n][t].at = "idle" /\ Others(n, t)
         /\ \A u \in ApiThread : task'[n][u].at = "idle"
<1>0. /\ task \in [Node -> [Thread -> Task]] /\ ruleLock \in [Node -> Thread \cup {Nobody}]
      /\ Periodic \in Thread /\ t \in Thread
      /\ \A u \in ApiThread : u \in Thread /\ u # Periodic /\ u # Nobody
  BY ThreadAssumption DEF TypeOK, Thread
<1>1. task'[n][t].at = "idle" /\ Others(n, t)
  BY <1>0 DEF FinishInsert, Done, Idle, Others
<1>2. \A m \in Node : m # n => ruleLock'[m] = ruleLock[m]
  BY <1>0 DEF FinishInsert
<1>3. /\ \A u \in ApiThread : u # t => task[n][u].at = "idle"
      /\ task[n][Periodic].at # "rules"
      /\ \A m \in Node, u \in ApiThread : m # n => task[m][u].at \in {"idle", "lock_table"}
  BY InsertAlone
<1>4. \A u \in ApiThread : task'[n][u].at = "idle"
  BY <1>0, <1>1, <1>3 DEF Others
<1>5. InsertsLocked'
  BY <1>0, <1>1, <1>2, <1>3, <1>4 DEF InsertInv, InsertsLocked, Others
<1> QED
  BY <1>1, <1>4, <1>5

\* The texts of an engine with one policy.
LEMMA ActiveTexts ==
  ASSUME NEW p \in Name, \A q \in Name : q = p, NEW n \in Node, theory[n][p].id \in Id
  PROVE  Texts(Active(n)) = {[pol |-> p, rule |-> x.rule] : x \in theory[n][p].rules}
<1> DEFINE Event(x) == [id |-> x.id, pol |-> p, rule |-> x.rule]
<1>1. Active(n) = {Event(x) : x \in theory[n][p].rules}
  BY DEF Active
<1>2. \A x : Event(x).pol = p /\ Event(x).rule = x.rule
  OBVIOUS
<1> HIDE DEF Event
<1> QED
  BY <1>1, <1>2 DEF Texts

\* A rule that an engine accepts is new, and can be stored with the others.
LEMMA InsertApplyStep ==
  ASSUME TypeOK, InsertInv, InsertsHaveIds, NEW p \in Name, \A q \in Name : q = p,
         NEW n \in Node, NEW t \in ApiThread, ApplyInsert(n, t)
  PROVE  InsertInv'
<1> DEFINE k == task[n][t]
           x == [id |-> k.id, pol |-> k.pol, rule |-> k.rule]
           e == Change(Loaded([id |-> k.id, rule |-> k.rule]).id, k.pol, k.rule)
           a == Actual(n, {e}, {})
           possible == /\ k.seenPolicy[k.pol] # None
                       /\ Exists(n, k.pol)
                       /\ Permitted(n, {e}, {})
                       /\ a.ins # {}
<1>0. /\ task \in [Node -> [Thread -> Task]]
      /\ Periodic \in Thread /\ t \in Thread /\ t # Periodic
      /\ \A u \in ApiThread : u \in Thread /\ u # Periodic
  BY ThreadAssumption DEF TypeOK, Thread
<1>1. /\ k.at = "apply" /\ UNCHANGED <<dbPolicy, dbRule, accepted>>
      /\ \/ possible /\ Update(n, {e}, {}) /\ Go(n, t, "write") /\ UNCHANGED lockVars
         \/ ~possible /\ FinishInsert(n, t) /\ UNCHANGED theory
  BY DEF ApplyInsert, dbVars
<1>2. k \in Task /\ k.pol = p
  BY <1>0 DEF Task
<1>3. /\ e.pol = p /\ e.rule = k.rule /\ [id |-> e.id, rule |-> e.rule] = Loaded(x)
  BY <1>2 DEF Change, Loaded
<1>8. /\ task[n][t].at = "apply"
      /\ dbPolicy' = dbPolicy /\ dbRule' = dbRule /\ accepted' = accepted
  BY <1>1
<1>4. theory[n][p].rules = LoadedSet(dbRule) /\ theory[n][p].id \in Id
  <2>1. theory[n][p].rules = LoadedSet(dbRule)
    BY <1>8 DEF InsertInv, EngineRight
  <2>2. theory[n][p].id \in Id
    BY DEF InsertInv, PoliciesFixed
  <2> QED
    BY <2>1, <2>2
<1>5. TheoryType /\ TextsOnce
  BY DEF TypeOK, TheoryType, TextsOnce
<1>6. CASE ~possible /\ FinishInsert(n, t) /\ UNCHANGED theory
  <2>1. /\ InsertsLocked' /\ task'[n][t].at = "idle" /\ Others(n, t)
    BY <1>1, <1>6, InsertEnds
  <2>2. EngineRight' /\ StoredOnce' /\ NeverRecursive' /\ AcceptedStays'
    <3>1. \A m \in Node, u \in ApiThread :
            \/ task'[m][u] = task[m][u]
            \/ task'[m][u].at = "idle" /\ task[m][u].at # "write"
      BY <1>0, <1>1, <2>1 DEF Others
    <3> QED
      BY <1>1, <1>6, <3>1, QuietInsertStep
  <2>3. PoliciesFixed'
    <3>1. theory' = theory /\ PoliciesFixed
      BY <1>6 DEF InsertInv
    <3> QED
      BY <1>0, <1>8, <2>1, <3>1 DEF PoliciesFixed, Others
  <2>4. ReadsRight'
    <3>1. ReadsRight
      BY DEF InsertInv
    <3> QED
      BY <1>0, <1>8, <2>1, <3>1 DEF ReadsRight, Others
  <2> QED
    BY <2>1, <2>2, <2>3, <2>4 DEF InsertInv
<1>7. CASE possible /\ Update(n, {e}, {}) /\ Go(n, t, "write") /\ UNCHANGED lockVars
  <2> HIDE DEF e
  <2>1. Moved(n, t, "write")
    BY <1>0, <1>7 DEF Go, Task, Moved, Others
  <2>2. /\ a.ins = {e} /\ a.del = {}
        /\ ~HasText(theory[n][p], k.rule)
    BY <1>3, <1>7 DEF Actual
  <2>3. \A y \in dbRule : y.rule # k.rule
    <3>1. \A y \in dbRule : Loaded(y) \in theory[n][p].rules /\ Loaded(y).rule = y.rule
      BY <1>4 DEF LoadedSet, Loaded
    <3> QED
      BY <2>2, <3>1 DEF HasText
  <2>4. \A C \in Recursive : ~(C \subseteq Texts(dbRule \cup {x}))
    <3> DEFINE after == (Texts(Active(n)) \ Texts(a.del)) \cup Texts(a.ins)
    <3>1. \A C \in Recursive : ~(C \subseteq after)
      BY <1>7 DEF Permitted
    <3>2. Texts(dbRule \cup {x}) \subseteq after
      <4>1. Texts(a.del) = {} /\ Texts(a.ins) = {[pol |-> p, rule |-> k.rule]}
        BY <1>3, <2>2 DEF Texts
      <4>2. Texts(Active(n)) = {[pol |-> p, rule |-> y.rule] : y \in theory[n][p].rules}
        BY <1>4, ActiveTexts
      <4>3. ASSUME NEW y \in dbRule PROVE [pol |-> y.pol, rule |-> y.rule] \in after
        <5>1. Loaded(y) \in theory[n][p].rules /\ Loaded(y).rule = y.rule /\ y.pol = p
          BY <1>4 DEF LoadedSet, Loaded, TypeOK, StoredRule
        <5> QED
          BY <4>1, <4>2, <5>1
      <4>4. [pol |-> x.pol, rule |-> x.rule] \in after
        BY <1>2, <4>1
      <4> HIDE DEF after, x
      <4> QED
        BY <4>3, <4>4 DEF Texts
    <3> QED
      BY <3>1, <3>2
  <2>5. /\ \A m \in Node : m # n => theory'[m] = theory[m]
        /\ OnlyPolicyUpdated(n, p, a)
    BY <1>3, <1>5, <1>7, UpdateOnlyPolicy
  <2>6. theory'[n][p].rules = LoadedSet(dbRule \cup {x})
    <3>1. PICK new : /\ \A y \in new : \E d \in a.ins : y = [id |-> d.id, rule |-> d.rule]
                     /\ \A d \in a.ins : \E y \in new : y.rule = d.rule
                     /\ theory'[n][p].rules = {y \in theory[n][p].rules \cup new :
                                                 y.rule \notin {d.rule : d \in a.del}}
      BY <2>5 DEF OnlyPolicyUpdated
    <3>2. new = {Loaded(x)}
      <4> DEFINE lx == Loaded(x)
      <4>1. [id |-> e.id, rule |-> e.rule] = lx
        BY <1>3
      <4> HIDE DEF lx, a
      <4>2. \A y \in new : y = lx
        BY <2>2, <3>1, <4>1
      <4>3. \E y \in new : TRUE
        BY <2>2, <3>1
      <4>4. new = {lx}
        BY <4>2, <4>3
      <4> QED
        BY <4>4 DEF lx
    <3>3. theory'[n][p].rules = LoadedSet(dbRule) \cup {Loaded(x)}
      BY <1>4, <2>2, <3>1, <3>2
    <3> HIDE DEF x
    <3> QED
      BY <3>3 DEF LoadedSet
  <2>7. \A m \in Node, q \in Name : theory'[m][q].id = theory[m][q].id
    <3>1. Loadable({e})
      <4>1. k.id \in Id /\ k.rule \in Rule
        BY <1>1, <1>2 DEF InsertsHaveIds, Task
      <4>2. Loaded(x) \in LoadedRule
        BY <4>1 DEF Loaded, LoadedRule
      <4> QED
        BY <1>3, <4>2 DEF Loadable
    <3> QED
      BY <1>5, <1>7, <3>1, UpdateKeeps
  <2>8. UNCHANGED <<ruleLock, tableLock>>
    BY <1>7 DEF lockVars
  <2>9. PoliciesFixed'
    BY <1>0, <1>1, <2>1, <2>7 DEF InsertInv, PoliciesFixed, Others, Moved
  <2>10. InsertsLocked'
    BY <1>0, <1>1, <2>1, <2>8 DEF InsertInv, InsertsLocked, Others, Moved
  <2>11. ReadsRight'
    BY <1>0, <1>1, <2>1 DEF InsertInv, ReadsRight, Others, Moved
  <2>12. StoredOnce' /\ NeverRecursive'
    BY <1>1 DEF InsertInv, StoredOnce, NeverRecursive, Texts
  <2>13. AcceptedStays'
    <3>1. ASSUME NEW m \in Node, NEW y \in accepted[m]
          PROVE  y \in dbRule /\ Loaded(y) \in theory'[m][y.pol].rules
      <4>1. y \in dbRule /\ Loaded(y) \in theory[m][y.pol].rules
        BY DEF InsertInv, AcceptedStays
      <4>2. CASE m # n
        BY <2>5, <4>1, <4>2
      <4>3. CASE m = n
        <5>1. y.pol = p
          BY <4>1 DEF TypeOK, StoredRule
        <5> QED
          BY <2>6, <4>1, <4>3, <5>1 DEF LoadedSet
      <4> QED
        BY <4>2, <4>3
    <3> QED
      BY <1>1, <3>1 DEF AcceptedStays, Loaded
  <2>14. EngineRight'
    <3> DEFINE Right(m, q) ==
          /\ (\A u \in ApiThread : task'[m][u].at # "write")
               => theory'[m][q].rules \subseteq LoadedSet(dbRule)
          /\ \A u \in ApiThread :
               task'[m][u].at \in {"sync_one", "sync_one_apply", "check", "apply"}
                 => theory'[m][q].rules = LoadedSet(dbRule)
          /\ \A u \in ApiThread : task'[m][u].at = "write" =>
               LET l == task'[m][u]
                   z == [id |-> l.id, pol |-> l.pol, rule |-> l.rule]
               IN /\ theory'[m][q].rules = LoadedSet(dbRule \cup {z})
                  /\ \A y \in dbRule : y.rule # l.rule
                  /\ \A C \in Recursive : ~(C \subseteq Texts(dbRule \cup {z}))
    <3>1. ASSUME NEW m \in Node, m # n, NEW q \in Name PROVE Right(m, q)
      <4>1. theory'[m] = theory[m] /\ \A u \in ApiThread : task'[m][u] = task[m][u]
        BY <1>0, <2>1, <2>5, <3>1 DEF Moved, Others
      <4>2. /\ (\A u \in ApiThread : task'[m][u].at # "write")
                 => theory'[m][q].rules \subseteq LoadedSet(dbRule)
            /\ \A u \in ApiThread :
                 task'[m][u].at \in {"sync_one", "sync_one_apply", "check", "apply"}
                   => theory'[m][q].rules = LoadedSet(dbRule)
        BY <4>1 DEF InsertInv, EngineRight
      <4>3. \A u \in ApiThread : task'[m][u].at # "write"
        BY <1>1, <4>1, InsertAlone
      <4> QED
        BY <4>2, <4>3
    <3>2. ASSUME NEW q \in Name PROVE Right(n, q)
      <4>1. \A u \in ApiThread : u # t => task'[n][u].at = "idle"
        BY <1>0, <1>1, <2>1, InsertAlone DEF Moved, Others
      <4>2. /\ task'[n][t].at = "write"
            /\ [id |-> task'[n][t].id, pol |-> task'[n][t].pol, rule |-> task'[n][t].rule] = x
            /\ task'[n][t].rule = k.rule
        BY <2>1 DEF Moved
      <4> HIDE DEF x
      <4> QED
        BY <2>3, <2>4, <2>6, <4>1, <4>2
    <3> QED
      BY <1>1, <3>1, <3>2, SMTT(30) DEF EngineRight, LoadedSet, Texts
  <2> QED
    BY <2>9, <2>10, <2>11, <2>12, <2>13, <2>14 DEF InsertInv
<1> QED
  BY <1>1, <1>6, <1>7

\* An insertion that is over leaves its engine with stored rules only, and
\* what was accepted before is still there.
LEMMA InsertFinishStep ==
  ASSUME TypeOK, InsertInv, NEW p \in Name, \A q \in Name : q = p,
         NEW n \in Node, NEW t \in ApiThread, WriteRule(n, t) \/ WriteFails(n, t)
  PROVE  InsertInv'
<1> DEFINE k == task[n][t]
           x == [id |-> k.id, pol |-> k.pol, rule |-> k.rule]
<1>0. /\ task \in [Node -> [Thread -> Task]]
      /\ Periodic \in Thread /\ t \in Thread /\ t # Periodic
      /\ \A u \in ApiThread : u \in Thread /\ u # Periodic
  BY ThreadAssumption DEF TypeOK, Thread
<1>1. k.at = "write" /\ FinishInsert(n, t) /\ UNCHANGED dbPolicy
  BY DEF WriteRule, WriteFails, dbVars
<1>2. k \in Task /\ k.pol = p /\ x.pol = p /\ x.rule = k.rule
  BY <1>0 DEF Task
<1>3. /\ InsertsLocked' /\ task'[n][t].at = "idle" /\ Others(n, t)
      /\ \A u \in ApiThread : task'[n][u].at = "idle"
  BY <1>1, InsertEnds
<1>4. /\ \A m \in Node, u \in ApiThread : task'[m][u].at \in {"idle", "lock_table"}
      /\ \A m \in Node, u \in ApiThread : m # n => task[m][u].at # "write"
      /\ task[n][Periodic].at # "rules"
  BY <1>0, <1>1, <1>3, InsertAlone DEF Others
<1>5. /\ theory[n][p].rules = LoadedSet(dbRule \cup {x})
      /\ \A y \in dbRule : y.rule # k.rule
      /\ \A C \in Recursive : ~(C \subseteq Texts(dbRule \cup {x}))
  BY <1>1 DEF InsertInv, EngineRight
<1> HIDE DEF x
<1>6. LoadedSet(dbRule \cup {x}) = LoadedSet(dbRule) \cup {Loaded(x)}
  BY DEF LoadedSet
<1>7. ASSUME \A m \in Node, q \in Name : theory'[m][q].rules \subseteq LoadedSet(dbRule')
      PROVE  EngineRight'
  <2>1. \A m \in Node, u \in ApiThread :
          task'[m][u].at \notin {"sync_one", "sync_one_apply", "check", "apply", "write"}
    BY <1>4
  <2> QED
    BY <1>7, <2>1 DEF EngineRight, LoadedSet
<1>8. \A m \in Node : m # n => theory[m][p].rules \subseteq LoadedSet(dbRule)
  BY <1>4 DEF InsertInv, EngineRight
<1>9. CASE WriteRule(n, t)
  <2>1. /\ dbRule' = dbRule \cup {x} /\ UNCHANGED theory
        /\ accepted' = [accepted EXCEPT ![n] = @ \cup {x}]
    BY <1>9 DEF WriteRule, x
  <2>2. accepted'[n] = accepted[n] \cup {x} /\ \A m \in Node : m # n => accepted'[m] = accepted[m]
    BY <2>1 DEF TypeOK
  <2>3. StoredOnce'
    BY <1>2, <1>5, <2>1 DEF InsertInv, StoredOnce
  <2>4. NeverRecursive'
    BY <1>5, <2>1 DEF NeverRecursive, Texts
  <2>5. PoliciesFixed'
    BY <1>0, <1>1, <1>3, <2>1 DEF InsertInv, PoliciesFixed, Others
  <2>6. ReadsRight'
    <3>1. \A m \in Node : m # n => task'[m][Periodic] = task[m][Periodic]
      BY <1>0, <1>3 DEF Others
    <3>2. task'[n][Periodic].at # "rules"
      BY <1>0, <1>3, <1>4 DEF Others
    <3>3. \A m \in Node, u \in ApiThread : task'[m][u].at # "sync_rules"
      BY <1>4
    <3> QED
      BY <2>1, <2>2, <3>1, <3>2, <3>3 DEF InsertInv, ReadsRight
  <2>7. EngineRight'
    BY <1>5, <1>6, <1>7, <1>8, <2>1 DEF LoadedSet
  <2>8. AcceptedStays'
    <3>1. \A m \in Node : \A y \in accepted[m] :
            y \in dbRule /\ Loaded(y) \in theory[m][y.pol].rules
      BY DEF InsertInv, AcceptedStays
    <3>2. Loaded(x) \in theory[n][x.pol].rules
      BY <1>2, <1>5, <1>6
    <3> QED
      BY <2>1, <2>2, <3>1, <3>2 DEF AcceptedStays, Loaded
  <2> QED
    BY <1>3, <2>3, <2>4, <2>5, <2>6, <2>7, <2>8 DEF InsertInv
<1>10. CASE WriteFails(n, t)
  <2> DEFINE d == Change(k.id, k.pol, k.rule)
             a == Actual(n, {}, {d})
  <2>1. UNCHANGED <<dbRule, accepted>> /\ UpdateIfPermitted(n, {}, {d})
    BY <1>10 DEF WriteFails, dbVars
  <2>2. d.pol = p /\ d.rule = k.rule
    BY <1>2 DEF Change
  <2> HIDE DEF d, k
  <2>3. TheoryType /\ TextsOnce /\ theory[n][p].id \in Id
    BY DEF TypeOK, TheoryType, TextsOnce, InsertInv, PoliciesFixed
  <2>4. \A y : Loaded(y).rule = y.rule
    BY DEF Loaded
  <2>5. a.ins = {} /\ a.del = {d}
    <3>1. HasText(theory[n][p], k.rule)
      BY <1>2, <1>5, <1>6, <2>4, ZenonT(60) DEF HasText
    <3> QED
      BY <2>2, <3>1 DEF Actual
  <2>6. Permitted(n, {}, {d})
    <3> DEFINE after == (Texts(Active(n)) \ Texts(a.del)) \cup Texts(a.ins)
    <3>1. Texts(a.ins) = {} /\ Texts(a.del) = {[pol |-> p, rule |-> k.rule]}
      BY <2>2, <2>5 DEF Texts
    <3>2. Texts(Active(n)) = {[pol |-> p, rule |-> y.rule] : y \in theory[n][p].rules}
      BY <2>3, ActiveTexts
    <3>3. ASSUME NEW c \in after PROVE c \in Texts(dbRule)
      <4>1. PICK y \in theory[n][p].rules : c = [pol |-> p, rule |-> y.rule] /\ y.rule # k.rule
        BY <3>1, <3>2
      <4>2. PICK z \in dbRule : y = Loaded(z)
        BY <1>2, <1>5, <1>6, <2>4, <4>1 DEF LoadedSet
      <4>3. z.pol = p /\ z.rule = y.rule
        BY <2>4, <4>2 DEF TypeOK, StoredRule
      <4> QED
        BY <4>1, <4>2, <4>3 DEF Texts
    <3>4. \A C \in Recursive : ~(C \subseteq after)
      BY <3>3 DEF InsertInv, NeverRecursive
    <3>5. \A e \in {} \cup {d} : Exists(n, e.pol)
      BY <2>2, <2>3 DEF Exists, Id, None
    <3> QED
      BY <3>4, <3>5 DEF Permitted
  <2>7. Update(n, {}, {d})
    BY <2>1, <2>6 DEF UpdateIfPermitted
  <2>8. /\ \A m \in Node : m # n => theory'[m] = theory[m]
        /\ OnlyPolicyUpdated(n, p, a)
    BY <2>2, <2>3, <2>7, UpdateOnlyPolicy
  <2>9. theory'[n][p].rules = {y \in theory[n][p].rules : y.rule # k.rule}
    <3>1. PICK new : /\ \A y \in new : \E e \in a.ins : y = [id |-> e.id, rule |-> e.rule]
                     /\ theory'[n][p].rules = {y \in theory[n][p].rules \cup new :
                                                 y.rule \notin {e.rule : e \in a.del}}
      BY <2>8 DEF OnlyPolicyUpdated
    <3>2. new = {}
      BY <2>5, <3>1
    <3> HIDE DEF a
    <3> QED
      BY <2>2, <2>5, <3>1, <3>2
  <2>10. \A m \in Node, q \in Name : theory'[m][q].id = theory[m][q].id
    <3>1. Loadable({})
      BY DEF Loadable
    <3> QED
      BY <2>3, <2>7, <3>1, UpdateKeeps
  <2>11. StoredOnce' /\ NeverRecursive'
    BY <2>1 DEF InsertInv, StoredOnce, NeverRecursive, Texts
  <2>12. PoliciesFixed'
    BY <1>0, <1>1, <1>3, <2>10 DEF InsertInv, PoliciesFixed, Others
  <2>13. ReadsRight'
    BY <1>0, <1>3, <1>4, <2>1 DEF InsertInv, ReadsRight, Others
  <2>14. EngineRight'
    <3>1. theory'[n][p].rules \subseteq LoadedSet(dbRule)
      <4>1. Loaded(x).rule = k.rule
        BY <1>2, <2>4
      <4>2. ASSUME NEW y \in theory'[n][p].rules PROVE y \in LoadedSet(dbRule)
        <5>1. y \in LoadedSet(dbRule) \cup {Loaded(x)} /\ y.rule # k.rule
          BY <1>5, <1>6, <2>9
        <5> QED
          BY <4>1, <5>1
      <4> QED
        BY <4>2
    <3> QED
      BY <1>7, <1>8, <2>1, <2>8, <3>1
  <2>15. AcceptedStays'
    <3>1. ASSUME NEW m \in Node, NEW y \in accepted[m]
          PROVE  y \in dbRule /\ Loaded(y) \in theory'[m][y.pol].rules
      <4>1. y \in dbRule /\ Loaded(y) \in theory[m][y.pol].rules
        BY DEF InsertInv, AcceptedStays
      <4>2. CASE m # n
        BY <2>8, <4>1, <4>2
      <4>3. CASE m = n
        <5>1. y.pol = p
          BY <4>1 DEF TypeOK, StoredRule
        <5> QED
          BY <1>5, <2>4, <2>9, <4>1, <4>3, <5>1
      <4> QED
        BY <4>2, <4>3
    <3> QED
      BY <2>1, <3>1 DEF AcceptedStays, Loaded
  <2> QED
    BY <1>3, <2>11, <2>12, <2>13, <2>14, <2>15 DEF InsertInv
<1> QED
  BY <1>9, <1>10

\* Engines that only insert rules, into one stored policy, with the table
\* locked and synchronized before each insertion; no callback raises, so that an
\* engine keeps no rule that is not stored.
InsertionsOnly ==
  /\ \A p, q \in Name : p = q
  /\ Existing = Name /\ Op = {"insert_rule"} /\ Replicated = TRUE
  /\ CallbackErrors = FALSE
  /\ MaxRestarts = 0 /\ {} \notin Recursive

\* The invariant of such engines.
LEMMA InsertInvariant ==
  ASSUME InsertionsOnly
  PROVE  Spec => []InsertInv
<1>0. PICK p \in Name : \A q \in Name : q = p
  BY NameAssumption DEF InsertionsOnly
<1>1. Init => InsertInv
  <2> SUFFICES ASSUME Init PROVE InsertInv
    OBVIOUS
  <2>1. \A n \in Node, t \in Thread : task[n][t].at = "idle"
    BY DEF Init, Idle
  <2>2. \A n \in Node, q \in Name :
          /\ theory[n][q].id = dbPolicy[q] /\ theory[n][q].rules = {}
          /\ dbPolicy[q] \in Id
    <3>1. PICK f \in [Name -> 0 .. Cardinality(Existing)] :
            /\ \A q \in Name : f[q] = None <=> q \notin Existing
            /\ dbPolicy = f
            /\ theory = [n \in Node |-> [q \in Name |-> IF q \in Existing
                           THEN [id |-> f[q], rules |-> {}] ELSE FreshTheory[q]]]
      BY DEF Init
    <3>2. \A q \in Name : f[q] \in Id
      BY <3>1, SyncBoundAssumption DEF InsertionsOnly, Id, None
    <3> QED
      BY <3>1, <3>2 DEF InsertionsOnly
  <2>3. dbRule = {} /\ \A n \in Node : accepted[n] = {}
    BY DEF Init
  <2>4. NeverRecursive
    BY <2>3 DEF NeverRecursive, Texts, InsertionsOnly
  <2>5. Thread = ApiThread \cup {Periodic}
    BY DEF Thread
  <2>6. PoliciesFixed
    BY <2>1, <2>2 DEF PoliciesFixed
  <2>7. InsertsLocked
    BY <2>1, <2>5 DEF InsertsLocked
  <2>8. ReadsRight
    BY <2>1, <2>5 DEF ReadsRight
  <2>9. EngineRight
    BY <2>1, <2>2, <2>5 DEF EngineRight
  <2> QED
    BY <2>3, <2>4, <2>6, <2>7, <2>8, <2>9 DEF InsertInv, StoredOnce, AcceptedStays
<1>2. TypeOK /\ InsertsHaveIds /\ InsertInv /\ [Next]_vars => InsertInv'
  <2> SUFFICES ASSUME TypeOK, InsertsHaveIds, InsertInv, [Next]_vars
               PROVE  InsertInv'
    OBVIOUS
  <2>1. CASE UNCHANGED vars
    <3>1. UNCHANGED <<dbPolicy, dbRule, tableLock, ruleLock, theory, task, accepted>>
      BY <2>1 DEF vars, dbVars, lockVars
    <3>2. EngineRight' /\ StoredOnce' /\ NeverRecursive' /\ AcceptedStays'
      BY <3>1, QuietInsertStep
    <3> QED
      BY <3>1, <3>2 DEF InsertInv, PoliciesFixed, InsertsLocked, ReadsRight
  <2>2. CASE Next
    <3>1. PICK n \in Node :
            \/ \E t \in ApiThread : Request(n, t) \/ Continue(n, t)
            \/ StartSyncRules(n) \/ SyncRules(n) \/ StartSyncPolicies(n) \/ SyncPolicies(n)
            \/ Restart(n)
      BY <2>2 DEF Next
    <3>2. ~Restart(n)
      BY DEF Restart, TypeOK, InsertionsOnly
    <3>3. ASSUME NEW t \in ApiThread, Request(n, t)
          PROVE  InsertInv'
      <4>1. \E q \in Name, r \in Rule : InsertRule(n, t, q, r)
        BY <3>3 DEF Request, InsertionsOnly
      <4> QED
        BY <4>1, InsertBegins DEF InsertionsOnly
    <3>4. ASSUME NEW t \in ApiThread, Continue(n, t)
          PROVE  InsertInv'
      <4>1. ~DeleteApply(n, t) /\ ~DeleteWrite(n, t) /\ ~InsertRaises(n, t)
        BY DEF DeleteApply, DeleteWrite, InsertRaises, InsertInv, InsertsLocked, InsertionsOnly
      <4>2. CASE LockTable(n, t)
        BY <4>2, InsertBegins DEF InsertionsOnly
      <4>3. CASE SyncBeforeInsert(n, t)
        BY <1>0, <4>3, InsertSyncSteps
      <4>4. CASE SyncOneRead(n, t) \/ SyncOneApply(n, t) \/ CheckPolicy(n, t)
        BY <4>4, InsertPolicySteps
      <4>5. CASE ApplyInsert(n, t)
        BY <1>0, <4>5, InsertApplyStep
      <4>6. CASE WriteRule(n, t) \/ WriteFails(n, t)
        BY <1>0, <4>6, InsertFinishStep
      <4> QED
        BY <3>4, <4>1, <4>2, <4>3, <4>4, <4>5, <4>6 DEF Continue
    <3>5. CASE StartSyncRules(n) \/ StartSyncPolicies(n) \/ SyncPolicies(n)
      BY <3>5, InsertPeriodicSteps
    <3>6. CASE SyncRules(n)
      BY <1>0, <3>6, InsertSyncSteps
    <3> QED
      BY <3>1, <3>2, <3>3, <3>4, <3>5, <3>6
  <2> QED
    BY <2>1, <2>2
<1>3. Init => InsertsHaveIds
  BY DEF Init, InsertsHaveIds, Idle, Thread
<1>4. TypeOK /\ InsertsHaveIds /\ [Next]_vars => InsertsHaveIds'
  BY InsertIdsStep
<1> QED
  BY <1>1, <1>2, <1>3, <1>4, TypeCorrect, PTL DEF Spec

\* However many engines and threads insert rules into a policy at once, and
\* whichever of their writes fail, the stored rules are never recursive
\* together: locking policy_rules and synchronizing before the check is enough.
THEOREM InsertionsNeverRecursive ==
  ASSUME InsertionsOnly
  PROVE  Spec => []NeverRecursive
<1>1. InsertInv => NeverRecursive
  BY DEF InsertInv
<1> QED
  BY <1>1, InsertInvariant, PTL

\* A rule that one of those engines has accepted stays stored and stays in
\* that engine, whatever the synchronizers read before it was there.
THEOREM InsertionsStay ==
  ASSUME InsertionsOnly
  PROVE  Spec => []AcceptedStays
<1>1. InsertInv => AcceptedStays
  BY DEF InsertInv
<1> QED
  BY <1>1, InsertInvariant, PTL
=============================================================================
