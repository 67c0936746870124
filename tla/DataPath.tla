------------------------------ MODULE DataPath ------------------------------
(***************************************************************************)
(* From an API's objects to the answer of a query: a datasource's driver   *)
(* translates what it polled into tables (Translation), the engine keeps   *)
(* the published tables as the facts of the policy named after the         *)
(* datasource, and queries run over those facts and the rules of the other *)
(* policies (TopDown).  How the tables travel is DataService's concern;    *)
(* here a delta or a snapshot is applied as it is published.               *)
(***************************************************************************)
EXTENDS Translation, TopDown

CONSTANTS
    Source,         \* the datasource, and the policy with its facts
    Polls,          \* [Translators -> Seq(objects)]: what a poll can return
    RulePool,       \* <<policy, rule>>: the rules users may insert
    QueryPool,      \* <<policy, query, findAll, save>>: what they may ask
    MaxPolls,       \* bound on the polls
    MaxRules        \* bound on the rules present at once

VARIABLES published,    \* [DriverTables -> rows]: _last_published_data
          polled,       \* the objects of the last poll that succeeded
          polls         \* the number of polls so far

driverVars == <<state, published, polled, polls>>
vars == <<driverVars, theoryVars>>

(* The engine has subscribed to every table before the first poll, so that  *)
(* every table has been published, with nothing in it.                      *)
Init ==
    /\ InitState
    /\ InitTheories
    /\ published = state
    /\ polled = [root \in Translators |-> <<>>]
    /\ polls = 0

(* The facts and indexes of the source, table by table *)
SetTables(new) ==
    /\ facts' = [facts EXCEPT ![Source] = [t \in Tables |-> new[t].facts]]
    /\ index' = [index EXCEPT ![Source] = [t \in Tables |-> new[t].index]]
    /\ answer' = NoAnswer

(* As if a table were compared with what it was before the poll *)
DifferentialToPrior(t) == [ins |-> state'[t] \ state[t], del |-> state[t] \ state'[t]]

(* publish with use_snapshot=False: a table is compared with what was last  *)
(* published of it, which is not what the poll found in it if the poll      *)
(* before failed.                                                           *)
Differential(t) ==
    [ins |-> state'[t] \ published[t], del |-> published[t] \ state'[t]]

(* poll(): all tables are filled anew, and then all are published *)
Poll(objs) ==
    LET delta == [t \in Tables |->
            IF t \in DriverTables
            THEN UpdatedTable(Source, t, Differential(t).ins, Differential(t).del)
            ELSE [facts |-> facts[Source][t], index |-> index[Source][t]]]
        results == Converted(objs)
    IN  /\ polls < MaxPolls
        /\ Convertible(results) = Translators
        /\ UpdateFromDatasource(results)
        /\ published' = state'
        /\ polled' = objs
        /\ polls' = polls + 1
        /\ SetTables(delta)
        /\ UNCHANGED rules

(* poll() with objects that one of its translators cannot convert: some     *)
(* tables may have been filled anew, and none is published.                 *)
PollRaises(objs) ==
    LET results == Converted(objs)
    IN  /\ polls < MaxPolls
        /\ Convertible(results) # Translators
        /\ UpdateFromDatasource(results)
        /\ polls' = polls + 1
        /\ answer' = NoAnswer
        /\ UNCHANGED <<published, polled, facts, index, rules>>

(* The engine subscribes anew and is sent the tables as they were last      *)
(* published; clear_table takes away rules for them, too.                   *)
Resubscribe ==
    LET whole == [t \in Tables |->
            IF t \in DriverTables THEN InitializedTable(published[t])
            ELSE [facts |-> facts[Source][t], index |-> index[Source][t]]]
    IN  /\ SetTables(whole)
        /\ rules' = [rules EXCEPT ![Source] =
                        {r \in @ : r.head.table \notin DriverTables}]
        /\ UNCHANGED driverVars

Insert(th, rule) ==
    /\ Cardinality(UNION {rules[t] : t \in Theories}) < MaxRules
    /\ InsertRule(th, rule)
    /\ UNCHANGED driverVars

Delete(th, rule) ==
    /\ DeleteRule(th, rule)
    /\ UNCHANGED driverVars

Ask(q) ==
    /\ answer = NoAnswer
    /\ Query(q[1], q[2], q[3], q[4])
    /\ UNCHANGED driverVars

Next ==
    \/ \E p \in Polls : Poll(p)
    \/ \E p \in Polls : PollRaises(p)
    \/ Resubscribe
    \/ \E r \in RulePool : Insert(r[1], r[2])
    \/ \E r \in RulePool : Delete(r[1], r[2])
    \/ \E q \in QueryPool : Ask(q)

Spec == Init /\ [][Next]_vars

-----------------------------------------------------------------------------
(* Types; the rules in force are rules that were inserted, with all the     *)
(* literals of their bodies, in an order in which each literal finds what   *)
(* it needs bound (compile.py 1475).                                        *)
TypeOK ==
    /\ DOMAIN state = DriverTables /\ DOMAIN published = DriverTables
    /\ polls \in 0..MaxPolls
    /\ polled \in Polls \cup {[root \in Translators |-> <<>>]}
    /\ \A th \in Theories : \A t \in Tables : \A f \in facts[th][t] :
            ToSet(f) \subseteq Objects
    /\ \A th \in Theories : \A r \in rules[th] :
            /\ \E p \in RulePool : /\ p[1] = th /\ p[2].head = r.head
                                   /\ Len(p[2].body) = Len(r.body)
                                   /\ ToSet(p[2].body) = ToSet(r.body)
            /\ \A i \in DOMAIN r.body : Needs(r.body[i]) \subseteq
                    UNION {VariablesOf(r.body[j]) : j \in 1..(i - 1)}

(* The engine's facts for a datasource are the translation of the objects   *)
(* of the last poll that succeeded: nothing is left over of what earlier    *)
(* polls returned, and what a poll that raised put into some of the         *)
(* driver's tables neither reaches the engine nor keeps the next poll from  *)
(* sending all that the engine lacks (datasource_driver.py 1378,            *)
(* data_service.py 234).                                                    *)
FactsAreObjects ==
    \A root \in Translators :
        LET rows == ConvertObjs(polled[root], root).rows
        IN  \A t \in ToSet(RelatedTables(root)) :
                facts[Source][t] = {r[2] : r \in {r \in rows : r[1] = t}}
=============================================================================
