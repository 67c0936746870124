------------------------------ MODULE TopDown ------------------------------
(***************************************************************************)
(* Policies as the engine stores and queries them: the rules and facts of  *)
(* the nonrecursive theories (nonrecursive.py, ruleset.py, factset.py),    *)
(* the reordering of a rule's body when it is inserted (compile.py), and   *)
(* the depth-first evaluation of queries and abductions (topdown.py) with  *)
(* the binding structures it changes and undoes as it goes (unify.py).     *)
(*                                                                         *)
(* A term is a non-empty tuple whose head is its name; it is a variable    *)
(* when that name is in Variables.  The variables of the query and of      *)
(* every rule that is tried live in scopes of their own, numbered as they  *)
(* are created: scope i is one BiUnifier object, and a binding structure   *)
(* maps <<scope, variable>> to <<term, scope of that term>>.               *)
(***************************************************************************)
EXTENDS Integers, Sequences, FiniteSets, SequencesExt, FiniteSetsExt

CONSTANTS
    Theories,       \* names of the policies
    Tables,         \* names of the tables they define
    Variables,      \* names of the variables that rules and queries use
    Objects,        \* every constant that facts, rules and queries can hold
    Builtins,       \* [name |-> [inputs, outputs, code]], external
    Includes        \* [Theories -> Seq(Theories)]: Theory.includes

VARIABLES
    facts,          \* [Theories -> [Tables -> set of tuples]]: FactSet._facts
    index,          \* FactSet._indicies: [columns -> [key -> set of tuples]]
    rules,          \* [Theories -> set of rules]: RuleSet.rules
    answer          \* the last query and what the search returned for it

theoryVars == <<facts, index, rules, answer>>

Local == "none"     \* table.service is None
NoAnswer == [kind |-> "none"]

IsVariable(term) == Head(term) \in Variables
VariablesOf(lit) == {t \in ToSet(lit.args) : IsVariable(t)}
IsBuiltin(lit) ==
    /\ lit.table \in DOMAIN Builtins
    /\ Len(lit.args) = Builtins[lit.table].inputs + Builtins[lit.table].outputs
Complement(lit) == [lit EXCEPT !.negated = ~@]

-----------------------------------------------------------------------------
(* Binding structures: unify.py *)

NoBindings == <<>>

(* BiUnifier.apply_full: the term a term of a scope stands for, and the     *)
(* scope of that term.                                                      *)
RECURSIVE ApplyFull(_, _, _)
ApplyFull(b, term, scope) ==
    IF <<scope, term>> \notin DOMAIN b THEN <<term, scope>>
    ELSE LET val == b[<<scope, term>>]
         IN  IF IsVariable(val[1]) THEN ApplyFull(b, val[1], val[2]) ELSE val

Apply(b, term, scope) == ApplyFull(b, term, scope)[1]

(* apply_full with a caller: an unbound variable that is not one of the     *)
(* query's is given a new name, one per scope.  The recursive call does     *)
(* not pass the caller on, so a variable reached through another one keeps  *)
(* its name.                                                                *)
ApplyRenaming(b, term, scope, callerVars) ==
    IF /\ <<scope, term>> \notin DOMAIN b
       /\ IsVariable(term)
       /\ ~(term \in callerVars /\ scope = 0)
    THEN Append(term, scope)
    ELSE Apply(b, term, scope)

Plug(b, lit, scope) ==
    [lit EXCEPT !.args = [i \in DOMAIN @ |-> Apply(b, @[i], scope)]]

UndoAll(b, changes) ==
    [p \in DOMAIN b \ ToSet(changes) |-> b[p]]

(* bi_unify_lists: position by position, the left variable is bound before  *)
(* the right one; a clash undoes what was bound.                            *)
UnifyLists(b0, terms1, scope1, terms2, scope2) ==
    LET Step(acc, i) ==
            LET v1 == ApplyFull(acc.b, terms1[i], scope1)
                v2 == ApplyFull(acc.b, terms2[i], scope2)
                Bind(v, to) ==
                    [acc EXCEPT
                       !.b = [p \in DOMAIN @ \cup {<<v[2], v[1]>>} |->
                                IF p = <<v[2], v[1]>> THEN to ELSE @[p]],
                       !.changes = Append(@, <<v[2], v[1]>>)]
            IN  IF ~acc.ok THEN acc
                ELSE IF v1[1] = v2[1] /\ (IsVariable(v1[1]) => v1[2] = v2[2])
                     THEN acc
                ELSE IF IsVariable(v1[1]) THEN Bind(v1, v2)
                ELSE IF IsVariable(v2[1]) THEN Bind(v2, v1)
                ELSE [ok |-> FALSE, b |-> UndoAll(acc.b, acc.changes),
                      changes |-> <<>>]
    IN  IF Len(terms1) # Len(terms2)
        THEN [ok |-> FALSE, b |-> b0, changes |-> <<>>]
        ELSE FoldLeft(Step, [ok |-> TRUE, b |-> b0, changes |-> <<>>],
                      [i \in DOMAIN terms1 |-> i])

(* Tablename.same with a default theory *)
ServiceOf(lit, th) == IF lit.service = Local THEN th ELSE lit.service

-----------------------------------------------------------------------------
(* Facts and their indexes: factset.py *)

KeyOf(columns, fact) == [i \in DOMAIN columns |-> fact[columns[i]]]

(* FactSet.find by iterating over the facts *)
Scan(th, table, columns, key) ==
    {f \in facts[th][table] : KeyOf(columns, f) = key}

(* FactSet.find: the index on these columns when there is one *)
Find(th, table, columns, key) ==
    LET ix == index[th][table]
    IN  IF columns \notin DOMAIN ix THEN Scan(th, table, columns, key)
        ELSE IF key \in DOMAIN ix[columns] THEN ix[columns][key] ELSE {}

(* FactSet.create_index: one entry per key that some fact has; no fact, no  *)
(* index.                                                                   *)
CreateIndex(th, table, columns) ==
    [k \in {KeyOf(columns, f) : f \in facts[th][table]} |->
        Scan(th, table, columns, k)]

AddFactToIndex(fact, columns, entries) ==
    LET k == KeyOf(columns, fact)
    IN  [x \in DOMAIN entries \cup {k} |->
            (IF x \in DOMAIN entries THEN entries[x] ELSE {})
            \cup (IF x = k THEN {fact} ELSE {})]

(* As if a removed fact stayed in the indexes *)
RemoveFactFromIndexNot(fact, columns, entries) == entries

RemoveFactFromIndex(fact, columns, entries) ==
    LET k == KeyOf(columns, fact)
        left == entries[k] \ {fact}
    IN  [x \in IF left = {} THEN DOMAIN entries \ {k} ELSE DOMAIN entries |->
            IF x = k THEN left ELSE entries[x]]

(* RuleSet.get_rules: the facts that agree with the bound arguments of the  *)
(* literal, as rules without a body, then the table's rules.  A lookup with *)
(* bound arguments leaves an index on those columns.                        *)
BoundColumns(lit) == SelectSeq([i \in DOMAIN lit.args |-> i],
                               LAMBDA i : ~IsVariable(lit.args[i]))

HeadIndex(th, lit) ==
    LET columns == BoundColumns(lit)
        found == Find(th, lit.table, columns, KeyOf(columns, lit.args))
    IN  {[head |-> [table |-> lit.table, service |-> Local, args |-> f,
                    negated |-> FALSE],
          body |-> <<>>] : f \in found}
        \cup {r \in rules[th] : r.head.table = lit.table}

-----------------------------------------------------------------------------
(* The search: topdown.py                                                   *)
(*                                                                          *)
(* The chain of TopDownContexts is the sequence of goals still to prove: a  *)
(* literal, its scope and the theory it is evaluated in.  A caller k is the *)
(* constant part of a TopDownCaller, and s what the search changes: the     *)
(* bindings, the number of scopes, the literals saved so far, the results,  *)
(* the columns it looked facts up by, and whether an assertion failed,      *)
(* which ends it.  A search returns [done, s], done being what the code's   *)
(* methods return.                                                          *)

Goals(literals, scope, th) ==
    [i \in DOMAIN literals |->
        [lit |-> literals[i], scope |-> scope, theory |-> th]]

Fail(s) == [done |-> FALSE, s |-> s]
AssertionError(s) == [done |-> TRUE, s |-> [s EXCEPT !.error = TRUE]]
Over(r) == r.done \/ r.s.error

(* _top_down_finish when nothing is left to prove *)
Found(k, s) ==
    [done |-> TRUE,
     s |-> [s EXCEPT !.results = @ \cup
        {[binding |-> [v \in k.variables |-> Apply(s.b, v, 0)],
          support |-> [i \in DOMAIN s.support |->
            [s.support[i].lit EXCEPT !.args = [j \in DOMAIN @ |->
                ApplyRenaming(s.b, @[j], s.support[i].scope, k.variables)]]]]}]]

(* caller.save, which comes before everything else *)
IsSaved(goal, k) == k.abduce /\ <<goal.lit.service, goal.lit.table>> \in k.save

InputsOf(lit) == SubSeq(lit.args, 1, Builtins[lit.table].inputs)
HasVariable(terms) == \E t \in ToSet(terms) : IsVariable(t)

(* The assertions: a negated literal is ground when it is evaluated, and so *)
(* are the inputs of a builtin, unless this is an abduction.                *)
IsUnground(goal, k, s) ==
    LET lit == Plug(s.b, goal.lit, goal.scope)
    IN  /\ ~IsSaved(goal, k)
        /\ \/ lit.negated /\ HasVariable(lit.args)
           \/ ~lit.negated /\ IsBuiltin(lit) /\ HasVariable(InputsOf(lit)) /\ ~k.abduce

(* A way to prove a literal: terms that have to unify with some of its      *)
(* arguments, a body to prove in a theory, or the literal saved instead     *)
Way(terms, args, body, th) ==
    [terms |-> terms, args |-> args, body |-> body, theory |-> th, save |-> FALSE]
AtOnce(th) == Way(<<>>, <<>>, <<>>, th)
BySaving(th) == [AtOnce(th) EXCEPT !.save = TRUE]

(* _top_down_builtin: an error in the builtin's code is a failure, and      *)
(* outputs are unified with the remaining arguments.                        *)
BuiltinWays(lit, plugged, th) ==
    LET built == Builtins[lit.table]
        in == InputsOf(plugged)
    IN  IF HasVariable(in) THEN {BySaving(th)}
        ELSE IF in \notin DOMAIN built.code THEN {}
        ELSE IF built.outputs = 0 THEN IF built.code[in] THEN {AtOnce(th)} ELSE {}
        ELSE {Way(built.code[in], SubSeq(lit.args, built.inputs + 1, Len(lit.args)),
                  <<>>, th)}

(* _top_down_th: every fact and rule of the table; same_schema compares the *)
(* services, by default the theory's own.                                   *)
TableWays(lit, plugged, th) ==
    {Way(r.head.args, lit.args, r.body, th) :
        r \in {r \in HeadIndex(th, plugged) : ServiceOf(r.head, th) = ServiceOf(lit, th)}}

IsTable(lit) == ~IsBuiltin(lit) /\ lit.table \notin {"true", "false"}

(* _top_down_eval for a literal that is not negated *)
Ways(goal, th, k, s) ==
    LET plugged == Plug(s.b, goal.lit, goal.scope)
    IN  IF IsSaved(goal, k) THEN {BySaving(th)}
        ELSE IF IsTable(goal.lit) THEN TableWays(goal.lit, plugged, th)
        ELSE IF IsBuiltin(goal.lit) THEN BuiltinWays(goal.lit, plugged, th)
        ELSE IF goal.lit.table = "true" THEN {AtOnce(th)} ELSE {}

(* _top_down_module and _top_down_includes: the theories to look in *)
RECURSIVE WithIncludes(_)
WithIncludes(th) ==
    <<th>> \o FlattenSeq([i \in DOMAIN Includes[th] |-> WithIncludes(Includes[th][i])])

LookIn(goal, k) ==
    LET th == ServiceOf(goal.lit, goal.theory)
    IN  IF IsSaved(goal, k) \/ ~IsTable(goal.lit) THEN <<goal.theory>>
        ELSE IF th \in Theories THEN WithIncludes(th) ELSE <<>>

LookedUp(s, goal, th, k) ==
    IF IsSaved(goal, k) \/ ~IsTable(goal.lit) THEN s
    ELSE [s EXCEPT !.lookups = @ \cup
            {<<th, goal.lit.table, BoundColumns(Plug(s.b, goal.lit, goal.scope))>>}]

(* As if a saved literal were forgotten *)
TakenSavesNothing(s, goal, way, u) == [s EXCEPT !.b = u.b, !.scopes = @ + 1]

(* A way is taken: its terms were unified, in a new scope *)
Taken(s, goal, way, u) ==
    [s EXCEPT !.b = u.b, !.scopes = @ + 1,
              !.support = IF way.save THEN Append(@, goal) ELSE @]

(* As if the search returned before it undid the bindings *)
LeftKeepsBindings(r, k, support, changes) ==
    [done |-> r.done /\ ~k.findAll,
     s |-> [r.s EXCEPT !.b = IF r.done /\ ~k.findAll THEN @ ELSE UndoAll(@, changes),
                       !.support = support]]

(* As if one proof were enough *)
LeftFirstOnly(r, k, support, changes) ==
    [done |-> r.done,
     s |-> [r.s EXCEPT !.b = UndoAll(@, changes), !.support = support]]

(* A way is left: whatever came of it, the bindings are undone and the      *)
(* saved literal is dropped; one proof is enough unless all are asked for.  *)
Left(r, k, support, changes) ==
    [done |-> r.done /\ ~k.findAll,
     s |-> [r.s EXCEPT !.b = UndoAll(@, changes), !.support = support]]

(* _top_down_eval and _top_down_finish, depth first.  A negated literal     *)
(* holds when a search of its own for one proof of its complement, which    *)
(* saves nothing, finds none.                                               *)
RECURSIVE Search(_, _, _)
Search(goals, k, s) ==
    LET goal == Head(goals)
        Take(acc, way, u) ==
            IF ~u.ok THEN acc
            ELSE Left(Search(Goals(way.body, acc.s.scopes, way.theory) \o Tail(goals), k,
                             Taken(acc.s, goal, way, u)),
                      k, acc.s.support, u.changes)
        Try(way, acc) ==
            IF Over(acc) THEN acc
            ELSE Take(acc, way, UnifyLists(acc.s.b, way.terms, acc.s.scopes,
                                           way.args, goal.scope))
        TryTheory(acc, th) ==
            IF Over(acc) THEN acc
            ELSE FoldSet(Try, Fail(LookedUp(acc.s, goal, th, k)), Ways(goal, th, k, acc.s))
        Negation(inner) ==
            IF inner.s.error THEN inner
            ELSE FoldSet(Try, Fail([inner.s EXCEPT !.results = s.results,
                                                   !.support = s.support]),
                         IF inner.s.results = {} THEN {AtOnce(goal.theory)} ELSE {})
    IN  IF goals = <<>> THEN Found(k, s)
        ELSE IF IsUnground(goal, k, s) THEN AssertionError(s)
        ELSE IF goal.lit.negated /\ ~IsSaved(goal, k)
        THEN Negation(Search(<<[goal EXCEPT !.lit = Complement(@)]>>,
                             [k EXCEPT !.findAll = FALSE, !.abduce = FALSE],
                             [s EXCEPT !.results = {}, !.support = <<>>]))
        ELSE FoldLeft(TryTheory, Fail(s), LookIn(goal, k))

(* top_down_abduction: the whole search for LITERALS.  Scope 0 is the       *)
(* query's own binding.                                                     *)
TopDownAbduction(th, literals, variables, findAll, abduce, save) ==
    Search(Goals(literals, 0, th),
           [variables |-> variables, findAll |-> findAll, abduce |-> abduce,
            save |-> save],
           [b |-> NoBindings, scopes |-> 1, support |-> <<>>, results |-> {},
            lookups |-> {}, error |-> FALSE]).s

-----------------------------------------------------------------------------
(* Accepting a rule: compile.py *)

(* As if only builtins waited *)
NeedsBuiltinsOnly(lit) ==
    IF IsBuiltin(lit)
    THEN {t \in ToSet(SubSeq(lit.args, 1, Builtins[lit.table].inputs)) : IsVariable(t)}
    ELSE {}

(* reorder_for_safety: a literal that is neither negated nor a builtin      *)
(* binds its variables and is taken at once; the others wait until all the  *)
(* variables they need are bound, and then come first.                      *)
Needs(lit) ==
    IF lit.negated THEN VariablesOf(lit)
    ELSE IF IsBuiltin(lit)
         THEN {t \in ToSet(SubSeq(lit.args, 1, Builtins[lit.table].inputs)) :
                    IsVariable(t)}
    ELSE {}

RECURSIVE TakeWaiting(_)
TakeWaiting(acc) ==
    LET ready == {i \in DOMAIN acc.waiting : Needs(acc.waiting[i]) \subseteq acc.safe}
        first == CHOOSE i \in ready : \A j \in ready : i <= j
        lit == acc.waiting[first]
    IN  IF ready = {} THEN acc
        ELSE TakeWaiting([body |-> Append(acc.body, lit),
                          safe |-> acc.safe \cup VariablesOf(lit),
                          waiting |-> RemoveAt(acc.waiting, first)])

Reorder(body) ==
    FoldLeft(LAMBDA acc, lit :
                IF Needs(lit) \subseteq acc.safe
                THEN TakeWaiting([acc EXCEPT !.body = Append(@, lit),
                                             !.safe = @ \cup VariablesOf(lit)])
                ELSE [acc EXCEPT !.waiting = Append(@, lit)],
             [body |-> <<>>, safe |-> {}, waiting |-> <<>>], body)

BodyVariables(rule) == UNION {VariablesOf(lit) : lit \in ToSet(rule.body)}

(* rule_errors: rule_head_safety and rule_body_safety *)
RuleIsSafe(rule) ==
    /\ VariablesOf(rule.head) \subseteq BodyVariables(rule)
    /\ Reorder(rule.body).waiting = <<>>

(* The engine's recursion check over the rules of all policies *)
Dependencies(rs) ==
    UNION {{<<<<th, r.head.table>>,
              <<IF lit.service = Local THEN th ELSE lit.service, lit.table>>>> :
              lit \in ToSet(r.body)} : <<th, r>> \in
            UNION {{<<th, r>> : r \in rs[th]} : th \in Theories}}

IsRecursive(rs) ==
    LET deps == Dependencies(rs)
    IN  \E tables \in SUBSET {d[1] : d \in deps} :
            /\ tables # {}
            /\ \A t \in tables : \E d \in deps : d[1] = t /\ d[2] \in tables

-----------------------------------------------------------------------------
(* The operations *)

InitTheories ==
    /\ facts = [th \in Theories |-> [t \in Tables |-> {}]]
    /\ index = [th \in Theories |-> [t \in Tables |-> <<>>]]
    /\ rules = [th \in Theories |-> {}]
    /\ answer = NoAnswer

(* RuleSet.add_rule and discard_rule for one fact: every index of the table *)
(* follows; a table that loses its last fact loses its indexes.             *)
AddFact(t, fact) ==
    IF fact \in t.facts THEN t
    ELSE [facts |-> t.facts \cup {fact},
          index |-> [cols \in DOMAIN t.index |->
                        AddFactToIndex(fact, cols, t.index[cols])]]

DiscardFact(t, fact) ==
    IF fact \notin t.facts THEN t
    ELSE IF t.facts = {fact} THEN [facts |-> {}, index |-> <<>>]
    ELSE [facts |-> t.facts \ {fact},
          index |-> [cols \in DOMAIN t.index |->
                        RemoveFactFromIndex(fact, cols, t.index[cols])]]

(* receive_data with a delta: the rows to delete, then the rows to add *)
UpdatedTable(th, table, toAdd, toDel) ==
    LET t == [facts |-> facts[th][table], index |-> index[th][table]]
    IN  FoldSet(LAMBDA f, acc : AddFact(acc, f),
                FoldSet(LAMBDA f, acc : DiscardFact(acc, f), t, toDel), toAdd)

(* receive_data with a snapshot: clear_table, then the facts one by one *)
InitializedTable(rows) ==
    FoldSet(LAMBDA f, acc : AddFact(acc, f), [facts |-> {}, index |-> <<>>], rows)

(* As if the rule were stored as it was written *)
InsertRuleUnordered(th, rule) ==
    LET rules1 == [rules EXCEPT ![th] = @ \cup {rule}]
    IN  /\ rule \notin rules[th]
        /\ RuleIsSafe(rule)
        /\ ~IsRecursive(rules1)
        /\ rules' = rules1
        /\ answer' = NoAnswer
        /\ UNCHANGED <<facts, index>>

(* NonrecursiveRuleTheory.update for a rule that passes the checks *)
InsertRule(th, rule) ==
    LET ordered == [rule EXCEPT !.body = Reorder(@).body]
        rules1 == [rules EXCEPT ![th] = @ \cup {ordered}]
    IN  /\ ordered \notin rules[th]
        /\ RuleIsSafe(rule)
        /\ ~IsRecursive(rules1)
        /\ rules' = rules1
        /\ answer' = NoAnswer
        /\ UNCHANGED <<facts, index>>

DeleteRule(th, rule) ==
    LET ordered == [rule EXCEPT !.body = Reorder(@).body]
    IN  /\ ordered \in rules[th]
        /\ rules' = [rules EXCEPT ![th] = @ \ {ordered}]
        /\ answer' = NoAnswer
        /\ UNCHANGED <<facts, index>>

(* The indexes that the lookups of a search leave behind *)
Indexed(lookups) ==
    [th \in Theories |-> [t \in Tables |->
        LET cols == {l[3] : l \in {l \in lookups : l[1] = th /\ l[2] = t}} \ {<<>>}
            new == IF facts[th][t] = {} THEN {} ELSE cols
        IN  [c \in DOMAIN index[th][t] \cup new |->
                IF c \in DOMAIN index[th][t] THEN index[th][t][c]
                ELSE CreateIndex(th, t, c)]]]

PlugWith(lit, binding) ==
    [lit EXCEPT !.args = [i \in DOMAIN @ |->
        IF IsVariable(@[i]) THEN binding[@[i]] ELSE @[i]]]

(* TopDownTheory.select and abduce, for an atom; save = {} is a select *)
Query(th, query, findAll, save) ==
    LET s == TopDownAbduction(th, <<query>>, VariablesOf(query), findAll,
                              save # {}, save)
    IN  /\ answer' = [kind |-> IF save = {} THEN "select" ELSE "abduce",
                      theory |-> th, query |-> query, findAll |-> findAll,
                      results |-> {[head |-> PlugWith(query, r.binding),
                                    body |-> r.support] : r \in s.results},
                      bindings |-> DOMAIN s.b, error |-> s.error]
        /\ index' = Indexed(s.lookups)
        /\ UNCHANGED <<facts, rules>>

-----------------------------------------------------------------------------
(* What the answers should be *)

(* An instance of a literal is true when its table holds it, or some rule   *)
(* has an instance with this head and a body that is true: the meaning of   *)
(* the policy, with no unification, order or search in it.                  *)
RECURSIVE AllIncluded(_)
AllIncluded(th) == {th} \cup UNION {AllIncluded(i) : i \in ToSet(Includes[th])}

RECURSIVE IsTrue(_, _, _)
IsTrue(th, lit, fs) ==
    LET where == IF lit.service = Local THEN th ELSE lit.service
        (* the ways to give a rule's variables values so that its head is lit *)
        Instances(r) ==
            LET h == [v \in VariablesOf(r.head) |->
                        lit.args[CHOOSE i \in DOMAIN r.head.args : r.head.args[i] = v]]
            IN  IF Len(r.head.args) = Len(lit.args) /\ PlugWith(r.head, h).args = lit.args
                THEN {g @@ h : g \in [BodyVariables(r) \ DOMAIN h -> Objects]} ELSE {}
        all == IF lit.service = Local THEN AllIncluded(th) ELSE {where}
    IN  IF lit.negated THEN ~IsTrue(th, Complement(lit), fs)
        ELSE IF IsBuiltin(lit)
        THEN LET n == Builtins[lit.table].inputs
                 in == SubSeq(lit.args, 1, n)
                 code == Builtins[lit.table].code
             IN  /\ in \in DOMAIN code
                 /\ IF Len(lit.args) = n THEN code[in]
                    ELSE code[in] = SubSeq(lit.args, n + 1, Len(lit.args))
        ELSE \E t \in all \cap Theories :
                \/ lit.args \in fs[t][lit.table]
                \/ \E r \in rules[t] :
                      /\ r.head.table = lit.table
                      /\ \E g \in Instances(r) : \A i \in DOMAIN r.body :
                            IsTrue(t, PlugWith(r.body[i], g), fs)

TrueInstances(th, query) ==
    {q \in {PlugWith(query, g) : g \in [VariablesOf(query) -> Objects]} :
        IsTrue(th, q, facts)}

(* A select returns exactly the instances of the query that the policies    *)
(* make true; a search for one of them finds one exactly when there is one. *)
(* Rules are reordered when inserted and evaluated depth first over         *)
(* bindings that are changed and undone in place, with facts found through  *)
(* indexes, so it takes all of these to be right (topdown.py 116).          *)
AnswersCorrect ==
    LET Agree(heads, true) ==
            IF answer.findAll THEN heads = true
            ELSE /\ heads \subseteq true
                 /\ Cardinality(heads) <= 1
                 /\ heads = {} <=> true = {}
    IN  answer.kind = "select" =>
            Agree({r.head : r \in answer.results},
                  TrueInstances(answer.theory, answer.query))

(* No query over accepted rules ends in the assertions that a negated       *)
(* literal or the inputs of a builtin are ground (topdown.py 296, 362):     *)
(* the order chosen when a rule is inserted (compile.py 1475) is safe for   *)
(* every way the rule is called.                                            *)
NeverUnground == answer.kind = "select" => ~answer.error

(* When a search returns, every binding it made has been undone: what it    *)
(* leaves behind is the binding structure it was given (unify.py 187).      *)
BindingsUndone == answer.kind # "none" /\ ~answer.error => answer.bindings = {}

(* Through every sequence of updates and lookups, an index of a table's     *)
(* facts gives for every key exactly the facts a scan of the table would    *)
(* (factset.py 114).                                                        *)
IndexExact ==
    \A th \in Theories, t \in Tables : \A cols \in DOMAIN index[th][t] :
        index[th][t][cols] = CreateIndex(th, t, cols)

(* The ground instances of an abduced rule *)
GroundInstances(r) ==
    LET vars == VariablesOf(r.head) \cup BodyVariables(r)
    IN  {[head |-> PlugWith(r.head, g),
          body |-> {PlugWith(r.body[i], g) : i \in DOMAIN r.body}] :
            g \in [vars -> Objects]}

(* The facts with some atoms added *)
Supposing(th, atoms) ==
    [t \in Theories |-> [table \in Tables |-> facts[t][table] \cup
        {a.args : a \in {a \in atoms :
            /\ a.table = table
            /\ t = IF a.service = Local THEN th ELSE a.service}}]]

(* Every explanation that an abduction returns explains: were the atoms it  *)
(* saved facts, the instance of the query in its head would be true, for    *)
(* every value of the variables left in it (abduce, topdown.py 152).        *)
AbductionSound ==
    answer.kind = "abduce" /\ ~answer.error =>
        \A r \in answer.results : \A g \in GroundInstances(r) :
            IsTrue(answer.theory, g.head, Supposing(answer.theory, g.body))

(* The explanations are all of them: whenever atoms of the saved tables     *)
(* would make an instance of the query true, some explanation has that      *)
(* instance and asks for no more than those atoms.  apply_full renames the  *)
(* variables it returns to avoid "improper variable capture" (unify.py      *)
(* 126); a variable captured by the query's own asks for too much.          *)
AbductionComplete ==
    answer.kind = "abduce" /\ ~answer.error =>
        LET shapes == UNION {ToSet(r.body) : r \in answer.results}
            atoms == UNION {{[l EXCEPT !.args = a] : a \in [DOMAIN l.args -> Objects]} :
                                l \in shapes}
            th == answer.theory
        IN  \A F \in SUBSET atoms : Cardinality(F) <= 2 =>
                \A q \in {PlugWith(answer.query, g) :
                            g \in [VariablesOf(answer.query) -> Objects]} :
                    IsTrue(th, q, Supposing(th, F)) =>
                        \E r \in answer.results : \E g \in GroundInstances(r) :
                            /\ g.head = q
                            /\ \A a \in g.body : IsTrue(th, a, Supposing(th, F))
=============================================================================
