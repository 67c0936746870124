---------------------------- MODULE Translation ----------------------------
(***************************************************************************)
(* How a datasource driver turns the objects an API returned into the rows *)
(* of its tables (datasource_driver.py): declarative translators, checked  *)
(* when the driver is made, drive a recursive conversion whose result      *)
(* replaces the contents of the tables of one root translator.             *)
(*                                                                         *)
(* A translator is a record: type, table, id (it has a hashed id-col),     *)
(* parent (its parent-key or None), inList, key (a VDICT's key-col),       *)
(* fields (an HDICT's <<field, translator>> pairs) and sub (the translator *)
(* of a LIST's or VDICT's values).  An object is a record: kind null, atom *)
(* (val), list (items, a sequence) or dict (items, a function).  Extract   *)
(* functions and id functions, supplied by drivers, are the identity and   *)
(* absent.  A value is a tuple, so that hashes and atoms can be compared.  *)
(***************************************************************************)
EXTENDS Integers, Sequences, FiniteSets, SequencesExt

CONSTANTS Translators,      \* the root translators, a set
          DriverTables      \* the names of their tables

VARIABLES state             \* [DriverTables -> set of rows]: self.state

None == "none"              \* no parent-key
Null == <<"null">>          \* Python's None as a row's value
ParentCol == "parent_key"   \* PARENT_KEY_COL_NAME

-----------------------------------------------------------------------------
(* Translators *)

SubTranslators(t) ==
    IF t.type = "HDICT" THEN {f[2] : f \in ToSet(t.fields)}
    ELSE IF t.type = "VALUE" THEN {} ELSE {t.sub}

(* related_tables: every table that a translator writes, in the order in    *)
(* which they are registered                                                *)
RECURSIVE RelatedTables(_)
RelatedTables(t) ==
    IF t.type = "VALUE" THEN <<>>
    ELSE <<t.table>> \o
         (IF t.type = "HDICT"
          THEN FlattenSeq([i \in DOMAIN t.fields |-> RelatedTables(t.fields[i][2])])
          ELSE RelatedTables(t.sub))

(* _validate_translator: at most one of parent-key and id-col *)
RECURSIVE IsValid(_)
IsValid(t) == /\ ~(t.id /\ t.parent # None)
              /\ \A sub \in SubTranslators(t) : IsValid(sub)

(* initialize_translators: no driver without this *)
ASSUME TranslatorsRegistered ==
    /\ \A t \in Translators : IsValid(t) /\ IsInjective(RelatedTables(t))
    /\ \A t, u \in Translators : t # u =>
            ToSet(RelatedTables(t)) \cap ToSet(RelatedTables(u)) = {}
    /\ DriverTables = UNION {ToSet(RelatedTables(t)) : t \in Translators}

(* As if every field had a column in its parent's table *)
OwnColumnsAlways(t) ==
    (IF t.id \/ t.parent # None THEN 1 ELSE 0)
    + CASE t.type = "HDICT" -> Len(t.fields)
        [] t.type = "VDICT" -> 2
        [] t.type = "LIST"  -> 1

(* _get_schema: the number of columns of every table.  A value has a column *)
(* in its parent's table unless its translator has a parent-key.            *)
OwnColumns(t) ==
    (IF t.id \/ t.parent # None THEN 1 ELSE 0)
    + CASE t.type = "HDICT" ->
             Cardinality({i \in DOMAIN t.fields : t.fields[i][2].parent = None})
        [] t.type = "VDICT" -> IF t.sub.parent = None THEN 2 ELSE 1
        [] t.type = "LIST"  -> 1

RECURSIVE Arity(_, _)
Arity(t, table) ==
    IF t.table = table THEN OwnColumns(t)
    ELSE LET sub == CHOOSE u \in SubTranslators(t) : table \in ToSet(RelatedTables(u))
         IN  Arity(sub, table)

RootOf(table) == CHOOSE t \in Translators : table \in ToSet(RelatedTables(t))

-----------------------------------------------------------------------------
(* Values *)

(* utils.value_to_congress of an object, and of a value already converted *)
ValueToCongress(o) ==
    CASE o.kind = "atom" -> o.val
      [] o.kind = "null" -> <<"None">>
      [] OTHER           -> <<"str", o>>

AsColumn(v) == IF v = Null THEN <<"None">> ELSE v

(* _compute_hash sorts what it hashes, so the hash stands for a bag *)
Hash(values) ==
    <<"hash", [v \in ToSet(values) |-> Cardinality({i \in DOMAIN values : values[i] = v})]>>

-----------------------------------------------------------------------------
(* Conversion.  ok is FALSE where the code raises; id is the hash that is   *)
(* returned, or Null; a parent row maps the columns known so far to values. *)

Raises == [ok |-> FALSE, rows |-> {}, id |-> Null]
NoRow == <<>>

(* As if the id or key came behind *)
WithPrefixLast(t, id, parent, rows) ==
    {<<t.table, IF t.id THEN r \o <<id>>
                ELSE IF t.parent # None THEN r \o <<parent[t.parent]>>
                ELSE r>> : r \in rows}

(* The rows of a table from their own columns, with the id or the parent's  *)
(* key in front                                                             *)
WithPrefix(t, id, parent, rows) ==
    {<<t.table, IF t.id THEN <<id>> \o r
                ELSE IF t.parent # None THEN <<parent[t.parent]>> \o r
                ELSE r>> : r \in rows}

KeyKnown(t, parent) == t.parent # None => t.parent \in DOMAIN parent

(* A null where a table is expected: no rows, and the hash of nothing *)
NullResult(sub) ==
    [ok |-> TRUE, rows |-> {}, id |-> IF sub.id THEN Hash(<<>>) ELSE Null]

RECURSIVE ConvertObj(_, _, _)
ConvertSub(o, sub, parent) ==
    IF o.kind = "null" THEN NullResult(sub) ELSE ConvertObj(o, sub, parent)

(* _populate_translator_data_list.  The values of a list that are not       *)
(* VALUEs must have an id, and the id of such a list is computed with the   *)
(* loop's variable, which an empty list leaves unbound.                     *)
PopulateList(t, o, parent) ==
    LET n == DOMAIN o.items
        values == [i \in n |-> ValueToCongress(o.items[i])]
        subs == [i \in n |-> ConvertSub(o.items[i], t.sub, NoRow)]
        cells == IF t.sub.type = "VALUE" THEN values ELSE [i \in n |-> subs[i].id]
        id == IF t.id THEN Hash(cells) ELSE Null
        below == IF t.sub.type = "VALUE" THEN {} ELSE UNION {subs[i].rows : i \in n}
    IN  IF \/ /\ t.sub.type = "VALUE"
              /\ ~KeyKnown(t, parent)
           \/ /\ t.sub.type # "VALUE"
              /\ \/ \E i \in n : ~subs[i].ok \/ subs[i].id = Null
                 \/ t.id /\ n = {}
                 \/ n # {} /\ ~KeyKnown(t, parent)
        THEN Raises
        ELSE [ok |-> TRUE, id |-> id,
              rows |-> below \cup WithPrefix(t, id, parent, {<<cells[i]>> : i \in n})]

(* _populate_translator_data_vdict *)
PopulateVdict(t, o, parent) ==
    LET keys == SetToSeq(DOMAIN o.items)
        n == DOMAIN keys
        subs == [i \in n |-> ConvertSub(o.items[keys[i]], t.sub,
                                        [c \in {t.key} |-> <<keys[i]>>])]
        pair(i) ==
            <<<<keys[i]>>>> \o
            (IF t.sub.type = "VALUE" THEN <<ValueToCongress(o.items[keys[i]])>>
             ELSE IF t.sub.id THEN <<subs[i].id>> ELSE <<>>)
        id == IF t.id THEN Hash([i \in n |-> pair(i)]) ELSE Null
        below == IF t.sub.type = "VALUE" THEN {} ELSE UNION {subs[i].rows : i \in n}
    IN  IF \/ ~KeyKnown(t, parent) /\ (t.sub.type = "VALUE" \/ n # {})
           \/ t.sub.type # "VALUE" /\ \E i \in n : ~subs[i].ok
        THEN Raises
        ELSE [ok |-> TRUE, id |-> id,
              rows |-> below \cup WithPrefix(t, id, parent, {pair(i) : i \in n})]

(* _get_value: a missing field is None *)
GetValue(o, field) ==
    IF field \in DOMAIN o.items THEN o.items[field] ELSE [kind |-> "null"]

(* _populate_hdict and _format_results_to_hdict: the fields whose           *)
(* translator has no parent-key make the row, and the others then take the  *)
(* key from it.                                                             *)
PopulateOne(t, o, parent) ==
    LET base == IF t.parent # None /\ t.parent \in DOMAIN parent
                THEN [c \in {ParentCol} |-> parent[t.parent]] ELSE NoRow
        n == DOMAIN t.fields
        field(i) == t.fields[i][1]
        sub(i) == t.fields[i][2]
        first == {i \in n : sub(i).parent = None}
        columns == {i \in first : sub(i).type = "VALUE" \/ sub(i).id}
        early == [i \in {i \in first : sub(i).type # "VALUE"} |->
                    ConvertSub(GetValue(o, field(i)), sub(i), base)]
        cell(i) == IF sub(i).type = "VALUE" THEN ValueToCongress(GetValue(o, field(i)))
                   ELSE AsColumn(early[i].id)
        row == [c \in DOMAIN base \cup {field(i) : i \in columns} |->
                  IF \E i \in columns : field(i) = c
                  THEN cell(CHOOSE i \in columns : field(i) = c) ELSE base[c]]
        late == [i \in n \ first |-> ConvertSub(GetValue(o, field(i)), sub(i), row)]
        cells == LET at == SelectSeq([i \in n |-> i], LAMBDA i : i \in columns)
                 IN  [j \in DOMAIN at |-> cell(at[j])]
        id == IF t.id THEN Hash(cells) ELSE Null
    IN  IF \/ ~KeyKnown(t, parent)
           \/ \E i \in DOMAIN early : ~early[i].ok
           \/ \E i \in DOMAIN late : ~late[i].ok
        THEN Raises
        ELSE [ok |-> TRUE, id |-> id,
              rows |-> UNION {early[i].rows : i \in DOMAIN early}
                       \cup UNION {late[i].rows : i \in DOMAIN late}
                       \cup WithPrefix(t, id, parent, {cells})]

(* _populate_translator_data_hdict: with in-list, one row per element, and  *)
(* the id of the last one.                                                  *)
PopulateHdict(t, o, parent) ==
    IF ~t.inList THEN PopulateOne(t, o, parent)
    ELSE LET all == [i \in DOMAIN o.items |-> PopulateOne(t, o.items[i], parent)]
         IN  IF \E i \in DOMAIN all : ~all[i].ok THEN Raises
             ELSE [ok |-> TRUE, rows |-> UNION {all[i].rows : i \in DOMAIN all},
                   id |-> IF all = <<>> THEN Null ELSE Last(all).id]

ConvertObj(o, t, parent) ==
    CASE t.type = "HDICT" -> PopulateHdict(t, o, parent)
      [] t.type = "VDICT" -> PopulateVdict(t, o, parent)
      [] t.type = "LIST"  -> PopulateList(t, o, parent)

(* convert_objs; a None among the objects raises *)
ConvertObjs(objs, t) ==
    LET all == [i \in DOMAIN objs |-> IF objs[i].kind = "null" THEN Raises
                                      ELSE ConvertObj(objs[i], t, NoRow)]
    IN  [ok |-> \A i \in DOMAIN all : all[i].ok,
         rows |-> UNION {all[i].rows : i \in DOMAIN all}]

-----------------------------------------------------------------------------
InitState == state = [table \in DriverTables |-> {}]

(* _make_tmp_state: every table of the root translator starts empty *)
MakeTmpState(root, rows) ==
    [table \in ToSet(RelatedTables(root)) |->
        {r[2] : r \in {r \in rows : r[1] = table}}]

(* What convert_objs makes of the objects of each root translator *)
Converted(objs) == [root \in Translators |-> ConvertObjs(objs[root], root)]

(* The root translators whose objects could be converted *)
Convertible(results) == {root \in Translators : results[root].ok}

(* _update_state, for the root translators done: their tables are replaced, *)
(* the others kept                                                          *)
Updated(done, results) ==
    LET tmp == [root \in done |-> MakeTmpState(root, results[root].rows)]
    IN  [table \in DriverTables |->
            IF RootOf(table) \in done THEN tmp[RootOf(table)][table] ELSE state[table]]

(* update_from_datasource: one root translator after the other, in the      *)
(* order of a dict; the first that raises ends the loop, and what those     *)
(* before it have put into the tables stays there.                          *)
UpdateFromDatasource(results) ==
    \E done \in SUBSET Convertible(results) :
        /\ Convertible(results) = Translators => done = Translators
        /\ state' = Updated(done, results)

(* Every row of every table has as many columns as the schema, which the    *)
(* driver computed from the translators alone, says the table has: the      *)
(* engine checks the rules that use the table against that number, and a    *)
(* rule never matches a row of another width (datasource_driver.py 548).    *)
RowsFitSchema ==
    \A table \in DriverTables : \A r \in state[table] :
        Len(r) = Arity(RootOf(table), table)

RECURSIVE Nested(_)
Nested(t) == {t} \cup UNION {Nested(u) : u \in SubTranslators(t)}

(* "The hash can be used as a unique key to identify the content in obj"    *)
(* (datasource_driver.py 1012): within the table of an HDICT with an id, one *)
(* id belongs to one row.                                                   *)
IdIsKey ==
    \A root \in Translators :
        \A t \in {u \in Nested(root) : u.type = "HDICT" /\ u.id} :
            \A r, q \in state[t.table] : r[1] = q[1] => r = q
=============================================================================
