----------------------------- MODULE MCDataPath -----------------------------
(* A compute datasource with two root translators and a policy over it *)
EXTENDS DataPath

Value == [type |-> "VALUE", id |-> FALSE, parent |-> None]
List(table, id, parent, sub) ==
    [type |-> "LIST", table |-> table, id |-> id, parent |-> parent, sub |-> sub]
Hdict(table, id, parent, inList, fields) ==
    [type |-> "HDICT", table |-> table, id |-> id, parent |-> parent,
     inList |-> inList, fields |-> fields]

(* servers(name, tags, disks), tags(id, tag), disks(id, disk), disk(id,     *)
(* size, speed), nics(name, ip)                                             *)
DiskT(id) == Hdict("disk", id, None, FALSE, <<<<"size", Value>>, <<"speed", Value>>>>)
Servers ==
    Hdict("servers", FALSE, None, FALSE,
          <<<<"nics", Hdict("nics", FALSE, "name", TRUE, <<<<"ip", Value>>>>)>>,
            <<"name", Value>>,
            <<"tags", List("tags", TRUE, None, Value)>>,
            <<"disks", List("disks", TRUE, None, DiskT(TRUE))>>>>)
(* groups(g), members(g, server) *)
Groups ==
    [type |-> "VDICT", table |-> "groups", id |-> FALSE, parent |-> None, key |-> "g",
     sub |-> List("members", FALSE, "g", Value)]

MCTranslators == {Servers, Groups}
MCDriverTables == {"servers", "tags", "disks", "disk", "nics", "groups", "members"}

A(v) == [kind |-> "atom", val |-> <<v>>]
L(items) == [kind |-> "list", items |-> items]
D(items) == [kind |-> "dict", items |-> items]
Disk(size, speed) == D([size |-> A(size), speed |-> A(speed)])

S1 == D([name |-> A("1"), tags |-> L(<<A("1"), A("2")>>)])
S2 == D([name |-> A("2"), tags |-> L(<<A("2"), A("1")>>), disks |-> L(<<Disk("1", "2")>>)])
S3 == D([name |-> A("2"), disks |-> L(<<[kind |-> "null"]>>),
         nics |-> L(<<D([ip |-> A("2")]), D([ip |-> A("1")])>>)])
Broken == D([name |-> A("2"), disks |-> L(<<>>)])
G1 == D(("3" :> L(<<A("1"), A("2")>>)) @@ ("2" :> L(<<>>)))

(* Both roots, one of them, or none; a poll that raises, with the groups    *)
(* before or after the servers; and nothing at all                          *)
P(servers, groups) == (Servers :> servers) @@ (Groups :> groups)
MCPolls ==
    {P(<<>>, <<>>), P(<<S1, S2>>, <<>>), P(<<S1, S3>>, <<G1>>), P(<<S1, Broken>>, <<G1>>)}

V(n) == <<n>>
Lit(service, table, args) ==
    [service |-> service, table |-> table, args |-> args, negated |-> FALSE]
Not(lit) == Complement(lit)
Rule(head, body) == [head |-> head, body |-> body]

Tagged(x, y) == Lit(Local, "tagged", <<x, y>>)
HasTag(x) == Lit(Local, "hastag", <<x>>)
Bare(x) == Lit(Local, "bare", <<x>>)
Near(x, y) == Lit(Local, "near", <<x, y>>)
NovaServers(x, y, z) == Lit("nova", "servers", <<x, y, z>>)
NovaTags(x, y) == Lit("nova", "tags", <<x, y>>)
NovaNics(x, y) == Lit("nova", "nics", <<x, y>>)
NovaMembers(x, y) == Lit("nova", "members", <<x, y>>)
x == V("x")
y == V("y")
z == V("z")
w == V("w")

MCRulePool ==
    {<<"pol", Rule(Tagged(x, y), <<NovaServers(x, z, w), NovaTags(z, y)>>)>>,
     <<"pol", Rule(HasTag(y), <<Tagged(y, x)>>)>>,
     <<"extra", Rule(HasTag(x), <<NovaNics(x, x)>>)>>,
     (* the negated literal comes first and has to be moved *)
     <<"pol", Rule(Bare(x), <<Not(HasTag(x)), NovaServers(x, z, w)>>)>>,
     (* both builtins come first and have to be moved, the second before *)
     (* the first                                                        *)
     <<"pol", Rule(Near(x, w), <<Lit(Local, "lt", <<w, z>>), Lit(Local, "plus1", <<y, w>>),
                                 NovaMembers(z, x), NovaNics(x, y)>>)>>,
     (* never safe *)
     <<"pol", Rule(Bare(x), <<Not(Tagged(x, y)), NovaMembers(x, x)>>)>>,
     (* recursive together with the rules for hastag *)
     <<"pol", Rule(Tagged(x, x), <<HasTag(x)>>)>>}

MCQueryPool ==
    {<<"pol", Bare(x), TRUE, {}>>,
     <<"pol", Tagged(V("y"), V("x")), TRUE, {}>>,
     <<"pol", Tagged(V("x"), V("x")), FALSE, {}>>,
     <<"pol", Tagged(<<"1">>, V("x")), TRUE, {}>>,
     <<"pol", Near(x, y), TRUE, {}>>,
     <<"pol", HasTag(x), TRUE, {<<"nova", "tags">>}>>}

MCBuiltins ==
    [lt |-> [inputs |-> 2, outputs |-> 0,
             code |-> [a \in {<<<<i>>, <<j>>>> : i, j \in {"1", "2", "3"}} |->
                         a \in {<<<<"1">>, <<"2">>>>, <<<<"1">>, <<"3">>>>,
                                <<<<"2">>, <<"3">>>>}]],
     plus1 |-> [inputs |-> 1, outputs |-> 1,
                code |-> (<<<<"1">>>> :> <<<<"2">>>>) @@ (<<<<"2">>>> :> <<<<"3">>>>)]]

MCTheories == {"nova", "pol", "extra"}
MCTables == MCDriverTables \cup {"tagged", "hastag", "bare", "near"}
MCVariables == {"x", "y", "z", "w"}
MCIncludes == [nova |-> <<>>, pol |-> <<"extra">>, extra |-> <<>>]
MCObjects ==
    {<<"1">>, <<"2">>, <<"3">>} \cup
    UNION {ToSet(r[2]) : r \in UNION {ConvertObjs(p[2], p[1]).rows :
               p \in {<<Servers, <<S1, S2, S3>>>>, <<Groups, <<G1>>>>}}}

(* What a query returns is what the objects say: the pairs that tagged      *)
(* returns, by joining tables on generated ids, are the names and tags of   *)
(* the servers of the last poll that succeeded, and bare returns the names  *)
(* of those without a tag (where the policy has these rules for tagged,     *)
(* hastag and bare, and no others).                                         *)
AnswersFollowObjects ==
    LET objs == ToSet(polled[Servers])
        NameOf(o) == o.items["name"].val
        TagsOf(o) == IF "tags" \in DOMAIN o.items
                     THEN {i.val : i \in ToSet(o.items["tags"].items)} ELSE {}
        tagged == UNION {{<<NameOf(o), t>> : t \in TagsOf(o)} : o \in objs}
        heads == {r.head.args : r \in answer.results}
        RulesFor(tables) == {r \in rules["pol"] \cup rules["extra"] : r.head.table \in tables}
        taggedRule == Rule(Tagged(x, y), <<NovaServers(x, z, w), NovaTags(z, y)>>)
        hasTagRule == Rule(HasTag(y), <<Tagged(y, x)>>)
        bareRule == Rule(Bare(x), <<NovaServers(x, z, w), Not(HasTag(x))>>)
    IN  answer.kind = "select" =>
        /\ /\ answer.query = Tagged(y, x)
           /\ RulesFor({"tagged"}) = {taggedRule}
           => heads = tagged
        /\ /\ answer.query = Bare(x)
           /\ RulesFor({"tagged", "hastag", "bare"}) = {taggedRule, hasTagRule, bareRule}
           => heads = {<<NameOf(o)>> : o \in objs} \ {<<p[1]>> : p \in tagged}

(* Two disks whose sizes and speeds are exchanged; and a flavor, whose      *)
(* translator has neither id-col nor parent-key: the schema of its parent's *)
(* table has a column for it, the rows have none.                           *)
Hosts ==
    Hdict("servers", FALSE, None, FALSE,
          <<<<"name", Value>>,
            <<"flavor", Hdict("flavor", FALSE, None, FALSE, <<<<"size", Value>>>>)>>,
            <<"disks", List("disks", TRUE, None, DiskT(TRUE))>>>>)
ClashTranslators == {Hosts}
ClashDriverTables == {"servers", "flavor", "disks", "disk"}
ClashTables == MCTables \cup ClashDriverTables
ClashPolls ==
    {Hosts :> <<D([name |-> A("1"), disks |-> L(<<Disk("1", "2"), Disk("2", "1")>>)])>>,
     Hosts :> <<D([name |-> A("1"), flavor |-> D([size |-> A("2")])])>>}

(* A query whose variable has the name of one in a rule it reaches *)
CaptureRules ==
    {<<"pol", Rule(HasTag(x), <<Tagged(x, y)>>)>>,
     <<"pol", Rule(Tagged(z, w), <<Bare(z), Lit("nova", "groups", <<w>>)>>)>>}
CaptureQueries == {<<"pol", HasTag(y), TRUE, {<<Local, "bare">>, <<"nova", "groups">>}>>}
=============================================================================
