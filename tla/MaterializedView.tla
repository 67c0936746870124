-------------------------- MODULE MaterializedView --------------------------
(***************************************************************************)
(* Incremental maintenance of the tables a policy defines                  *)
(* (congress/datalog/materialized.py on top of database.py): inserting or  *)
(* deleting a fact or a rule queues events, every event is propagated      *)
(* through the delta rules and queues further events, and each stored      *)
(* tuple keeps the set of proofs that support it.                          *)
(*                                                                         *)
(* Rules are given by their ground instances, one for each binding of the  *)
(* rule's variables; a proof of a tuple is a rule and a binding.  update() *)
(* runs its queue dry without blocking; one event is one step here, and no *)
(* other update starts before the queue is dry.                            *)
(***************************************************************************)
EXTENDS Naturals, FiniteSets, Sequences, SequencesExt

CONSTANTS
  Atom,        \* ground atoms
  Fact,        \* the atoms that clients insert and delete as facts
  Rule,        \* rules the theory can hold, helper rules included
  UserRule,    \* the rules clients insert and delete
  Instances,   \* the ground instances of each rule
  Expansion,   \* what eliminate_self_joins makes of each client's rule
  TableOf,     \* the table of each atom
  MaxUpdates   \* bound on the number of updates

Instance == [head : Atom, pos : SUBSET Atom, neg : SUBSET Atom]

ASSUME RuleAssumption ==
  /\ Fact \subseteq Atom /\ UserRule \subseteq Rule /\ IsFiniteSet(Rule)
  /\ \A r \in Rule : Instances[r] \subseteq Instance /\ IsFiniteSet(Instances[r])
  /\ \A u \in UserRule : Expansion[u] \in Seq(Rule)
  /\ MaxUpdates \in Nat

VARIABLES
  rules,     \* delta_rules.originals
  stored,    \* the atoms in the database
  proofs,    \* the proofs of each stored atom
  queue,     \* events left to process
  running,   \* process_queue is running
  base,      \* history: facts inserted and not deleted since
  updates    \* number of updates so far

vars == <<rules, stored, proofs, queue, running, base, updates>>

Proof == [rule : Rule, inst : Instance]

FactEvent(a, P, ins) ==
  [type |-> "fact", atom |-> a, proofs |-> P, insert |-> ins]
RuleEvent(r, ins) == [type |-> "rule", rule |-> r, insert |-> ins]

Event == [type : {"fact"}, atom : Atom, proofs : SUBSET Proof, insert : BOOLEAN]
           \cup [type : {"rule"}, rule : Rule, insert : BOOLEAN]

\* Every stored tuple's proofs are of rules and instances with that head, and
\* a tuple that is not stored has none.
TypeOK ==
  /\ rules \subseteq Rule
  /\ stored \subseteq Atom
  /\ proofs \in [Atom -> SUBSET Proof]
  /\ \A a \in Atom : \A p \in proofs[a] :
       a \in stored /\ p.inst \in Instances[p.rule] /\ p.inst.head = a
  /\ queue \in Seq(Event)
  /\ running \in BOOLEAN
  /\ base \subseteq Atom
  /\ updates \in 0 .. MaxUpdates

Init ==
  /\ rules = {}
  /\ stored = {}
  /\ proofs = [a \in Atom |-> {}]
  /\ queue = <<>>
  /\ running = FALSE
  /\ base = {}
  /\ updates = 0

----------------------------------------------------------------------------
\* Top-down evaluation of an instance's body over the database, leaving out
\* the literal of the delta rule's trigger.
Holds(i, trigger) ==
  /\ i.pos \ trigger \subseteq stored
  /\ (i.neg \ trigger) \cap stored = {}

\* process_new_bindings: one event for each distinct head among the bindings
\* of one rule, carrying all their proofs.
HeadEvents(r, insts, ins) ==
  { FactEvent(a, { [rule |-> r, inst |-> i] : i \in {j \in insts : j.head = a} }, ins)
      : a \in { i.head : i \in insts } }

\* A table some rule of the theory defines.
IsView(t) == \E r \in rules : \E i \in Instances[r] : TableOf[i.head] = t

\* What a client's change is turned into before it is queued.
Expand(c) ==
  IF c.type = "fact" THEN <<FactEvent(c.atom, {}, c.insert)>>
  ELSE [n \in 1 .. Len(Expansion[c.rule]) |->
          RuleEvent(Expansion[c.rule][n], c.insert)]

Change == [type : {"fact"}, atom : Fact, insert : BOOLEAN]
            \cup [type : {"rule"}, rule : UserRule, insert : BOOLEAN]

\* update() with one or two changes: each is queued in turn.  A fact of a view
\* fails an assertion, which leaves what was queued before it in the queue.
Update(changes) ==
  LET bad == { n \in DOMAIN changes :
                 changes[n].type = "fact" /\ IsView(TableOf[changes[n].atom]) }
      good == IF bad = {} THEN changes
              ELSE SubSeq(changes, 1, (CHOOSE n \in bad : \A m \in bad : n <= m) - 1)
  IN /\ ~running
     /\ updates < MaxUpdates
     /\ updates' = updates + 1
     /\ queue' = queue \o FlattenSeq([n \in DOMAIN good |-> Expand(good[n])])
     /\ running' = (bad = {})
     /\ UNCHANGED <<rules, stored, proofs, base>>

\* Mutant: a deleted rule's tuples are not taken back.
ProcessRuleNoRetract(e) ==
  LET r == e.rule
      changed == e.insert # (r \in rules)
      matching == { i \in Instances[r] : Holds(i, {}) }
  IN /\ rules' = IF e.insert THEN rules \cup {r} ELSE rules \ {r}
     /\ \E new \in SetToSeqs(IF changed /\ e.insert THEN HeadEvents(r, matching, TRUE)
                             ELSE {}) :
          queue' = Tail(queue) \o new
     /\ UNCHANGED <<stored, proofs, base>>

\* DeltaRuleTheory.modify, and the tuples the rule yields or took away.
ProcessRule(e) ==
  LET r == e.rule
      changed == e.insert # (r \in rules)
      matching == { i \in Instances[r] : Holds(i, {}) }
  IN /\ rules' = IF e.insert THEN rules \cup {r} ELSE rules \ {r}
     /\ \E new \in SetToSeqs(IF changed THEN HeadEvents(r, matching, e.insert)
                             ELSE {}) :
          queue' = Tail(queue) \o new
     /\ UNCHANGED <<stored, proofs, base>>

\* Mutant: a change of a negated atom is propagated with the same sign.
CausedSameSign(e) ==
  LET a == e.atom
      Triggered(r) == { i \in Instances[r] : a \in i.pos \cup i.neg /\ Holds(i, {a}) }
  IN UNION { HeadEvents(r, Triggered(r), e.insert) : r \in rules }

\* propagate: the events a change of atom a causes through the delta rules,
\* evaluated on the database before the change.
Caused(e) ==
  LET a == e.atom
      Positive(r) == { i \in Instances[r] : a \in i.pos /\ Holds(i, {a}) }
      Negative(r) == { i \in Instances[r] : a \in i.neg /\ Holds(i, {a}) }
  IN UNION { HeadEvents(r, Positive(r), e.insert)
               \cup HeadEvents(r, Negative(r), ~e.insert) : r \in rules }

\* Mutant: a tuple is removed with the first proof it loses.
StoreFirstProof(e) ==
  LET a == e.atom
      known == a \in stored /\ e.proofs \subseteq proofs[a]
  IN IF e.insert
       THEN /\ stored' = stored \cup {a}
            /\ proofs' = [proofs EXCEPT ![a] = @ \cup e.proofs]
       ELSE /\ stored' = IF known THEN stored \ {a} ELSE stored
            /\ proofs' = IF known THEN [proofs EXCEPT ![a] = @ \ e.proofs] ELSE proofs

\* Database.modify: an insertion unites proofs, a deletion subtracts them and
\* removes a tuple that has none left; a no-op changes nothing.
Store(e) ==
  LET a == e.atom
      known == a \in stored /\ e.proofs \subseteq proofs[a]
      left == proofs[a] \ e.proofs
  IN IF e.insert
       THEN /\ stored' = stored \cup {a}
            /\ proofs' = [proofs EXCEPT ![a] = @ \cup e.proofs]
       ELSE /\ stored' = IF known /\ left = {} THEN stored \ {a} ELSE stored
            /\ proofs' = IF known THEN [proofs EXCEPT ![a] = left] ELSE proofs

\* Mutant: the event is left at the head of the queue.
ProcessFactPeek(e) ==
  /\ \E new \in SetToSeqs(Caused(e)) : queue' = queue \o new
  /\ Store(e)
  /\ base' = IF e.proofs # {} THEN base
             ELSE IF e.insert THEN base \cup {e.atom} ELSE base \ {e.atom}
  /\ UNCHANGED rules

\* A fact, inserted by a client or derived: propagate, then store.
ProcessFact(e) ==
  /\ \E new \in SetToSeqs(Caused(e)) : queue' = Tail(queue) \o new
  /\ Store(e)
  /\ base' = IF e.proofs # {} THEN base
             ELSE IF e.insert THEN base \cup {e.atom} ELSE base \ {e.atom}
  /\ UNCHANGED rules

\* One turn of process_queue.
ProcessQueue ==
  /\ running
  /\ \/ /\ queue = <<>>
        /\ running' = FALSE
        /\ UNCHANGED <<rules, stored, proofs, queue, base>>
     \/ /\ queue # <<>>
        /\ \/ Head(queue).type = "rule" /\ ProcessRule(Head(queue))
           \/ Head(queue).type = "fact" /\ ProcessFact(Head(queue))
        /\ UNCHANGED running
  /\ UNCHANGED updates

Next ==
  \/ \E c \in Change : Update(<<c>>)
  \/ \E c, d \in Change : Update(<<c, d>>)
  \/ ProcessQueue

Spec == Init /\ [][Next]_vars

\* process_queue is a loop without blocking calls.
FairSpec == Spec /\ WF_vars(ProcessQueue)

----------------------------------------------------------------------------
(***************************************************************************)
(* Properties.                                                             *)
(***************************************************************************)
Quiescent == ~running /\ queue = <<>>

Derivable(a) == \E r \in rules : \E i \in Instances[r] : i.head = a /\ Holds(i, {})

\* When no update is in progress, everything stored is a fact or follows from
\* the rules and what is stored: deletions of facts and of rules, through any
\* number of layers, leave no tuple behind.  For which programs this holds is
\* proved in MaterializedView_proofs (NegatesFacts).
NothingStale == Quiescent => \A a \in stored : a \in base \/ Derivable(a)

\* Tables whose rules, if any, use only tables that no rule can define.
OverFacts(a) ==
  \A r \in Rule : \A i \in Instances[r] :
    i.head = a => \A q \in Rule : \A j \in Instances[q] : j.head \notin i.pos \cup i.neg

\* When no update is in progress, every view over facts is complete: what its
\* rules derive is stored, whichever of a tuple's proofs came and went and in
\* whatever order facts and rules did, also after an update that failed.
NothingMissing == Quiescent => \A a \in Atom : OverFacts(a) /\ Derivable(a) => a \in stored

\* When no update is in progress, the stored tables are exactly the facts and
\* what the rules derive: incremental maintenance agrees with evaluation.
ViewsCorrect == Quiescent => \A a \in Atom : a \in stored <=> a \in base \/ Derivable(a)

\* Every update comes to an end: process_queue runs its queue dry.
UpdateTerminates == running ~> ~running

\* A rule that joins a table with itself is rewritten to use a helper table;
\* while the rule is in the theory, so are the rules that fill its helpers.
HelpersDefined ==
  Quiescent => \A u \in UserRule \cap rules : ToSet(Expansion[u]) \subseteq rules
=============================================================================
