---------------------- MODULE MaterializedView_proofs ----------------------
(***************************************************************************)
(* Views over facts are complete after every update, for every program.    *)
(* Nothing stale is left for programs whose negated tables no rule defines *)
(* and whose rules yield a tuple in two ways only from tables of facts;    *)
(* both conditions are necessary.                                          *)
(*                                                                         *)
(* The argument: events are processed in the order in which they were      *)
(* queued, so the last one that mentions a proof decides whether the proof *)
(* is kept once the queue is dry (Standing).  Of an instance over facts    *)
(* that is so exactly if it holds now (Kept and Sound).                    *)
(***************************************************************************)
EXTENDS MaterializedView, FiniteSetTheorems, TLAPS

ProofOf(r, i) == [rule |-> r, inst |-> i]

\* An atom that some rule may derive.
Derived(a) == \E q \in Rule : \E j \in Instances[q] : j.head = a
\* An instance whose body has facts only.
Plain(i) == \A a \in i.pos \cup i.neg : ~ Derived(a)

Concerns(e, p) == e.type = "fact" /\ p \in e.proofs

\* Whether p is kept if the first n events of q are processed, where P are the
\* proofs kept now.
Standing(q, n, P, p) ==
  \E k \in 0 .. n :
    /\ k = 0 => p \in P
    /\ k > 0 => Concerns(q[k], p) /\ q[k].insert
    /\ \A m \in k + 1 .. n : ~ Concerns(q[m], p)

\* Events carry proofs of one rule, for the tuple they are about.
RightEvent(e) ==
  e.type = "fact" => \A p \in e.proofs :
    /\ p.rule \in Rule /\ p.inst \in Instances[p.rule] /\ p.inst.head = e.atom
    /\ \A o \in e.proofs : o.rule = p.rule
RightEvents == \A k \in DOMAIN queue : RightEvent(queue[k])

\* Every stored tuple is a fact or has a proof.
Supported == \A a \in stored : a \in base \/ proofs[a] # {}

Standing0(r, i) == Standing(queue, Len(queue), proofs[i.head], ProofOf(r, i))

\* An instance over facts that holds has its proof, or will have.
Kept ==
  \A r \in Rule : \A i \in Instances[r] :
    Plain(i) /\ r \in rules /\ Holds(i, {}) => Standing0(r, i)

\* What has its proof, or will have, holds.
Sound ==
  \A r \in Rule : \A i \in Instances[r] : Standing0(r, i) => r \in rules /\ Holds(i, {})

\* A deletion finds all of its proofs, or none.
Uniform ==
  \A k \in DOMAIN queue :
    queue[k].type = "fact" /\ ~ queue[k].insert =>
      \A p, o \in queue[k].proofs :
        Standing(queue, k - 1, proofs[queue[k].atom], p)
          => Standing(queue, k - 1, proofs[queue[k].atom], o)

\* Negated tables have facts only, no literal is negated and not negated, and a
\* rule yields a tuple in two ways only from facts.
NegatesFacts ==
  \A r \in Rule : \A i \in Instances[r] :
    /\ i.pos \cap i.neg = {}
    /\ \A a \in i.neg : ~ Derived(a)
    /\ \A j \in Instances[r] : i.head = j.head /\ i # j => Plain(i)

-----------------------------------------------------------------------------
(***************************************************************************)
(* What a queue decides.                                                   *)
(***************************************************************************)
\* Events after the first n do not matter for what those decide.
LEMMA StandingPrefix ==
  ASSUME NEW q \in Seq(Event), NEW new \in Seq(Event), NEW n \in 0 .. Len(q), NEW P, NEW p
  PROVE  Standing(q \o new, n, P, p) <=> Standing(q, n, P, p)
<1>1. \A k \in 1 .. n : (q \o new)[k] = q[k]
  OBVIOUS
<1>2. \A k \in 0 .. n : \A m \in k + 1 .. n : m \in 1 .. n
  OBVIOUS
<1>3. \A k \in 0 .. n : k > 0 => k \in 1 .. n
  OBVIOUS
<1> QED BY <1>1, <1>2, <1>3, Zenon DEF Standing

\* Events that do not concern a proof leave its standing.
LEMMA StandingQuiet ==
  ASSUME NEW q, NEW n \in Nat, NEW l \in Nat, l <= n, NEW P, NEW p,
         \A m \in l + 1 .. n : ~ Concerns(q[m], p)
  PROVE  Standing(q, n, P, p) <=> Standing(q, l, P, p)
<1>1. ASSUME Standing(q, n, P, p) PROVE Standing(q, l, P, p)
  <2>1. PICK k \in 0 .. n : /\ k = 0 => p \in P
                            /\ k > 0 => Concerns(q[k], p) /\ q[k].insert
                            /\ \A m \in k + 1 .. n : ~ Concerns(q[m], p)
    BY <1>1 DEF Standing
  <2>2. k \in 0 .. l
    BY <2>1
  <2>3. \A m \in k + 1 .. l : ~ Concerns(q[m], p)
    BY <2>1
  <2> QED BY <2>1, <2>2, <2>3 DEF Standing
<1>2. ASSUME Standing(q, l, P, p) PROVE Standing(q, n, P, p)
  <2>1. PICK k \in 0 .. l : /\ k = 0 => p \in P
                            /\ k > 0 => Concerns(q[k], p) /\ q[k].insert
                            /\ \A m \in k + 1 .. l : ~ Concerns(q[m], p)
    BY <1>2 DEF Standing
  <2>2. k \in 0 .. n
    OBVIOUS
  <2>3. \A m \in k + 1 .. n : ~ Concerns(q[m], p)
    BY <2>1
  <2> QED BY <2>1, <2>2, <2>3 DEF Standing
<1> QED BY <1>1, <1>2

\* An event decides about its own proofs.
LEMMA StandingLast ==
  ASSUME NEW q, NEW n \in Nat \ {0}, NEW P, NEW p, Concerns(q[n], p)
  PROVE  Standing(q, n, P, p) <=> q[n].insert
<1>1. ASSUME Standing(q, n, P, p) PROVE q[n].insert
  <2>1. PICK k \in 0 .. n : /\ k = 0 => p \in P
                            /\ k > 0 => Concerns(q[k], p) /\ q[k].insert
                            /\ \A m \in k + 1 .. n : ~ Concerns(q[m], p)
    BY <1>1 DEF Standing
  <2>2. k = n
    BY <2>1
  <2> QED BY <2>1, <2>2
<1>2. ASSUME q[n].insert PROVE Standing(q, n, P, p)
  <2>1. n \in 0 .. n /\ n # 0 /\ \A m \in n + 1 .. n : ~ Concerns(q[m], p)
    OBVIOUS
  <2> QED BY <1>2, <2>1 DEF Standing
<1> QED BY <1>1, <1>2

\* Processing the first event moves the standings by one.
LEMMA StandingTail ==
  ASSUME NEW q \in Seq(Event), NEW n \in 0 .. Len(q) - 1, q # <<>>, NEW P, NEW Q, NEW p
  PROVE  /\ (Standing(q, 1, P, p) => p \in Q)
              => (Standing(q, n + 1, P, p) => Standing(Tail(q), n, Q, p))
         /\ (p \in Q => Standing(q, 1, P, p))
              => (Standing(Tail(q), n, Q, p) => Standing(q, n + 1, P, p))
<1>0. Len(q) \in Nat /\ n \in Nat /\ n + 1 \in Nat
  OBVIOUS
<1>1. \A k \in 1 .. n : Tail(q)[k] = q[k + 1]
  OBVIOUS
<1>2. ASSUME Standing(q, 1, P, p) => p \in Q, Standing(q, n + 1, P, p)
      PROVE  Standing(Tail(q), n, Q, p)
  <2>1. PICK k \in 0 .. n + 1 : /\ k = 0 => p \in P
                                /\ k > 0 => Concerns(q[k], p) /\ q[k].insert
                                /\ \A m \in k + 1 .. n + 1 : ~ Concerns(q[m], p)
    BY <1>2 DEF Standing
  <2>2. CASE k > 1
    <3>1. k - 1 \in 1 .. n /\ Tail(q)[k - 1] = q[k]
      BY <1>0, <1>1, <2>2
    <3>2. \A m \in (k - 1) + 1 .. n : ~ Concerns(Tail(q)[m], p)
      BY <1>0, <1>1, <2>1, <2>2
    <3> QED BY <1>0, <2>1, <2>2, <3>1, <3>2 DEF Standing
  <2>3. CASE k <= 1
    <3>1. Standing(q, 1, P, p)
      <4>1. k \in 0 .. 1 /\ \A m \in k + 1 .. 1 : ~ Concerns(q[m], p)
        BY <1>0, <2>1, <2>3
      <4> QED BY <2>1, <4>1 DEF Standing
    <3>2. \A m \in 0 + 1 .. n : ~ Concerns(Tail(q)[m], p)
      BY <1>0, <1>1, <2>1, <2>3
    <3>3. 0 \in 0 .. n
      BY <1>0
    <3> QED BY <1>2, <3>1, <3>2, <3>3 DEF Standing
  <2> QED BY <2>2, <2>3
<1>3. ASSUME p \in Q => Standing(q, 1, P, p), Standing(Tail(q), n, Q, p)
      PROVE  Standing(q, n + 1, P, p)
  <2>1. PICK k \in 0 .. n : /\ k = 0 => p \in Q
                            /\ k > 0 => Concerns(Tail(q)[k], p) /\ Tail(q)[k].insert
                            /\ \A m \in k + 1 .. n : ~ Concerns(Tail(q)[m], p)
    BY <1>3 DEF Standing
  <2>2. CASE k > 0
    <3>1. k + 1 \in 0 .. n + 1 /\ Tail(q)[k] = q[k + 1]
      BY <1>0, <1>1, <2>2
    <3>2. \A m \in (k + 1) + 1 .. n + 1 : ~ Concerns(q[m], p)
      <4> SUFFICES ASSUME NEW m \in (k + 1) + 1 .. n + 1 PROVE ~ Concerns(q[m], p)
        OBVIOUS
      <4>1. m - 1 \in k + 1 .. n /\ m - 1 \in 1 .. n /\ q[m] = Tail(q)[m - 1]
        BY <1>0, <1>1
      <4> QED BY <2>1, <4>1
    <3>3. k + 1 # 0
      BY <2>1
    <3> QED BY <2>1, <2>2, <3>1, <3>2, <3>3 DEF Standing
  <2>3. CASE k = 0
    <3>1. Standing(q, 1, P, p)
      BY <1>3, <2>1, <2>3
    <3>2. PICK j \in 0 .. 1 : /\ j = 0 => p \in P
                              /\ j > 0 => Concerns(q[j], p) /\ q[j].insert
                              /\ \A m \in j + 1 .. 1 : ~ Concerns(q[m], p)
      BY <3>1 DEF Standing
    <3>3. j \in 0 .. n + 1
      BY <1>0
    <3>4. \A m \in j + 1 .. n + 1 : ~ Concerns(q[m], p)
      <4> SUFFICES ASSUME NEW m \in j + 1 .. n + 1 PROVE ~ Concerns(q[m], p)
        OBVIOUS
      <4>1. CASE m = 1
        BY <3>2, <4>1
      <4>2. CASE m # 1
        <5>1. m - 1 \in 1 .. n /\ q[m] = Tail(q)[m - 1]
          BY <1>0, <1>1, <4>2
        <5> QED BY <2>1, <2>3, <5>1
      <4> QED BY <4>1, <4>2
    <3> QED BY <3>2, <3>3, <3>4 DEF Standing
  <2> QED BY <2>2, <2>3
<1> QED BY <1>2, <1>3

\* The events a step queues: finitely many, in some order, about the proofs in
\* plus and minus, each in one insertion or one deletion.
Batch(S, plus, minus) ==
  /\ IsFiniteSet(S) /\ S \subseteq Event
  /\ \A f \in S : /\ f.type = "fact" /\ RightEvent(f)
                  /\ f.proofs \subseteq (IF f.insert THEN plus ELSE minus)
  /\ \A p \in plus : \E f \in S : f.insert /\ p \in f.proofs
  /\ \A p \in minus : \E f \in S : ~ f.insert /\ p \in f.proofs
  /\ \A f, g \in S : f.insert = g.insert /\ f.proofs \cap g.proofs # {} => f = g

\* A sequence of a finite set's elements without repetition has all of them.
LEMMA SequenceOfSet ==
  ASSUME NEW S, IsFiniteSet(S), NEW s \in SetToSeqs(S)
  PROVE  /\ s \in Seq(S) /\ \A x \in S : \E k \in 1 .. Len(s) : s[k] = x
         /\ \A k, m \in 1 .. Len(s) : k # m => s[k] # s[m]
<1> DEFINE D == 1 .. Cardinality(S)
<1>1. Cardinality(S) \in Nat
  BY FS_CardinalityType
<1>2. s \in [D -> S] /\ \A i, j \in D : i # j => s[i] # s[j]
  BY DEF SetToSeqs
<1>3. s \in Seq(S) /\ Len(s) = Cardinality(S)
  BY <1>1, <1>2
<1>4. IsFiniteSet(D) /\ Cardinality(D) = Cardinality(S)
  BY <1>1, FS_Interval
<1>5. s \in Injection(D, S)
  BY <1>2 DEF Injection, IsInjective
<1>6. s \in Surjection(D, S)
  BY <1>4, <1>5, FS_Injection
<1>7. \A x \in S : \E k \in D : s[k] = x
  BY <1>6 DEF Surjection
<1> QED BY <1>2, <1>3, <1>7

\* What a batch of events at the end of a queue decides.
LEMMA BatchStanding ==
  ASSUME NEW S, NEW plus, NEW minus, Batch(S, plus, minus), NEW new \in SetToSeqs(S),
         NEW q \in Seq(Event), NEW P, NEW p
  PROVE  /\ p \in plus \ minus => Standing(q \o new, Len(q \o new), P, p)
         /\ p \in minus \ plus => ~ Standing(q \o new, Len(q \o new), P, p)
         /\ p \notin plus \cup minus =>
              (Standing(q \o new, Len(q \o new), P, p) <=> Standing(q, Len(q), P, p))
         /\ \A k \in 1 .. Len(new) :
              Concerns(new[k], p) /\ ~ new[k].insert /\ p \notin plus =>
                (Standing(q \o new, Len(q) + k - 1, P, p) <=> Standing(q, Len(q), P, p))
<1> DEFINE Q == q \o new
<1>1. /\ new \in Seq(S) /\ \A x \in S : \E k \in 1 .. Len(new) : new[k] = x
      /\ \A k, m \in 1 .. Len(new) : k # m => new[k] # new[m]
  BY SequenceOfSet DEF Batch
<1>2. new \in Seq(Event) /\ \A k \in 1 .. Len(new) : new[k] \in S
  BY <1>1 DEF Batch
<1>3. /\ Len(q) \in Nat /\ Len(new) \in Nat /\ Len(Q) = Len(q) + Len(new)
      /\ \A k \in 1 .. Len(new) : Q[Len(q) + k] = new[k]
  BY <1>2
<1>4. \A m \in Len(q) + 1 .. Len(Q) : m - Len(q) \in 1 .. Len(new) /\ Q[m] = new[m - Len(q)]
  BY <1>3
<1>5. \A k \in 1 .. Len(new) : Concerns(new[k], p) => p \in (IF new[k].insert THEN plus ELSE minus)
  BY <1>2 DEF Batch, Concerns
<1>6. \A f, g \in S : Concerns(f, p) /\ Concerns(g, p) /\ f.insert = g.insert => f = g
  BY DEF Batch, Concerns
<1>7. Standing(Q, Len(q), P, p) <=> Standing(q, Len(q), P, p)
  BY <1>2, <1>3, StandingPrefix
<1>8. ASSUME p \notin plus \cup minus PROVE Standing(Q, Len(Q), P, p) <=> Standing(q, Len(q), P, p)
  <2>1. \A m \in Len(q) + 1 .. Len(Q) : ~ Concerns(Q[m], p)
    BY <1>4, <1>5, <1>8
  <2>3. Len(Q) \in Nat /\ Len(q) \in Nat /\ Len(q) <= Len(Q)
    BY <1>3
  <2> HIDE DEF Q
  <2>2. Standing(Q, Len(Q), P, p) <=> Standing(Q, Len(q), P, p)
    BY <2>1, <2>3, StandingQuiet
  <2> QED BY <1>7, <2>2
<1>9. ASSUME NEW k \in 1 .. Len(new), Concerns(new[k], p),
             \A m \in 1 .. Len(new) : Concerns(new[m], p) => new[m].insert = new[k].insert
      PROVE  \A m \in 1 .. Len(new) : m # k => ~ Concerns(new[m], p)
  BY <1>1, <1>2, <1>6, <1>9
<1>10. ASSUME NEW k \in 1 .. Len(new), Concerns(new[k], p),
              \A m \in 1 .. Len(new) : Concerns(new[m], p) => new[m].insert = new[k].insert
       PROVE  Standing(Q, Len(Q), P, p) <=> new[k].insert
  <2>1. \A m \in (Len(q) + k) + 1 .. Len(Q) : ~ Concerns(Q[m], p)
    <3> SUFFICES ASSUME NEW m \in (Len(q) + k) + 1 .. Len(Q) PROVE ~ Concerns(Q[m], p)
      OBVIOUS
    <3>1. m - Len(q) \in 1 .. Len(new) /\ Q[m] = new[m - Len(q)] /\ m - Len(q) # k
      BY <1>3, <1>4
    <3> QED BY <1>9, <1>10, <3>1
  <2>2. Concerns(Q[Len(q) + k], p) /\ Q[Len(q) + k].insert = new[k].insert
    BY <1>3, <1>10
  <2>3. Len(q) + k \in Nat \ {0} /\ Len(q) + k <= Len(Q) /\ Len(Q) \in Nat
    BY <1>3
  <2> HIDE DEF Q
  <2>4. Standing(Q, Len(Q), P, p) <=> Standing(Q, Len(q) + k, P, p)
    BY <2>1, <2>3, StandingQuiet
  <2>5. Standing(Q, Len(q) + k, P, p) <=> Q[Len(q) + k].insert
    BY <2>2, <2>3, StandingLast
  <2> QED BY <2>2, <2>4, <2>5
<1>11. ASSUME p \in plus \ minus PROVE Standing(Q, Len(Q), P, p)
  <2>1. PICK f \in S : f.insert /\ p \in f.proofs
    BY <1>11 DEF Batch
  <2>2. PICK k \in 1 .. Len(new) : new[k] = f
    BY <1>1
  <2>3. Concerns(new[k], p) /\ new[k].insert
    BY <2>1, <2>2 DEF Batch, Concerns
  <2>4. \A m \in 1 .. Len(new) : Concerns(new[m], p) => new[m].insert
    BY <1>5, <1>11
  <2>5. \A m \in 1 .. Len(new) : new[m].insert \in BOOLEAN
    BY <1>2 DEF Batch, Event
  <2>6. \A m \in 1 .. Len(new) : Concerns(new[m], p) => new[m].insert = new[k].insert
    BY <2>3, <2>4, <2>5
  <2> QED BY <1>10, <2>3, <2>6
<1>12. ASSUME p \in minus \ plus PROVE ~ Standing(Q, Len(Q), P, p)
  <2>1. PICK f \in S : ~ f.insert /\ p \in f.proofs
    BY <1>12 DEF Batch
  <2>2. PICK k \in 1 .. Len(new) : new[k] = f
    BY <1>1
  <2>3. Concerns(new[k], p) /\ ~ new[k].insert
    BY <2>1, <2>2 DEF Batch, Concerns
  <2>4. \A m \in 1 .. Len(new) : Concerns(new[m], p) => ~ new[m].insert
    BY <1>5, <1>12
  <2>5. \A m \in 1 .. Len(new) : new[m].insert \in BOOLEAN
    BY <1>2 DEF Batch, Event
  <2>6. \A m \in 1 .. Len(new) : Concerns(new[m], p) => new[m].insert = new[k].insert
    BY <2>3, <2>4, <2>5
  <2> QED BY <1>10, <2>3, <2>6
<1>13. ASSUME NEW k \in 1 .. Len(new), Concerns(new[k], p), ~ new[k].insert, p \notin plus
       PROVE  Standing(Q, Len(q) + k - 1, P, p) <=> Standing(q, Len(q), P, p)
  <2>1. \A m \in 1 .. Len(new) : Concerns(new[m], p) => ~ new[m].insert
    BY <1>5, <1>13
  <2>2. \A m \in 1 .. Len(new) : new[m].insert \in BOOLEAN
    BY <1>2 DEF Batch, Event
  <2>3. \A m \in 1 .. Len(new) : Concerns(new[m], p) => new[m].insert = new[k].insert
    BY <1>13, <2>1, <2>2
  <2>4. \A m \in Len(q) + 1 .. Len(q) + k - 1 : ~ Concerns(Q[m], p)
    <3> SUFFICES ASSUME NEW m \in Len(q) + 1 .. Len(q) + k - 1 PROVE ~ Concerns(Q[m], p)
      OBVIOUS
    <3>1. m \in Len(q) + 1 .. Len(Q) /\ m - Len(q) # k
      BY <1>3
    <3>2. m - Len(q) \in 1 .. Len(new) /\ Q[m] = new[m - Len(q)]
      BY <1>4, <3>1
    <3> QED BY <1>9, <1>13, <2>3, <3>1, <3>2
  <2>5. Len(q) + k - 1 \in Nat /\ Len(q) <= Len(q) + k - 1
    BY <1>3
  <2> HIDE DEF Q
  <2>6. Standing(Q, Len(q) + k - 1, P, p) <=> Standing(Q, Len(q), P, p)
    BY <1>3, <2>4, <2>5, StandingQuiet
  <2> QED BY <1>7, <2>6
<1> QED BY <1>8, <1>11, <1>12, <1>13

\* The image of a finite set is finite.
LEMMA FiniteImage ==
  ASSUME NEW S, IsFiniteSet(S), NEW f, DOMAIN f = S, f = [x \in S |-> f[x]]
  PROVE  IsFiniteSet({f[x] : x \in S})
<1> DEFINE T == {f[x] : x \in S}
<1>1. f \in Surjection(S, T)
  BY DEF Surjection
<1> HIDE DEF T
<1>2. IsFiniteSet(T)
  BY <1>1, FS_Surjection
<1> QED BY <1>2 DEF T

\* The instances of one rule make a batch: one event for each head.
LEMMA HeadEventsBatch ==
  ASSUME NEW r \in Rule, NEW I \in SUBSET Instances[r], NEW ins \in BOOLEAN
  PROVE  Batch(HeadEvents(r, I, ins), IF ins THEN {ProofOf(r, i) : i \in I} ELSE {},
                                      IF ins THEN {} ELSE {ProofOf(r, i) : i \in I})
<1> DEFINE S == HeadEvents(r, I, ins)
           G(a) == {[rule |-> r, inst |-> i] : i \in {j \in I : j.head = a}}
           H == {i.head : i \in I}
<1>1. IsFiniteSet(I) /\ I \subseteq Instance
  <2>1. IsFiniteSet(Instances[r]) /\ Instances[r] \subseteq Instance
    BY RuleAssumption
  <2> QED BY <2>1, FS_Subset
<1>2. IsFiniteSet(H)
  <2> DEFINE f == [i \in I |-> i.head]
  <2>1. IsFiniteSet({f[i] : i \in I})
    <3>1. DOMAIN f = I /\ f = [i \in I |-> f[i]]
      OBVIOUS
    <3> HIDE DEF f
    <3> QED BY <1>1, <3>1, FiniteImage
  <2>2. H = {f[i] : i \in I}
    OBVIOUS
  <2> QED BY <2>1, <2>2
<1>3. S = {FactEvent(a, G(a), ins) : a \in H}
  BY DEF HeadEvents
<1>4. IsFiniteSet(S)
  <2> HIDE DEF H, G
  <2> DEFINE f == [a \in H |-> FactEvent(a, G(a), ins)]
  <2>1. IsFiniteSet({f[a] : a \in H})
    <3>1. DOMAIN f = H /\ f = [a \in H |-> f[a]]
      OBVIOUS
    <3> HIDE DEF f
    <3> QED BY <1>2, <3>1, FiniteImage
  <2>2. S = {f[a] : a \in H}
    BY <1>3
  <2> QED BY <2>1, <2>2
<1>5. ASSUME NEW a \in H
      PROVE  /\ FactEvent(a, G(a), ins) \in Event
             /\ FactEvent(a, G(a), ins).type = "fact" /\ FactEvent(a, G(a), ins).insert = ins
             /\ FactEvent(a, G(a), ins).proofs = G(a) /\ FactEvent(a, G(a), ins).atom = a
  <2>1. a \in Atom
    BY <1>1, <1>5 DEF Instance
  <2>2. G(a) \subseteq Proof
    BY <1>1 DEF Proof
  <2> HIDE DEF G, H
  <2>3. FactEvent(a, G(a), ins) \in [type : {"fact"}, atom : Atom, proofs : SUBSET Proof, insert : BOOLEAN]
    BY <2>1, <2>2 DEF FactEvent
  <2> QED BY <2>3 DEF Event, FactEvent
<1>6. \A a : \A p \in G(a) : p.rule = r /\ p.inst \in I /\ p.inst.head = a /\ p = ProofOf(r, p.inst)
  BY DEF ProofOf
<1>7. \A i \in I : i.head \in H /\ ProofOf(r, i) \in G(i.head)
  BY DEF ProofOf
<1> HIDE DEF S, G, H
<1>8. \A f \in S : f \in Event /\ f.type = "fact" /\ f.insert = ins /\ f.proofs = G(f.atom)
                     /\ f = FactEvent(f.atom, G(f.atom), ins)
  BY <1>3, <1>5
<1>9. \A f \in S : RightEvent(f) /\ f.proofs \subseteq {ProofOf(r, i) : i \in I}
  BY <1>6, <1>8 DEF RightEvent
<1>10. \A i \in I : \E f \in S : f.insert = ins /\ ProofOf(r, i) \in f.proofs
  <2> SUFFICES ASSUME NEW i \in I PROVE \E f \in S : f.insert = ins /\ ProofOf(r, i) \in f.proofs
    OBVIOUS
  <2>1. FactEvent(i.head, G(i.head), ins) \in S
    BY <1>3, <1>7
  <2> QED BY <1>5, <1>7, <2>1
<1>11. \A f, g \in S : f.proofs \cap g.proofs # {} => f = g
  BY <1>6, <1>8
<1>12. Batch(S, IF ins THEN {ProofOf(r, i) : i \in I} ELSE {}, IF ins THEN {} ELSE {ProofOf(r, i) : i \in I})
  <2>1. CASE ins = TRUE
    <3>1. \A p \in {ProofOf(r, i) : i \in I} : \E f \in S : f.insert /\ p \in f.proofs
      BY <1>10, <2>1
    <3>2. \A f \in S : f.insert = TRUE
      BY <1>8, <2>1
    <3> QED BY <1>4, <1>8, <1>9, <1>11, <2>1, <3>1, <3>2 DEF Batch
  <2>2. CASE ins = FALSE
    <3>1. \A p \in {ProofOf(r, i) : i \in I} : \E f \in S : ~ f.insert /\ p \in f.proofs
      BY <1>10, <2>2
    <3>2. \A f \in S : f.insert = FALSE
      BY <1>8, <2>2
    <3> QED BY <1>4, <1>8, <1>9, <1>11, <2>2, <3>1, <3>2 DEF Batch
  <2> QED BY <2>1, <2>2
<1> QED BY <1>12 DEF S

\* The proofs whose instances have the literal a, or not a, and otherwise hold.
PositiveProofs(a) ==
  {p \in Proof : /\ p.rule \in rules /\ p.inst \in Instances[p.rule]
                 /\ a \in p.inst.pos /\ Holds(p.inst, {a})}
NegativeProofs(a) ==
  {p \in Proof : /\ p.rule \in rules /\ p.inst \in Instances[p.rule]
                 /\ a \in p.inst.neg /\ Holds(p.inst, {a})}

\* propagate queues a batch: the events of all delta rules that a change triggers.
LEMMA CausedBatch ==
  ASSUME rules \subseteq Rule, NEW e, e.insert \in BOOLEAN
  PROVE  Batch(Caused(e), IF e.insert THEN PositiveProofs(e.atom) ELSE NegativeProofs(e.atom),
                          IF e.insert THEN NegativeProofs(e.atom) ELSE PositiveProofs(e.atom))
<1> DEFINE a == e.atom
           Pos(r) == {i \in Instances[r] : a \in i.pos /\ Holds(i, {a})}
           Neg(r) == {i \in Instances[r] : a \in i.neg /\ Holds(i, {a})}
           U(r) == HeadEvents(r, Pos(r), e.insert) \cup HeadEvents(r, Neg(r), ~ e.insert)
           S == Caused(e)
           plus == IF e.insert THEN PositiveProofs(a) ELSE NegativeProofs(a)
           minus == IF e.insert THEN NegativeProofs(a) ELSE PositiveProofs(a)
           From(I, r) == {ProofOf(r, i) : i \in I}
<1>1. S = UNION {U(r) : r \in rules}
  BY DEF Caused
<1>2. ASSUME NEW r \in rules
      PROVE  /\ Batch(HeadEvents(r, Pos(r), e.insert), IF e.insert THEN From(Pos(r), r) ELSE {},
                                                       IF e.insert THEN {} ELSE From(Pos(r), r))
             /\ Batch(HeadEvents(r, Neg(r), ~ e.insert), IF ~ e.insert THEN From(Neg(r), r) ELSE {},
                                                         IF ~ e.insert THEN {} ELSE From(Neg(r), r))
  <2>1. r \in Rule /\ Pos(r) \in SUBSET Instances[r] /\ Neg(r) \in SUBSET Instances[r]
    OBVIOUS
  <2>2. (~ e.insert) \in BOOLEAN
    OBVIOUS
  <2> HIDE DEF Pos, Neg
  <2> QED BY <2>1, <2>2, HeadEventsBatch
<1>3. \A r \in rules : /\ From(Pos(r), r) = {p \in PositiveProofs(a) : p.rule = r}
                       /\ From(Neg(r), r) = {p \in NegativeProofs(a) : p.rule = r}
  <2> SUFFICES ASSUME NEW r \in rules
               PROVE  /\ From(Pos(r), r) = {p \in PositiveProofs(a) : p.rule = r}
                      /\ From(Neg(r), r) = {p \in NegativeProofs(a) : p.rule = r}
    OBVIOUS
  <2>1. r \in Rule /\ Instances[r] \subseteq Instance
    BY RuleAssumption
  <2>2. \A i \in Instances[r] : ProofOf(r, i) \in Proof /\ ProofOf(r, i).rule = r /\ ProofOf(r, i).inst = i
    BY <2>1 DEF ProofOf, Proof
  <2>3. \A p \in Proof : p = ProofOf(p.rule, p.inst)
    BY DEF Proof, ProofOf
  <2>4. From(Pos(r), r) \subseteq {p \in PositiveProofs(a) : p.rule = r}
    BY <2>2 DEF PositiveProofs
  <2>5. {p \in PositiveProofs(a) : p.rule = r} \subseteq From(Pos(r), r)
    BY <2>3 DEF PositiveProofs
  <2>6. From(Neg(r), r) \subseteq {p \in NegativeProofs(a) : p.rule = r}
    BY <2>2 DEF NegativeProofs
  <2>7. {p \in NegativeProofs(a) : p.rule = r} \subseteq From(Neg(r), r)
    BY <2>3 DEF NegativeProofs
  <2> QED BY <2>4, <2>5, <2>6, <2>7
<1> HIDE DEF Pos, Neg, From
<1>4. IsFiniteSet(S)
  <2>1. IsFiniteSet(rules)
    BY RuleAssumption, FS_Subset
  <2>2. \A r \in rules : IsFiniteSet(U(r))
    <3> SUFFICES ASSUME NEW r \in rules PROVE IsFiniteSet(U(r))
      OBVIOUS
    <3>1. IsFiniteSet(HeadEvents(r, Pos(r), e.insert)) /\ IsFiniteSet(HeadEvents(r, Neg(r), ~ e.insert))
      BY <1>2 DEF Batch
    <3> QED BY <3>1, FS_Union
  <2> HIDE DEF U
  <2> DEFINE f == [r \in rules |-> U(r)]
  <2>3. IsFiniteSet({f[r] : r \in rules})
    <3>1. DOMAIN f = rules /\ f = [r \in rules |-> f[r]]
      OBVIOUS
    <3> HIDE DEF f
    <3> QED BY <2>1, <3>1, FiniteImage
  <2>4. {f[r] : r \in rules} = {U(r) : r \in rules}
    OBVIOUS
  <2>5. \A x \in {U(r) : r \in rules} : IsFiniteSet(x)
    BY <2>2
  <2> HIDE DEF f
  <2> DEFINE W == {U(r) : r \in rules}
  <2>6. IsFiniteSet(W) /\ \A x \in W : IsFiniteSet(x)
    BY <2>3, <2>4, <2>5
  <2> HIDE DEF W
  <2>7. IsFiniteSet(UNION W)
    BY <2>6, FS_UNION
  <2> QED BY <1>1, <2>7 DEF W
\* Which of the two kinds of delta rules an event comes from.
<1> DEFINE Kind(f, r) == \/ f \in HeadEvents(r, Pos(r), e.insert) /\ f.insert = e.insert
                         \/ f \in HeadEvents(r, Neg(r), ~ e.insert) /\ f.insert = ~ e.insert
<1>5. ASSUME NEW r \in rules
      PROVE  /\ \A f \in HeadEvents(r, Pos(r), e.insert) :
                  /\ f \in Event /\ f.type = "fact" /\ RightEvent(f) /\ f.insert = e.insert
                  /\ f.proofs \subseteq From(Pos(r), r)
             /\ \A f \in HeadEvents(r, Neg(r), ~ e.insert) :
                  /\ f \in Event /\ f.type = "fact" /\ RightEvent(f) /\ f.insert = ~ e.insert
                  /\ f.proofs \subseteq From(Neg(r), r)
  <2>1. \A f \in HeadEvents(r, Pos(r), e.insert) : f.insert = e.insert
    BY DEF HeadEvents, FactEvent
  <2>2. \A f \in HeadEvents(r, Neg(r), ~ e.insert) : f.insert = ~ e.insert
    BY DEF HeadEvents, FactEvent
  <2>3. CASE e.insert = TRUE
    BY <1>2, <2>1, <2>2, <2>3 DEF Batch
  <2>4. CASE e.insert = FALSE
    BY <1>2, <2>1, <2>2, <2>4 DEF Batch
  <2> QED BY <2>3, <2>4
<1>6. \A f \in S : \E r \in rules : Kind(f, r)
  BY <1>1, <1>5
<1>7. \A f \in S : /\ f \in Event /\ f.type = "fact" /\ RightEvent(f)
                   /\ f.proofs \subseteq (IF f.insert THEN plus ELSE minus)
  <2> SUFFICES ASSUME NEW f \in S
               PROVE  /\ f \in Event /\ f.type = "fact" /\ RightEvent(f)
                      /\ f.proofs \subseteq (IF f.insert THEN plus ELSE minus)
    OBVIOUS
  <2>1. PICK r \in rules : Kind(f, r)
    BY <1>6
  <2>2. CASE f \in HeadEvents(r, Pos(r), e.insert) /\ f.insert = e.insert
    BY <1>3, <1>5, <2>2
  <2>3. CASE f \in HeadEvents(r, Neg(r), ~ e.insert) /\ f.insert = ~ e.insert
    BY <1>3, <1>5, <2>3
  <2> QED BY <2>1, <2>2, <2>3
<1>8. \A p \in PositiveProofs(a) : \E f \in S : f.insert = e.insert /\ p \in f.proofs
  <2> SUFFICES ASSUME NEW p \in PositiveProofs(a)
               PROVE  \E f \in S : f.insert = e.insert /\ p \in f.proofs
    OBVIOUS
  <2>1. p.rule \in rules
    BY DEF PositiveProofs
  <2>2. p \in From(Pos(p.rule), p.rule)
    BY <1>3, <2>1
  <2>3. \E f \in HeadEvents(p.rule, Pos(p.rule), e.insert) : p \in f.proofs
    <3>1. CASE e.insert = TRUE
      BY <1>2, <2>1, <2>2, <3>1 DEF Batch
    <3>2. CASE e.insert = FALSE
      BY <1>2, <2>1, <2>2, <3>2 DEF Batch
    <3> QED BY <3>1, <3>2
  <2> QED BY <1>1, <1>5, <2>1, <2>3
<1>9. \A p \in NegativeProofs(a) : \E f \in S : f.insert = (~ e.insert) /\ p \in f.proofs
  <2> SUFFICES ASSUME NEW p \in NegativeProofs(a)
               PROVE  \E f \in S : f.insert = (~ e.insert) /\ p \in f.proofs
    OBVIOUS
  <2>1. p.rule \in rules
    BY DEF NegativeProofs
  <2>2. p \in From(Neg(p.rule), p.rule)
    BY <1>3, <2>1
  <2>3. \E f \in HeadEvents(p.rule, Neg(p.rule), ~ e.insert) : p \in f.proofs
    <3>1. CASE e.insert = TRUE
      BY <1>2, <2>1, <2>2, <3>1 DEF Batch
    <3>2. CASE e.insert = FALSE
      BY <1>2, <2>1, <2>2, <3>2 DEF Batch
    <3> QED BY <3>1, <3>2
  <2> QED BY <1>1, <1>5, <2>1, <2>3
<1>10. ASSUME NEW f \in S, NEW g \in S, f.insert = g.insert, f.proofs \cap g.proofs # {}
       PROVE  f = g
  <2>1. PICK p : p \in f.proofs /\ p \in g.proofs
    BY <1>10
  <2>2. PICK r \in rules : Kind(f, r)
    BY <1>6
  <2>3. PICK s \in rules : Kind(g, s)
    BY <1>6
  <2>4. p.rule = r /\ p.rule = s
    BY <1>3, <1>5, <2>1, <2>2, <2>3
  <2>5. CASE f \in HeadEvents(r, Pos(r), e.insert) /\ g \in HeadEvents(r, Pos(r), e.insert)
    BY <1>2, <1>10, <2>1, <2>5 DEF Batch
  <2>6. CASE f \in HeadEvents(r, Neg(r), ~ e.insert) /\ g \in HeadEvents(r, Neg(r), ~ e.insert)
    BY <1>2, <1>10, <2>1, <2>6 DEF Batch
  <2> QED BY <1>10, <2>2, <2>3, <2>4, <2>5, <2>6
<1>11. /\ \A p \in plus : \E f \in S : f.insert /\ p \in f.proofs
       /\ \A p \in minus : \E f \in S : ~ f.insert /\ p \in f.proofs
  <2>1. CASE e.insert = TRUE
    BY <1>8, <1>9, <2>1
  <2>2. CASE e.insert = FALSE
    BY <1>8, <1>9, <2>2
  <2> QED BY <2>1, <2>2
<1> HIDE DEF S, plus, minus
<1>12. Batch(S, plus, minus)
  BY <1>4, <1>7, <1>10, <1>11 DEF Batch
<1> QED BY <1>12 DEF S, plus, minus

-----------------------------------------------------------------------------
(***************************************************************************)
(* Types, events and support.                                              *)
(***************************************************************************)
\* The concatenation of at most two sequences.
LEMMA FlattenTwo ==
  ASSUME NEW A, NEW s \in Seq(Seq(A)), Len(s) <= 2
  PROVE  FlattenSeq(s) \in Seq(A)
<1> DEFINE D == 1 .. Len(s)
           F(f) == f = [i \in D |-> IF i = 1 THEN s[i] ELSE f[i - 1] \o s[i]]
           g == [i \in D |-> IF i = 1 THEN s[1] ELSE s[1] \o s[2]]
<1>1. CASE Len(s) = 0
  BY <1>1 DEF FlattenSeq
<1>2. CASE Len(s) # 0
  <2>1. Len(s) \in {1, 2} /\ s[1] \in Seq(A) /\ (Len(s) = 2 => s[2] \in Seq(A))
    <3>1. Len(s) \in Nat /\ \A i \in 1 .. Len(s) : s[i] \in Seq(A)
      OBVIOUS
    <3>3. \A l \in Nat : l # 0 /\ l <= 2 => l \in {1, 2}
      OBVIOUS
    <3>2. Len(s) \in {1, 2}
      BY <1>2, <3>1, <3>3
    <3> QED BY <3>1, <3>2
  <2>2. \A i \in D : i \in {1, 2} /\ (i = 2 => Len(s) = 2 /\ i - 1 = 1 /\ 1 \in D)
    <3>1. CASE Len(s) = 1
      BY <3>1
    <3>2. CASE Len(s) = 2
      BY <3>2
    <3> QED BY <2>1, <3>1, <3>2
  <2>3. F(g)
    <3>1. \A i \in D : g[i] = IF i = 1 THEN s[i] ELSE g[i - 1] \o s[i]
      BY <2>2
    <3> HIDE DEF D
    <3>2. g = [i \in D |-> g[i]]
      OBVIOUS
    <3> HIDE DEF g
    <3> QED BY <3>1, <3>2
  <2> DEFINE h == CHOOSE f : F(f)
  <2>4. F(h)
    <3> HIDE DEF F, g
    <3> QED BY <2>3
  <2>5. FlattenSeq(s) = h[Len(s)]
    BY <1>2 DEF FlattenSeq
  <2> HIDE DEF h
  <2>6. \A i \in D : h[i] = IF i = 1 THEN s[i] ELSE h[i - 1] \o s[i]
    BY <2>4
  <2>7. 1 \in D /\ Len(s) \in D
    BY <2>1
  <2>8. h[1] = s[1]
    BY <2>6, <2>7
  <2>9. CASE Len(s) = 1
    BY <2>1, <2>5, <2>8, <2>9
  <2>10. CASE Len(s) = 2
    <3>1. h[2] = h[1] \o s[2]
      BY <2>6, <2>7, <2>10
    <3> QED BY <2>1, <2>5, <2>8, <2>10, <3>1
  <2> QED BY <2>1, <2>9, <2>10
<1> QED BY <1>1, <1>2

\* Events that are about no proof.
Quiet == {f \in Event : RightEvent(f) /\ \A p : ~ Concerns(f, p)}

\* A client's change is queued as facts without proofs, or as rules.
LEMMA ExpandQuiet ==
  ASSUME NEW c \in Change
  PROVE  Expand(c) \in Seq(Quiet)
<1>1. CASE c.type = "fact"
  <2>1. c.atom \in Atom /\ c.insert \in BOOLEAN
    BY <1>1, RuleAssumption DEF Change
  <2>2. FactEvent(c.atom, {}, c.insert) \in [type : {"fact"}, atom : Atom, proofs : SUBSET Proof, insert : BOOLEAN]
    BY <2>1 DEF FactEvent
  <2>3. FactEvent(c.atom, {}, c.insert).proofs = {}
    BY DEF FactEvent
  <2>4. FactEvent(c.atom, {}, c.insert) \in Quiet
    BY <2>2, <2>3 DEF Quiet, Event, RightEvent, Concerns
  <2>5. Expand(c) = <<FactEvent(c.atom, {}, c.insert)>>
    BY <1>1 DEF Expand
  <2> QED BY <2>4, <2>5
<1>2. CASE c.type # "fact"
  <2>1. c.rule \in UserRule /\ c.insert \in BOOLEAN
    BY <1>2 DEF Change
  <2>2. Expansion[c.rule] \in Seq(Rule)
    BY <2>1, RuleAssumption
  <2>3. ASSUME NEW r \in Rule PROVE RuleEvent(r, c.insert) \in Quiet
    <3>1. RuleEvent(r, c.insert) \in [type : {"rule"}, rule : Rule, insert : BOOLEAN]
      BY <2>1 DEF RuleEvent
    <3>2. RuleEvent(r, c.insert).type # "fact"
      BY DEF RuleEvent
    <3> QED BY <3>1, <3>2 DEF Quiet, Event, RightEvent, Concerns
  <2> DEFINE E == Expansion[c.rule]
  <2>4. Expand(c) = [n \in 1 .. Len(E) |-> RuleEvent(E[n], c.insert)]
    BY <1>2 DEF Expand
  <2>5. \A n \in 1 .. Len(E) : RuleEvent(E[n], c.insert) \in Quiet
    BY <2>2, <2>3
  <2>6. Len(E) \in Nat
    BY <2>2
  <2> HIDE DEF E
  <2> QED BY <2>4, <2>5, <2>6
<1> QED BY <1>1, <1>2

\* update() only adds such events to the queue.
LEMMA UpdateQuiet ==
  ASSUME NEW changes \in Seq(Change), Len(changes) <= 2, Update(changes)
  PROVE  \E new \in Seq(Quiet) : queue' = queue \o new
<1> DEFINE bad == {n \in DOMAIN changes : changes[n].type = "fact" /\ IsView(TableOf[changes[n].atom])}
           first == CHOOSE n \in bad : \A m \in bad : n <= m
           good == IF bad = {} THEN changes ELSE SubSeq(changes, 1, first - 1)
           s == [n \in DOMAIN good |-> Expand(good[n])]
<1>1. queue' = queue \o FlattenSeq(s)
  BY DEF Update
<1>2. good \in Seq(Change) /\ Len(good) <= 2
  <2>1. CASE bad = {}
    BY <2>1
  <2>2. CASE bad # {}
    <3>1. bad \subseteq {1, 2} /\ bad \subseteq 1 .. Len(changes)
      OBVIOUS
    <3> HIDE DEF bad
    <3>2. \E n \in bad : \A m \in bad : n <= m
      <4>1. CASE 1 \in bad
        BY <3>1, <4>1
      <4>2. CASE 1 \notin bad
        <5>1. \A m \in bad : m = 2
          BY <3>1, <4>2
        <5> QED BY <2>2, <5>1
      <4> QED BY <4>1, <4>2
    <3>3. first \in bad
      BY <3>2
    <3>4. first \in 1 .. Len(changes) /\ first \in {1, 2}
      BY <3>1, <3>3
    <3> HIDE DEF first
    <3>5. SubSeq(changes, 1, first - 1) \in Seq(Change) /\ Len(SubSeq(changes, 1, first - 1)) <= 2
      BY <3>4
    <3> QED BY <2>2, <3>5
  <2> QED BY <2>1, <2>2
<1> HIDE DEF good
<1>3. \A n \in DOMAIN good : Expand(good[n]) \in Seq(Quiet)
  BY <1>2, ExpandQuiet
<1>4. s \in Seq(Seq(Quiet)) /\ Len(s) <= 2
  <2>1. DOMAIN good = 1 .. Len(good) /\ Len(good) \in Nat
    BY <1>2
  <2>2. s \in [1 .. Len(good) -> Seq(Quiet)]
    BY <1>3, <2>1
  <2>3. s \in Seq(Seq(Quiet)) /\ Len(s) = Len(good)
    BY <2>1, <2>2
  <2> QED BY <1>2, <2>3
<1> HIDE DEF s
<1>5. FlattenSeq(s) \in Seq(Quiet)
  BY <1>4, FlattenTwo
<1> QED BY <1>1, <1>5

Proper == TypeOK /\ RightEvents /\ Supported

\* Database.modify changes one tuple and its proofs.
LEMMA StoreEffect ==
  ASSUME Proper, NEW e \in Event, e.type = "fact", RightEvent(e), Store(e)
  PROVE  /\ e.atom \in Atom /\ e.proofs \subseteq Proof /\ e.insert \in BOOLEAN
         /\ stored' \subseteq Atom /\ proofs' \in [Atom -> SUBSET Proof]
         /\ \A b \in Atom \ {e.atom} : proofs'[b] = proofs[b] /\ (b \in stored' <=> b \in stored)
         /\ e.insert => e.atom \in stored' /\ proofs'[e.atom] = proofs[e.atom] \cup e.proofs
         /\ ~ e.insert => proofs'[e.atom] = IF e.proofs \subseteq proofs[e.atom]
                                            THEN proofs[e.atom] \ e.proofs ELSE proofs[e.atom]
         /\ ~ e.insert /\ proofs[e.atom] \subseteq e.proofs /\ e.proofs \subseteq proofs[e.atom]
              => e.atom \notin stored'
         /\ ~ e.insert /\ e.atom \in stored' => e.atom \in stored
         /\ proofs'[e.atom] # {} => e.atom \in stored'
         /\ e.atom \in stored' => \/ e.proofs = {} /\ e.insert
                                  \/ e.proofs # {} /\ e.atom \in base
                                  \/ proofs'[e.atom] # {}
<1> DEFINE a == e.atom
<1>1. a \in Atom /\ e.proofs \subseteq Proof /\ e.insert \in BOOLEAN
  BY DEF Event
<1>2. proofs \in [Atom -> SUBSET Proof] /\ stored \subseteq Atom /\ (proofs[a] # {} => a \in stored)
        /\ (a \in stored => a \in base \/ proofs[a] # {})
  BY <1>1 DEF Proper, TypeOK, Supported
<1>3. CASE e.insert
  <2>1. stored' = stored \cup {a} /\ proofs' = [proofs EXCEPT ![a] = @ \cup e.proofs]
    BY <1>3 DEF Store
  <2>2. proofs'[a] = proofs[a] \cup e.proofs
    BY <1>1, <1>2, <2>1
  <2> QED BY <1>1, <1>2, <1>3, <2>1, <2>2
<1>4. CASE ~ e.insert
  <2>1. CASE a \in stored /\ e.proofs \subseteq proofs[a]
    <3>1. /\ stored' = IF proofs[a] \ e.proofs = {} THEN stored \ {a} ELSE stored
          /\ proofs' = [proofs EXCEPT ![a] = proofs[a] \ e.proofs]
      BY <1>4, <2>1 DEF Store
    <3>2. proofs'[a] = proofs[a] \ e.proofs
      BY <1>1, <1>2, <3>1
    <3> QED BY <1>1, <1>2, <1>4, <2>1, <3>1, <3>2
  <2>2. CASE ~ (a \in stored /\ e.proofs \subseteq proofs[a])
    <3>1. stored' = stored /\ proofs' = proofs
      BY <1>4, <2>2 DEF Store
    <3>2. a \notin stored => proofs[a] = {}
      BY <1>2
    <3> QED BY <1>1, <1>2, <1>4, <2>2, <3>1, <3>2
  <2> QED BY <2>1, <2>2
<1> QED BY <1>3, <1>4

\* The two changes of an update are a sequence of changes.
LEMMA UpdateOfTwo ==
  ASSUME Proper, NEW c \in Change, NEW d \in Change, Update(<<c>>) \/ Update(<<c, d>>)
  PROVE  /\ \E new \in Seq(Quiet) : queue' = queue \o new
         /\ UNCHANGED <<rules, stored, proofs, base>>
         /\ running' \in BOOLEAN /\ updates' \in 0 .. MaxUpdates
<1>1. <<c>> \in Seq(Change) /\ Len(<<c>>) <= 2 /\ <<c, d>> \in Seq(Change) /\ Len(<<c, d>>) <= 2
  OBVIOUS
<1>2. \E new \in Seq(Quiet) : queue' = queue \o new
  BY <1>1, UpdateQuiet
<1>3. updates \in 0 .. MaxUpdates /\ MaxUpdates \in Nat
  BY RuleAssumption DEF Proper, TypeOK
<1>4. CASE Update(<<c>>)
  <2>1. updates < MaxUpdates /\ updates' = updates + 1 /\ UNCHANGED <<rules, stored, proofs, base>>
    BY <1>4 DEF Update
  <2>2. running' \in BOOLEAN
    BY <1>4, Zenon DEF Update
  <2> QED BY <1>2, <1>3, <2>1, <2>2
<1>5. CASE Update(<<c, d>>)
  <2>1. updates < MaxUpdates /\ updates' = updates + 1 /\ UNCHANGED <<rules, stored, proofs, base>>
    BY <1>5 DEF Update
  <2>2. running' \in BOOLEAN
    BY <1>5, Zenon DEF Update
  <2> QED BY <1>2, <1>3, <2>1, <2>2
<1> QED BY <1>4, <1>5

\* A step of process_queue ends it, or processes one event.
LEMMA QueueSteps ==
  ASSUME Proper, ProcessQueue
  PROVE  \/ UNCHANGED <<rules, stored, proofs, queue, base, updates>> /\ running' = FALSE
         \/ \E e \in Event :
              /\ queue # <<>> /\ UNCHANGED <<running, updates>>
              /\ e = queue[1] /\ RightEvent(e)
              /\ \/ e.type = "rule" /\ ProcessRule(e)
                 \/ e.type = "fact" /\ ProcessFact(e)
<1>1. queue \in Seq(Event) /\ \A k \in DOMAIN queue : RightEvent(queue[k])
  BY DEF Proper, TypeOK, RightEvents
<1>2. CASE queue = <<>>
  BY <1>2 DEF ProcessQueue
<1>3. CASE queue # <<>>
  <2>1. Head(queue) = queue[1] /\ Head(queue) \in Event /\ RightEvent(Head(queue))
    BY <1>1, <1>3
  <2>2. \E e \in Event :
              /\ queue # <<>> /\ UNCHANGED <<running, updates>>
              /\ e = queue[1] /\ RightEvent(e)
              /\ \/ e.type = "rule" /\ ProcessRule(e)
                 \/ e.type = "fact" /\ ProcessFact(e)
    <3> USE <2>1
    <3> WITNESS Head(queue) \in Event
    <3> QED BY <1>3, <2>1 DEF ProcessQueue
  <2> QED BY <2>2
<1> QED BY <1>2, <1>3

\* The proofs of a rule whose instances hold.
RuleProofs(r) == {p \in Proof : p.rule = r /\ p.inst \in Instances[r] /\ Holds(p.inst, {})}

\* The events a rule's change queues make a batch.
LEMMA RuleBatch ==
  ASSUME Proper, NEW e \in Event, e.type = "rule", ProcessRule(e)
  PROVE  /\ e.rule \in Rule /\ e.insert \in BOOLEAN
         /\ rules' = IF e.insert THEN rules \cup {e.rule} ELSE rules \ {e.rule}
         /\ UNCHANGED <<stored, proofs, base>>
         /\ \E S : \E new \in SetToSeqs(S) :
              /\ queue' = Tail(queue) \o new
              /\ Batch(S, IF e.insert /\ e.rule \notin rules THEN RuleProofs(e.rule) ELSE {},
                          IF ~ e.insert /\ e.rule \in rules THEN RuleProofs(e.rule) ELSE {})
<1> DEFINE r == e.rule
           changed == e.insert # (r \in rules)
           matching == {i \in Instances[r] : Holds(i, {})}
           S == IF changed THEN HeadEvents(r, matching, e.insert) ELSE {}
           plus == IF e.insert /\ r \notin rules THEN RuleProofs(r) ELSE {}
           minus == IF ~ e.insert /\ r \in rules THEN RuleProofs(r) ELSE {}
<1>1. r \in Rule /\ e.insert \in BOOLEAN
  BY DEF Event
<1>2. PICK new \in SetToSeqs(S) : queue' = Tail(queue) \o new
  BY DEF ProcessRule
<1>3. Batch(S, plus, minus)
  <2>1. CASE changed
    <3>1. Batch(HeadEvents(r, matching, e.insert), IF e.insert THEN {ProofOf(r, i) : i \in matching} ELSE {},
                                                   IF e.insert THEN {} ELSE {ProofOf(r, i) : i \in matching})
      <4>1. matching \in SUBSET Instances[r]
        OBVIOUS
      <4> HIDE DEF matching
      <4> QED BY <1>1, <4>1, HeadEventsBatch
    <3>2. {ProofOf(r, i) : i \in matching} = RuleProofs(r)
      <4>1. Instances[r] \subseteq Instance
        BY <1>1, RuleAssumption
      <4>2. \A i \in Instances[r] : ProofOf(r, i) \in Proof /\ ProofOf(r, i).rule = r /\ ProofOf(r, i).inst = i
        BY <1>1, <4>1 DEF ProofOf, Proof
      <4>3. \A p \in Proof : p = ProofOf(p.rule, p.inst)
        BY DEF Proof, ProofOf
      <4>4. {ProofOf(r, i) : i \in matching} \subseteq RuleProofs(r)
        BY <4>2 DEF RuleProofs
      <4>5. RuleProofs(r) \subseteq {ProofOf(r, i) : i \in matching}
        BY <4>3 DEF RuleProofs
      <4> QED BY <4>4, <4>5
    <3>3. CASE e.insert = TRUE
      <4>1. plus = RuleProofs(r) /\ minus = {}
        BY <2>1, <3>3
      <4> QED BY <2>1, <3>1, <3>2, <3>3, <4>1
    <3>4. CASE e.insert = FALSE
      <4>2. r \in rules
        <5> SUFFICES ASSUME r \notin rules PROVE FALSE
          OBVIOUS
        <5>1. (r \in rules) = FALSE
          OBVIOUS
        <5>2. e.insert # FALSE
          BY <2>1, <5>1
        <5> QED BY <3>4, <5>2
      <4>1. plus = {} /\ minus = RuleProofs(r)
        BY <3>4, <4>2
      <4> QED BY <2>1, <3>1, <3>2, <3>4, <4>1
    <3> QED BY <1>1, <3>3, <3>4
  <2>2. CASE ~ changed
    <3>1. S = {} /\ plus = {} /\ minus = {}
      BY <1>1, <2>2
    <3> HIDE DEF S, plus, minus
    <3> QED BY <3>1, FS_EmptySet DEF Batch
  <2> QED BY <2>1, <2>2
<1>4. /\ rules' = IF e.insert THEN rules \cup {r} ELSE rules \ {r}
      /\ UNCHANGED <<stored, proofs, base>>
  BY DEF ProcessRule
<1> HIDE DEF S
<1> QED BY <1>1, <1>2, <1>3, <1>4

\* The events a fact's change queues.
LEMMA FactBatch ==
  ASSUME Proper, NEW e \in Event, e.type = "fact", RightEvent(e), ProcessFact(e)
  PROVE  /\ Store(e) /\ rules' = rules
         /\ base' = IF e.proofs # {} THEN base
                    ELSE IF e.insert THEN base \cup {e.atom} ELSE base \ {e.atom}
         /\ \E S : \E new \in SetToSeqs(S) :
              /\ queue' = Tail(queue) \o new
              /\ Batch(S, IF e.insert THEN PositiveProofs(e.atom) ELSE NegativeProofs(e.atom),
                          IF e.insert THEN NegativeProofs(e.atom) ELSE PositiveProofs(e.atom))
<1>1. PICK new \in SetToSeqs(Caused(e)) : queue' = Tail(queue) \o new
  BY DEF ProcessFact
<1>2. rules \subseteq Rule /\ e.insert \in BOOLEAN
  BY DEF Proper, TypeOK, Event
<1>3. Batch(Caused(e), IF e.insert THEN PositiveProofs(e.atom) ELSE NegativeProofs(e.atom),
                       IF e.insert THEN NegativeProofs(e.atom) ELSE PositiveProofs(e.atom))
  BY <1>2, CausedBatch
<1> QED BY <1>1, <1>3 DEF ProcessFact

\* A queue that has lost its first event and got new ones.
LEMMA Requeued ==
  ASSUME Proper, queue # <<>>, NEW S, NEW plus, NEW minus, Batch(S, plus, minus),
         NEW new \in SetToSeqs(S)
  PROVE  /\ Tail(queue) \in Seq(Event) /\ new \in Seq(Event)
         /\ Tail(queue) \o new \in Seq(Event)
         /\ \A k \in DOMAIN (Tail(queue) \o new) : RightEvent((Tail(queue) \o new)[k])
<1>1. queue \in Seq(Event) /\ \A k \in DOMAIN queue : RightEvent(queue[k])
  BY DEF Proper, TypeOK, RightEvents
<1>2. new \in Seq(S)
  BY SequenceOfSet DEF Batch
<1>3. new \in Seq(Event) /\ \A k \in 1 .. Len(new) : RightEvent(new[k])
  BY <1>2 DEF Batch
<1>4. Tail(queue) \in Seq(Event) /\ \A k \in 1 .. Len(Tail(queue)) : RightEvent(Tail(queue)[k])
  BY <1>1
<1> DEFINE t == Tail(queue)
<1> HIDE DEF t
<1>5. t \in Seq(Event) /\ \A k \in 1 .. Len(t) : RightEvent(t[k])
  BY <1>4 DEF t
<1>6. ASSUME NEW k \in DOMAIN (t \o new) PROVE RightEvent((t \o new)[k])
  <2>1. k \in 1 .. Len(t) \/ (k - Len(t) \in 1 .. Len(new) /\ (t \o new)[k] = new[k - Len(t)])
    BY <1>3, <1>5
  <2>2. CASE k \in 1 .. Len(t)
    <3>1. (t \o new)[k] = t[k]
      BY <1>3, <1>5, <2>2
    <3> QED BY <1>5, <2>2, <3>1
  <2>3. CASE k - Len(t) \in 1 .. Len(new) /\ (t \o new)[k] = new[k - Len(t)]
    BY <1>3, <2>3
  <2> QED BY <2>1, <2>2, <2>3
<1>7. t \o new \in Seq(Event)
  BY <1>3, <1>5
<1> QED BY <1>3, <1>5, <1>6, <1>7 DEF t

\* Types, and that events and stored tuples have the right proofs, are kept.
LEMMA ProperStep == Proper /\ [Next]_vars => Proper'
<1> SUFFICES ASSUME Proper, [Next]_vars PROVE Proper'
  OBVIOUS
<1>0. TypeOK /\ RightEvents /\ Supported /\ queue \in Seq(Event)
  BY DEF Proper, TypeOK
<1>1. ASSUME NEW c \in Change, NEW d \in Change, Update(<<c>>) \/ Update(<<c, d>>) PROVE Proper'
  <2>1. PICK new \in Seq(Quiet) : queue' = queue \o new
    BY <1>1, UpdateOfTwo
  <2>2. /\ UNCHANGED <<rules, stored, proofs, base>>
        /\ running' \in BOOLEAN /\ updates' \in 0 .. MaxUpdates
    BY <1>1, UpdateOfTwo
  <2>3. new \in Seq(Event) /\ \A k \in 1 .. Len(new) : RightEvent(new[k])
    BY DEF Quiet
  <2>4. queue' \in Seq(Event)
    BY <1>0, <2>1, <2>3
  <2>5. RightEvents'
    <3> SUFFICES ASSUME NEW k \in DOMAIN queue' PROVE RightEvent(queue'[k])
      BY DEF RightEvents, RightEvent
    <3>1. k \in 1 .. Len(queue) \/ (k - Len(queue) \in 1 .. Len(new) /\ queue'[k] = new[k - Len(queue)])
      BY <1>0, <2>1, <2>3
    <3>2. CASE k \in 1 .. Len(queue)
      <4>1. queue'[k] = queue[k]
        BY <1>0, <2>1, <2>3, <3>2
      <4> QED BY <1>0, <3>2, <4>1 DEF RightEvents
    <3>3. CASE k - Len(queue) \in 1 .. Len(new) /\ queue'[k] = new[k - Len(queue)]
      BY <2>3, <3>3
    <3> QED BY <3>1, <3>2, <3>3
  <2>6. TypeOK'
    BY <1>0, <2>2, <2>4 DEF TypeOK
  <2>7. Supported'
    BY <1>0, <2>2 DEF Supported
  <2> QED BY <2>5, <2>6, <2>7 DEF Proper
<1>2. CASE ProcessQueue
  <2>1. CASE UNCHANGED <<rules, stored, proofs, queue, base, updates>> /\ running' = FALSE
    BY <1>0, <2>1 DEF Proper, TypeOK, RightEvents, RightEvent, Supported
  <2>2. ASSUME NEW e \in Event, queue # <<>>, UNCHANGED <<running, updates>>,
               e.type = "rule", ProcessRule(e)
        PROVE  Proper'
    <3>1. /\ e.rule \in Rule /\ e.insert \in BOOLEAN
          /\ rules' = IF e.insert THEN rules \cup {e.rule} ELSE rules \ {e.rule}
          /\ UNCHANGED <<stored, proofs, base>>
      BY <2>2, RuleBatch
    <3>2. PICK S : \E new \in SetToSeqs(S) :
              /\ queue' = Tail(queue) \o new
              /\ Batch(S, IF e.insert /\ e.rule \notin rules THEN RuleProofs(e.rule) ELSE {},
                          IF ~ e.insert /\ e.rule \in rules THEN RuleProofs(e.rule) ELSE {})
      BY <2>2, RuleBatch
    <3>3. queue' \in Seq(Event) /\ \A k \in DOMAIN queue' : RightEvent(queue'[k])
      BY <2>2, <3>2, Requeued
    <3>4. TypeOK'
      BY <1>0, <2>2, <3>1, <3>3 DEF TypeOK
    <3>5. Supported'
      BY <1>0, <3>1 DEF Supported
    <3>6. RightEvents'
      BY <3>3 DEF RightEvents, RightEvent
    <3> QED BY <3>4, <3>5, <3>6 DEF Proper
  <2>3. ASSUME NEW e \in Event, queue # <<>>, UNCHANGED <<running, updates>>,
               e.type = "fact", RightEvent(e), ProcessFact(e)
        PROVE  Proper'
    <3>1. /\ Store(e) /\ rules' = rules
          /\ base' = IF e.proofs # {} THEN base
                     ELSE IF e.insert THEN base \cup {e.atom} ELSE base \ {e.atom}
      BY <2>3, FactBatch
    <3>2. PICK S : \E new \in SetToSeqs(S) :
              /\ queue' = Tail(queue) \o new
              /\ Batch(S, IF e.insert THEN PositiveProofs(e.atom) ELSE NegativeProofs(e.atom),
                          IF e.insert THEN NegativeProofs(e.atom) ELSE PositiveProofs(e.atom))
      BY <2>3, FactBatch
    <3>3. queue' \in Seq(Event) /\ \A k \in DOMAIN queue' : RightEvent(queue'[k])
      BY <2>3, <3>2, Requeued
    <3>4. /\ e.atom \in Atom /\ e.proofs \subseteq Proof /\ e.insert \in BOOLEAN
          /\ stored' \subseteq Atom /\ proofs' \in [Atom -> SUBSET Proof]
          /\ \A b \in Atom \ {e.atom} : proofs'[b] = proofs[b] /\ (b \in stored' <=> b \in stored)
          /\ e.insert => e.atom \in stored' /\ proofs'[e.atom] = proofs[e.atom] \cup e.proofs
          /\ ~ e.insert => proofs'[e.atom] = IF e.proofs \subseteq proofs[e.atom]
                                             THEN proofs[e.atom] \ e.proofs ELSE proofs[e.atom]
          /\ proofs'[e.atom] # {} => e.atom \in stored'
          /\ e.atom \in stored' => \/ e.proofs = {} /\ e.insert
                                   \/ e.proofs # {} /\ e.atom \in base
                                   \/ proofs'[e.atom] # {}
      BY <2>3, <3>1, StoreEffect
    <3>5. ASSUME NEW b \in Atom, NEW p \in proofs'[b]
          PROVE  b \in stored' /\ p.inst \in Instances[p.rule] /\ p.inst.head = b
      <4>1. CASE b = e.atom
        <5>1. \A o \in proofs[b] : o.inst \in Instances[o.rule] /\ o.inst.head = b
          BY <1>0, <3>5 DEF TypeOK
        <5>2. \A o \in e.proofs : o.inst \in Instances[o.rule] /\ o.inst.head = b
          BY <2>3, <4>1 DEF RightEvent
        <5>3. p \in proofs[b] \/ p \in e.proofs
          BY <3>4, <3>5, <4>1
        <5> QED BY <3>4, <3>5, <4>1, <5>1, <5>2, <5>3
      <4>2. CASE b # e.atom
        <5>1. p \in proofs[b] /\ (b \in stored' <=> b \in stored)
          BY <3>4, <3>5, <4>2
        <5> QED BY <1>0, <3>5, <5>1 DEF TypeOK
      <4> QED BY <4>1, <4>2
    <3>6. base' \subseteq Atom
      BY <1>0, <3>1, <3>4 DEF TypeOK
    <3>7. TypeOK'
      BY <1>0, <2>3, <3>1, <3>3, <3>4, <3>5, <3>6 DEF TypeOK
    <3>8. Supported'
      <4> SUFFICES ASSUME NEW b \in stored' PROVE b \in base' \/ proofs'[b] # {}
        BY DEF Supported
      <4>1. CASE b = e.atom
        BY <3>1, <3>4, <4>1
      <4>2. CASE b # e.atom
        <5>1. b \in stored /\ proofs'[b] = proofs[b]
          BY <3>4, <4>2
        <5>2. b \in base \/ proofs[b] # {}
          BY <1>0, <5>1 DEF Supported
        <5>3. b \in base => b \in base'
          BY <3>1, <4>2
        <5> QED BY <5>1, <5>2, <5>3
      <4> QED BY <4>1, <4>2
    <3>9. RightEvents'
      BY <3>3 DEF RightEvents, RightEvent
    <3> QED BY <3>7, <3>8, <3>9 DEF Proper
  <2> QED BY <1>2, <2>1, <2>2, <2>3, QueueSteps
<1>3. CASE UNCHANGED vars
  BY <1>0, <1>3 DEF Proper, TypeOK, RightEvents, RightEvent, Supported, vars
<1> QED BY <1>1, <1>2, <1>3 DEF Next

\* At the start nothing is stored.
LEMMA ProperInit == Init => Proper
<1> SUFFICES ASSUME Init PROVE Proper
  OBVIOUS
<1>1. TypeOK
  <2>1. proofs \in [Atom -> SUBSET Proof] /\ \A a \in Atom : proofs[a] = {}
    BY DEF Init
  <2>2. queue \in Seq(Event) /\ updates \in 0 .. MaxUpdates
    BY RuleAssumption DEF Init
  <2> QED BY <2>1, <2>2 DEF Init, TypeOK
<1> QED BY <1>1 DEF Proper, Init, RightEvents, Supported

\* Every reachable state is well typed: a stored tuple's proofs are of rules and
\* instances with that tuple as head, and only stored tuples have proofs
\* (Database.modify with the events of process_new_bindings).
THEOREM TypeCorrect == Spec => []TypeOK
<1>1. Proper => TypeOK
  BY DEF Proper
<1> QED BY <1>1, ProperInit, ProperStep, PTL DEF Spec

-----------------------------------------------------------------------------
(***************************************************************************)
(* Views over facts are complete.                                          *)
(***************************************************************************)
\* What the first event does to a proof.
LEMMA StandingOne ==
  ASSUME NEW q, NEW P, NEW p
  PROVE  /\ Standing(q, 0, P, p) <=> p \in P
         /\ Concerns(q[1], p) => (Standing(q, 1, P, p) <=> q[1].insert)
         /\ ~ Concerns(q[1], p) => (Standing(q, 1, P, p) <=> p \in P)
<1>1. Standing(q, 0, P, p) <=> p \in P
  <2>1. 0 .. 0 = {0} /\ \A m \in 0 + 1 .. 0 : ~ Concerns(q[m], p)
    OBVIOUS
  <2> QED BY <2>1 DEF Standing
<1>2. ASSUME Concerns(q[1], p) PROVE Standing(q, 1, P, p) <=> q[1].insert
  <2>1. 1 \in Nat \ {0}
    OBVIOUS
  <2> QED BY <1>2, <2>1, StandingLast
<1>3. ASSUME ~ Concerns(q[1], p) PROVE Standing(q, 1, P, p) <=> p \in P
  <2>1. 1 \in Nat /\ 0 \in Nat /\ 0 <= 1 /\ \A m \in 0 + 1 .. 1 : ~ Concerns(q[m], p)
    BY <1>3
  <2>2. Standing(q, 1, P, p) <=> Standing(q, 0, P, p)
    BY <2>1, StandingQuiet
  <2> QED BY <1>1, <2>2
<1> QED BY <1>1, <1>2, <1>3

\* Database.modify does what the event decides, a deletion if it finds all of its
\* proofs or none.
LEMMA StoreStanding ==
  ASSUME Proper, queue # <<>>, NEW e \in Event, e = queue[1], e.type = "fact", RightEvent(e),
         Store(e), NEW r \in Rule, NEW i \in Instances[r]
  PROVE  /\ Standing(queue, 1, proofs[i.head], ProofOf(r, i)) => ProofOf(r, i) \in proofs'[i.head]
         /\ Uniform /\ ProofOf(r, i) \in proofs'[i.head]
              => Standing(queue, 1, proofs[i.head], ProofOf(r, i))
<1> DEFINE h == i.head
           p == ProofOf(r, i)
<1>1. i \in Instance /\ h \in Atom /\ p.inst = i /\ p.rule = r
  BY RuleAssumption DEF Instance, ProofOf
<1>2. /\ e.atom \in Atom
      /\ \A b \in Atom \ {e.atom} : proofs'[b] = proofs[b]
      /\ e.insert => proofs'[e.atom] = proofs[e.atom] \cup e.proofs
      /\ ~ e.insert => proofs'[e.atom] = IF e.proofs \subseteq proofs[e.atom]
                                         THEN proofs[e.atom] \ e.proofs ELSE proofs[e.atom]
  BY StoreEffect
<1>3. /\ \A o : Standing(queue, 0, proofs[h], o) <=> o \in proofs[h]
      /\ Concerns(e, p) => (Standing(queue, 1, proofs[h], p) <=> e.insert)
      /\ ~ Concerns(e, p) => (Standing(queue, 1, proofs[h], p) <=> p \in proofs[h])
  BY StandingOne
<1>4. CASE Concerns(e, p)
  <2>1. p \in e.proofs /\ e.atom = h
    BY <1>1, <1>4 DEF Concerns, RightEvent
  <2>2. CASE e.insert
    <3>1. p \in proofs'[h]
      BY <1>2, <2>1, <2>2
    <3> QED BY <1>3, <1>4, <2>2, <3>1
  <2>3. CASE ~ e.insert
    <3>1. ASSUME Uniform, p \in proofs'[h] PROVE FALSE
      <4>1. p \in proofs[h]
        BY <1>2, <2>1, <2>3, <3>1
      <4>2. queue \in Seq(Event) /\ 1 \in DOMAIN queue /\ 1 - 1 = 0
        BY DEF Proper, TypeOK
      <4>3. \A o, u \in e.proofs : Standing(queue, 0, proofs[h], o) => Standing(queue, 0, proofs[h], u)
        BY <2>1, <2>3, <3>1, <4>2 DEF Uniform
      <4>4. e.proofs \subseteq proofs[h]
        BY <1>3, <2>1, <4>1, <4>3
      <4>5. proofs'[h] = proofs[h] \ e.proofs
        BY <1>2, <2>1, <2>3, <4>4
      <4> QED BY <2>1, <3>1, <4>5
    <3> QED BY <1>3, <1>4, <2>3, <3>1
  <2> QED BY <2>2, <2>3
<1>5. CASE ~ Concerns(e, p)
  <2>1. p \notin e.proofs
    BY <1>5 DEF Concerns
  <2>2. p \in proofs'[h] <=> p \in proofs[h]
    <3>1. CASE h = e.atom
      BY <1>2, <2>1, <3>1
    <3>2. CASE h # e.atom
      BY <1>1, <1>2, <3>2
    <3> QED BY <3>1, <3>2
  <2> QED BY <1>3, <1>5, <2>2
<1> QED BY <1>4, <1>5

\* When an instance holds after a change of one atom.
LEMMA HoldsAfter ==
  ASSUME NEW a \in Atom, \A b \in Atom \ {a} : b \in stored' <=> b \in stored,
         NEW i \in Instance
  PROVE  /\ Holds(i, {})' <=> /\ Holds(i, {a})
                              /\ a \in i.pos => a \in stored'
                              /\ a \in i.neg => a \notin stored'
         /\ Holds(i, {}) <=> /\ Holds(i, {a})
                             /\ a \in i.pos => a \in stored
                             /\ a \in i.neg => a \notin stored
BY DEF Instance, Holds

\* A fact that no rule derives is stored without proofs and leaves with its event.
LEMMA FactsComeAndGo ==
  ASSUME Proper, NEW e \in Event, e.type = "fact", RightEvent(e), Store(e), ~ Derived(e.atom)
  PROVE  e.insert <=> e.atom \in stored'
<1>1. e.atom \in Atom /\ e.insert \in BOOLEAN /\ e.proofs \subseteq Proof
  BY StoreEffect
<1>2. e.proofs = {}
  BY DEF RightEvent, Derived
<1>3. proofs[e.atom] = {}
  <2>1. \A p \in proofs[e.atom] : p.rule \in Rule /\ p.inst \in Instances[p.rule] /\ p.inst.head = e.atom
    BY <1>1 DEF Proper, TypeOK, Proof
  <2> QED BY <2>1 DEF Derived
<1>4. ~ e.insert => e.atom \notin stored'
  BY <1>2, <1>3, StoreEffect
<1>5. e.insert => e.atom \in stored'
  BY StoreEffect
<1> QED BY <1>4, <1>5

\* The standing of a proof in the queue q, in terms of the queue before the step,
\* where P and Q are the proofs kept before and after.
Carries(q, plus, minus, P, Q, p) ==
  /\ p \in plus \ minus => Standing(q, Len(q), Q, p)
  /\ p \in minus \ plus => ~ Standing(q, Len(q), Q, p)
  /\ p \notin plus \cup minus /\ (Standing(queue, 1, P, p) => p \in Q)
       => (Standing(queue, Len(queue), P, p) => Standing(q, Len(q), Q, p))
  /\ p \notin plus \cup minus /\ (p \in Q => Standing(queue, 1, P, p))
       => (Standing(q, Len(q), Q, p) => Standing(queue, Len(queue), P, p))

\* A step of process_queue carries the standings over, but for the proofs that its
\* batch is about.
LEMMA StandingAfter ==
  ASSUME Proper, queue # <<>>, NEW S, NEW plus, NEW minus, Batch(S, plus, minus),
         NEW new \in SetToSeqs(S), NEW P, NEW Q, NEW p
  PROVE  Carries(Tail(queue) \o new, plus, minus, P, Q, p)
<1> DEFINE t == Tail(queue)
           q == t \o new
<1>1. queue \in Seq(Event) /\ t \in Seq(Event) /\ Len(t) = Len(queue) - 1
        /\ Len(queue) - 1 \in 0 .. Len(queue) - 1 /\ (Len(queue) - 1) + 1 = Len(queue)
  BY DEF Proper, TypeOK
<1>2. /\ p \in plus \ minus => Standing(q, Len(q), Q, p)
      /\ p \in minus \ plus => ~ Standing(q, Len(q), Q, p)
      /\ p \notin plus \cup minus => (Standing(q, Len(q), Q, p) <=> Standing(t, Len(t), Q, p))
  <2> HIDE DEF t
  <2> QED BY <1>1, BatchStanding
<1>3. /\ (Standing(queue, 1, P, p) => p \in Q)
           => (Standing(queue, Len(queue), P, p) => Standing(t, Len(t), Q, p))
      /\ (p \in Q => Standing(queue, 1, P, p))
           => (Standing(t, Len(t), Q, p) => Standing(queue, Len(queue), P, p))
  <2>1. LET n == Len(queue) - 1
        IN  /\ (Standing(queue, 1, P, p) => p \in Q)
                 => (Standing(queue, n + 1, P, p) => Standing(t, n, Q, p))
            /\ (p \in Q => Standing(queue, 1, P, p))
                 => (Standing(t, n, Q, p) => Standing(queue, n + 1, P, p))
    BY <1>1, StandingTail
  <2> HIDE DEF t
  <2> QED BY <1>1, <2>1
<1> HIDE DEF t
<1>4. Carries(t \o new, plus, minus, P, Q, p)
  BY <1>2, <1>3 DEF Carries
<1> QED BY <1>4 DEF t

\* A rule and an instance of it are a proof; which deltas it is found by.
LEMMA ProofFacts ==
  ASSUME NEW r \in Rule, NEW i \in Instances[r], NEW a
  PROVE  /\ i \in Instance /\ i.head \in Atom
         /\ ProofOf(r, i) \in Proof /\ ProofOf(r, i).rule = r /\ ProofOf(r, i).inst = i
         /\ ProofOf(r, i) \in PositiveProofs(a) <=> r \in rules /\ a \in i.pos /\ Holds(i, {a})
         /\ ProofOf(r, i) \in NegativeProofs(a) <=> r \in rules /\ a \in i.neg /\ Holds(i, {a})
         /\ \A s : ProofOf(r, i) \in RuleProofs(s) <=> r = s /\ Holds(i, {})
<1>1. i \in Instance /\ i.head \in Atom
  BY RuleAssumption DEF Instance
<1>2. ProofOf(r, i) \in Proof /\ ProofOf(r, i).rule = r /\ ProofOf(r, i).inst = i
  BY <1>1 DEF ProofOf, Proof
<1> QED BY <1>1, <1>2 DEF PositiveProofs, NegativeProofs, RuleProofs

\* Events about no proof change no standing.
LEMMA QuietStanding ==
  ASSUME NEW q \in Seq(Event), NEW new \in Seq(Quiet), NEW P, NEW p
  PROVE  Standing(q \o new, Len(q \o new), P, p) <=> Standing(q, Len(q), P, p)
<1> DEFINE z == q \o new
<1>1. new \in Seq(Event) /\ \A k \in 1 .. Len(new) : ~ Concerns(new[k], p)
  BY DEF Quiet
<1>2. /\ Len(q) \in Nat /\ Len(z) \in Nat /\ Len(q) <= Len(z)
      /\ \A m \in Len(q) + 1 .. Len(z) : m - Len(q) \in 1 .. Len(new) /\ z[m] = new[m - Len(q)]
  BY <1>1
<1>3. \A m \in Len(q) + 1 .. Len(z) : ~ Concerns(z[m], p)
  BY <1>1, <1>2
<1>4. Standing(z, Len(q), P, p) <=> Standing(q, Len(q), P, p)
  <2>1. Len(q) \in 0 .. Len(q)
    OBVIOUS
  <2> QED BY <1>1, <2>1, StandingPrefix
<1> HIDE DEF z
<1>5. Standing(z, Len(z), P, p) <=> Standing(z, Len(q), P, p)
  BY <1>2, <1>3, StandingQuiet
<1>6. Standing(z, Len(z), P, p) <=> Standing(q, Len(q), P, p)
  BY <1>4, <1>5
<1> QED BY <1>6 DEF z

\* Whatever is processed, instances over facts that hold keep their proofs.
LEMMA KeptStep == Proper /\ Kept /\ [Next]_vars => Kept'
<1> SUFFICES ASSUME Proper, Kept, [Next]_vars,
                    NEW r \in Rule, NEW i \in Instances[r], Plain(i), (r \in rules /\ Holds(i, {}))'
             PROVE  Standing(queue', Len(queue'), proofs'[i.head], ProofOf(r, i))
  BY DEF Kept, Standing0, Plain, Derived, Standing, Concerns, ProofOf
<1> DEFINE p == ProofOf(r, i)
           h == i.head
<1>0. queue \in Seq(Event) /\ i \in Instance /\ h \in Atom
  BY ProofFacts DEF Proper, TypeOK
<1>1. r \in rules /\ Holds(i, {}) => Standing(queue, Len(queue), proofs[h], p)
  BY DEF Kept, Standing0
<1>2. ASSUME NEW c \in Change, NEW d \in Change, Update(<<c>>) \/ Update(<<c, d>>)
      PROVE  Standing(queue', Len(queue'), proofs'[h], p)
  <2>1. UNCHANGED <<rules, stored, proofs>>
    BY <1>2, UpdateOfTwo
  <2>2. PICK new \in Seq(Quiet) : queue' = queue \o new
    BY <1>2, UpdateOfTwo
  <2>3. Standing(queue, Len(queue), proofs[h], p)
    BY <1>1, <2>1 DEF Holds
  <2> QED BY <1>0, <2>1, <2>2, <2>3, QuietStanding
<1>3. ASSUME NEW e \in Event, queue # <<>>, e = queue[1], e.type = "rule", ProcessRule(e)
      PROVE  Standing(queue', Len(queue'), proofs'[h], p)
  <2> DEFINE plus == IF e.insert /\ e.rule \notin rules THEN RuleProofs(e.rule) ELSE {}
             minus == IF ~ e.insert /\ e.rule \in rules THEN RuleProofs(e.rule) ELSE {}
  <2>1. /\ rules' = IF e.insert THEN rules \cup {e.rule} ELSE rules \ {e.rule}
        /\ UNCHANGED <<stored, proofs>>
    BY <1>3, RuleBatch
  <2>2. PICK S : \E new \in SetToSeqs(S) : queue' = Tail(queue) \o new /\ Batch(S, plus, minus)
    BY <1>3, RuleBatch
  <2>3. PICK new \in SetToSeqs(S) : queue' = Tail(queue) \o new /\ Batch(S, plus, minus)
    BY <2>2
  <2>4. Holds(i, {})
    BY <2>1 DEF Holds
  <2>10. p \in RuleProofs(e.rule) <=> r = e.rule /\ Holds(i, {})
    BY ProofFacts
  <2>5. p \in plus <=> e.insert /\ e.rule \notin rules /\ r = e.rule
    BY <2>4, <2>10
  <2>6. p \in minus <=> ~ e.insert /\ e.rule \in rules /\ r = e.rule
    BY <2>4, <2>10
  <2>7. Standing(queue, 1, proofs[h], p) => p \in proofs[h]
    <3>1. ~ Concerns(queue[1], p)
      BY <1>3 DEF Concerns
    <3> QED BY <3>1, StandingOne
  <2> HIDE DEF plus, minus
  <2>11. Carries(queue', plus, minus, proofs[h], proofs'[h], p)
    BY <1>3, <2>3, StandingAfter
  <2>8. CASE r \in rules
    <3>1. p \notin plus \cup minus
      BY <2>1, <2>5, <2>6, <2>8
    <3>2. Standing(queue, Len(queue), proofs[h], p)
      BY <1>1, <2>4, <2>8
    <3> QED BY <2>1, <2>7, <2>11, <3>1, <3>2 DEF Carries
  <2>9. CASE r \notin rules
    <3>1. p \in plus \ minus
      BY <2>1, <2>5, <2>6, <2>9
    <3> QED BY <2>11, <3>1 DEF Carries
  <2> QED BY <2>8, <2>9
<1>4. ASSUME NEW e \in Event, queue # <<>>, e = queue[1], e.type = "fact", RightEvent(e),
             ProcessFact(e)
      PROVE  Standing(queue', Len(queue'), proofs'[h], p)
  <2> DEFINE a == e.atom
             plus == IF e.insert THEN PositiveProofs(a) ELSE NegativeProofs(a)
             minus == IF e.insert THEN NegativeProofs(a) ELSE PositiveProofs(a)
  <2>1. Store(e) /\ rules' = rules
    BY <1>4, FactBatch
  <2>2. PICK S : \E new \in SetToSeqs(S) : queue' = Tail(queue) \o new /\ Batch(S, plus, minus)
    BY <1>4, FactBatch
  <2>3. PICK new \in SetToSeqs(S) : queue' = Tail(queue) \o new /\ Batch(S, plus, minus)
    BY <2>2
  <2>4. a \in Atom /\ \A b \in Atom \ {a} : b \in stored' <=> b \in stored
    BY <1>4, <2>1, StoreEffect
  <2>5. /\ Holds(i, {a}) /\ (a \in i.pos => a \in stored') /\ (a \in i.neg => a \notin stored')
        /\ Holds(i, {}) <=> (a \in i.pos => a \in stored) /\ (a \in i.neg => a \notin stored)
    BY <1>0, <2>4, HoldsAfter
  <2>6. a \in i.pos \cup i.neg => (e.insert <=> a \in stored')
    BY <1>4, <2>1, FactsComeAndGo DEF Plain
  <2>7. r \in rules
    BY <2>1
  <2>8. /\ p \in PositiveProofs(a) <=> a \in i.pos
        /\ p \in NegativeProofs(a) <=> a \in i.neg
    <3>1. /\ p \in PositiveProofs(a) <=> r \in rules /\ a \in i.pos /\ Holds(i, {a})
          /\ p \in NegativeProofs(a) <=> r \in rules /\ a \in i.neg /\ Holds(i, {a})
      BY ProofFacts
    <3> QED BY <2>5, <2>7, <3>1
  <2>11. Carries(queue', plus, minus, proofs[h], proofs'[h], p)
    <3> HIDE DEF plus, minus
    <3> QED BY <1>4, <2>3, StandingAfter
  <2>9. CASE a \in i.pos \cup i.neg
    <3>1. p \in plus \ minus
      <4>1. CASE a \in i.pos
        BY <2>5, <2>6, <2>8, <4>1
      <4>2. CASE a \in i.neg
        BY <2>5, <2>6, <2>8, <4>2
      <4> QED BY <2>9, <4>1, <4>2
    <3> HIDE DEF plus, minus
    <3> QED BY <2>11, <3>1 DEF Carries
  <2>10. CASE a \notin i.pos \cup i.neg
    <3>1. p \notin plus \cup minus
      BY <2>8, <2>10
    <3>2. Standing(queue, Len(queue), proofs[h], p)
      BY <1>1, <2>5, <2>7, <2>10
    <3>3. Standing(queue, 1, proofs[h], p) => p \in proofs'[h]
      BY <1>4, <2>1, StoreStanding
    <3> HIDE DEF plus, minus
    <3> QED BY <2>11, <3>1, <3>2, <3>3 DEF Carries
  <2> QED BY <2>9, <2>10
<1>5. ASSUME UNCHANGED <<rules, stored, proofs, queue>>
      PROVE  Standing(queue', Len(queue'), proofs'[h], p)
  BY <1>1, <1>5 DEF Holds
<1>6. CASE ProcessQueue
  BY <1>3, <1>4, <1>5, <1>6, QueueSteps
<1>7. CASE UNCHANGED vars
  BY <1>5, <1>7 DEF vars
<1> QED BY <1>2, <1>6, <1>7 DEF Next

\* When no update is in progress, every view over facts is complete, for every
\* program, however its tuples' proofs came and went, also after an update that
\* failed (process_queue, propagate, Database.modify).
THEOREM ViewsComplete == Spec => []NothingMissing
<1>1. Init => Proper /\ Kept
  <2>1. Init => Kept
    BY DEF Init, Kept
  <2> QED BY <2>1, ProperInit
<1>2. Proper /\ Kept /\ [Next]_vars => (Proper /\ Kept)'
  BY ProperStep, KeptStep
<1>3. Proper /\ Kept => NothingMissing
  <2> SUFFICES ASSUME Proper, Kept, Quiescent, NEW a \in Atom, OverFacts(a), Derivable(a)
               PROVE  a \in stored
    BY DEF NothingMissing
  <2>1. PICK r \in rules : \E i \in Instances[r] : i.head = a /\ Holds(i, {})
    BY DEF Derivable
  <2>2. PICK i \in Instances[r] : i.head = a /\ Holds(i, {})
    BY <2>1
  <2>3. r \in Rule
    BY DEF Proper, TypeOK
  <2>4. Plain(i)
    BY <2>2, <2>3 DEF OverFacts, Plain, Derived
  <2>5. Standing(queue, 0, proofs[a], ProofOf(r, i))
    <3>1. Standing(queue, Len(queue), proofs[a], ProofOf(r, i))
      BY <2>2, <2>3, <2>4 DEF Kept, Standing0
    <3>2. Len(queue) = 0
      BY DEF Quiescent
    <3> QED BY <3>1, <3>2
  <2>6. ProofOf(r, i) \in proofs[a]
    BY <2>5, StandingOne
  <2> QED BY <2>6 DEF Proper, TypeOK
<1> QED BY <1>1, <1>2, <1>3, PTL DEF Spec

-----------------------------------------------------------------------------
(***************************************************************************)
(* Nothing stale is left.                                                  *)
(***************************************************************************)
SoundInv == Proper /\ Kept /\ Sound /\ Uniform

Valid(p) == p.rule \in rules /\ Holds(p.inst, {})

\* The members of an event are proofs of its tuple.
LEMMA EventProofs ==
  ASSUME NEW e \in Event, RightEvent(e), e.type = "fact", NEW p \in e.proofs
  PROVE  /\ p \in Proof /\ p = ProofOf(p.rule, p.inst) /\ p.rule \in Rule
         /\ p.inst \in Instances[p.rule] /\ p.inst.head = e.atom
         /\ \A o \in e.proofs : o.rule = p.rule
<1>1. p \in Proof
  BY DEF Event
<1>2. p = ProofOf(p.rule, p.inst)
  BY <1>1 DEF Proof, ProofOf
<1> QED BY <1>1, <1>2 DEF RightEvent

\* After a step of process_queue a deletion still finds all of its proofs or none,
\* if the step does what its event decides and the new deletions are of instances
\* that were all valid or all not.
LEMMA UniformAfter ==
  ASSUME SoundInv, NegatesFacts, queue # <<>>,
         NEW S, NEW plus, NEW minus, Batch(S, plus, minus), NEW new \in SetToSeqs(S),
         queue' = Tail(queue) \o new, Proper',
         \A r \in Rule : \A i \in Instances[r] :
           ProofOf(r, i) \in proofs'[i.head] <=> Standing(queue, 1, proofs[i.head], ProofOf(r, i)),
         plus \cap minus = {},
         \A p, o \in minus : p.rule = o.rule /\ Valid(p) => Valid(o)
  PROVE  Uniform'
<1> DEFINE t == Tail(queue)
<1>1. queue \in Seq(Event) /\ t \in Seq(Event) /\ Len(t) = Len(queue) - 1 /\ Len(queue) \in Nat \ {0}
        /\ \A k \in 1 .. Len(t) : t[k] = queue[k + 1]
  BY DEF SoundInv, Proper, TypeOK
<1>2. new \in Seq(S)
  BY SequenceOfSet DEF Batch
<1>3. new \in Seq(Event) /\ \A m \in 1 .. Len(new) : new[m] \in S
  BY <1>2 DEF Batch
<1>4. queue' = t \o new
  OBVIOUS
<1>0. queue' \in Seq(Event) /\ \A k \in DOMAIN queue' : RightEvent(queue'[k])
  BY DEF Proper, TypeOK, RightEvents, RightEvent
<1> SUFFICES ASSUME NEW k \in DOMAIN queue', queue'[k].type = "fact", ~ queue'[k].insert,
                    NEW p \in queue'[k].proofs, NEW o \in queue'[k].proofs,
                    Standing(queue', k - 1, proofs'[queue'[k].atom], p)
             PROVE  Standing(queue', k - 1, proofs'[queue'[k].atom], o)
  BY DEF Uniform, Standing, Concerns
<1>5. PICK f : f = queue'[k]
  OBVIOUS
<1>6. PICK h : h = f.atom
  OBVIOUS
<1>7. f \in Event /\ RightEvent(f) /\ f.type = "fact" /\ ~ f.insert /\ p \in f.proofs /\ o \in f.proofs
  BY <1>0, <1>5
<1>8. /\ p = ProofOf(p.rule, p.inst) /\ p.rule \in Rule /\ p.inst \in Instances[p.rule] /\ p.inst.head = h
      /\ o = ProofOf(o.rule, o.inst) /\ o.rule \in Rule /\ o.inst \in Instances[o.rule] /\ o.inst.head = h
      /\ o.rule = p.rule
  BY <1>6, <1>7, EventProofs
<1>9. /\ p \in proofs'[h] <=> Standing(queue, 1, proofs[h], p)
      /\ o \in proofs'[h] <=> Standing(queue, 1, proofs[h], o)
  BY <1>8
<1>10. PICK P, Q : P = proofs[h] /\ Q = proofs'[h]
  OBVIOUS
<1>11. /\ p \in Q <=> Standing(queue, 1, P, p)
       /\ o \in Q <=> Standing(queue, 1, P, o)
  BY <1>9, <1>10
<1>12. SUFFICES ASSUME Standing(t \o new, k - 1, Q, p) PROVE Standing(t \o new, k - 1, Q, o)
  BY <1>4, <1>5, <1>6, <1>10
<1>13. \A n \in 0 .. Len(t) : /\ Standing(t, n, Q, p) <=> Standing(queue, n + 1, P, p)
                              /\ Standing(t, n, Q, o) <=> Standing(queue, n + 1, P, o)
  BY <1>1, <1>11, StandingTail
<1>14. CASE k \in 1 .. Len(t)
  <2>1. k - 1 \in 0 .. Len(t) /\ (k - 1) + 1 = k /\ k + 1 \in DOMAIN queue /\ (k + 1) - 1 = k
    BY <1>1, <1>14
  <2>2. f = queue[k + 1]
    BY <1>1, <1>3, <1>4, <1>5, <1>14
  <2> HIDE DEF t
  <2>3. /\ Standing(t \o new, k - 1, Q, p) <=> Standing(t, k - 1, Q, p)
        /\ Standing(t \o new, k - 1, Q, o) <=> Standing(t, k - 1, Q, o)
    BY <1>1, <1>3, <2>1, StandingPrefix
  <2>4. Standing(queue, k, P, p) => Standing(queue, k, P, o)
    BY <1>6, <1>7, <1>10, <2>1, <2>2 DEF SoundInv, Uniform
  <2>5. /\ Standing(t, k - 1, Q, p) <=> Standing(queue, k, P, p)
        /\ Standing(t, k - 1, Q, o) <=> Standing(queue, k, P, o)
    BY <1>13, <2>1
  <2> QED BY <1>12, <2>3, <2>4, <2>5
<1>15. CASE k \notin 1 .. Len(t)
  <2>1. PICK m \in 1 .. Len(new) : k = Len(t) + m /\ f = new[m]
    <3> HIDE DEF t
    <3>0. t \in Seq(Event) /\ new \in Seq(Event) /\ Len(t) \in Nat /\ Len(new) \in Nat
      BY <1>1, <1>3
    <3>1. DOMAIN (t \o new) = 1 .. Len(t) + Len(new)
      BY <3>0
    <3>2. k \in 1 .. Len(t) + Len(new)
      BY <1>4, <3>1
    <3>3. k - Len(t) \in 1 .. Len(new) /\ k = Len(t) + (k - Len(t))
      BY <1>15, <3>0, <3>2
    <3>4. (t \o new)[k] = new[k - Len(t)]
      BY <3>0, <3>2, <3>3
    <3>5. f = new[k - Len(t)]
      BY <1>4, <1>5, <3>4
    <3> QED BY <3>3, <3>5
  <2>2. p \in minus /\ o \in minus /\ p \notin plus /\ o \notin plus
    BY <1>3, <1>7, <2>1 DEF Batch
  <2>3. Concerns(new[m], p) /\ Concerns(new[m], o) /\ ~ new[m].insert
    BY <1>7, <2>1 DEF Concerns
  <2> HIDE DEF t
  <2>4. /\ Standing(t \o new, k - 1, Q, p) <=> Standing(t, Len(t), Q, p)
        /\ Standing(t \o new, k - 1, Q, o) <=> Standing(t, Len(t), Q, o)
    <3>1. k - 1 = Len(t) + m - 1
      BY <1>1, <2>1
    <3>2. t \in Seq(Event)
      BY <1>1
    <3>3. Standing(t \o new, Len(t) + m - 1, Q, p) <=> Standing(t, Len(t), Q, p)
      BY <2>2, <2>3, <3>2, BatchStanding
    <3>4. Standing(t \o new, Len(t) + m - 1, Q, o) <=> Standing(t, Len(t), Q, o)
      BY <2>2, <2>3, <3>2, BatchStanding
    <3> QED BY <3>1, <3>3, <3>4
  <2>5. /\ Standing(t, Len(t), Q, p) <=> Standing(queue, Len(queue), P, p)
        /\ Standing(t, Len(t), Q, o) <=> Standing(queue, Len(queue), P, o)
    <3>1. Len(t) \in 0 .. Len(t) /\ Len(t) + 1 = Len(queue)
      BY <1>1
    <3> QED BY <1>13, <3>1
  <2>6. Standing(queue, Len(queue), P, p)
    BY <1>12, <2>4, <2>5
  <2>7. CASE p.inst = o.inst
    BY <1>8, <1>12, <2>7
  <2>8. CASE p.inst # o.inst
    <3>1. Plain(o.inst)
      BY <1>8, <2>8 DEF NegatesFacts
    <3>2. Valid(p)
      BY <1>8, <1>10, <2>6 DEF SoundInv, Sound, Standing0, Valid
    <3>3. Valid(o)
      BY <1>8, <2>2, <3>2
    <3>4. Standing(queue, Len(queue), P, o)
      BY <1>8, <1>10, <3>1, <3>3 DEF SoundInv, Kept, Standing0, Valid
    <3> QED BY <2>4, <2>5, <3>4
  <2> QED BY <2>7, <2>8
<1> QED BY <1>14, <1>15

\* The batch of a rule's event: what a step does to the standing of each proof.
LEMMA SoundRule ==
  ASSUME SoundInv, NegatesFacts, Proper', queue # <<>>, NEW e \in Event, e = queue[1],
         e.type = "rule", ProcessRule(e)
  PROVE  Sound' /\ Uniform'
<1> DEFINE plus == IF e.insert /\ e.rule \notin rules THEN RuleProofs(e.rule) ELSE {}
           minus == IF ~ e.insert /\ e.rule \in rules THEN RuleProofs(e.rule) ELSE {}
<1>0. Proper
  BY DEF SoundInv
<1>1. /\ rules' = IF e.insert THEN rules \cup {e.rule} ELSE rules \ {e.rule}
      /\ UNCHANGED <<stored, proofs>>
  BY <1>0, RuleBatch
<1>2. PICK S : \E new \in SetToSeqs(S) : queue' = Tail(queue) \o new /\ Batch(S, plus, minus)
  BY <1>0, RuleBatch
<1>3. PICK new \in SetToSeqs(S) : queue' = Tail(queue) \o new /\ Batch(S, plus, minus)
  BY <1>2
<1>4. ASSUME NEW r \in Rule, NEW i \in Instances[r]
      PROVE  ProofOf(r, i) \in proofs'[i.head]
               <=> Standing(queue, 1, proofs[i.head], ProofOf(r, i))
  <2>1. ~ Concerns(queue[1], ProofOf(r, i))
    BY DEF Concerns
  <2>2. PICK P : P = proofs[i.head] /\ P = proofs'[i.head]
    BY <1>1
  <2>3. Standing(queue, 1, P, ProofOf(r, i)) <=> ProofOf(r, i) \in P
    BY <2>1, StandingOne
  <2> QED BY <2>2, <2>3
<1>5. Sound'
  <2> SUFFICES ASSUME NEW r \in Rule, NEW i \in Instances[r],
                      Standing(queue', Len(queue'), proofs'[i.head], ProofOf(r, i))
               PROVE  r \in rules' /\ Holds(i, {})'
    BY DEF Sound, Standing0, Standing, Concerns, ProofOf
  <2> DEFINE p == ProofOf(r, i)
             h == i.head
  <2>1. p \in RuleProofs(e.rule) <=> r = e.rule /\ Holds(i, {})
    BY ProofFacts
  <2>2. Holds(i, {})' <=> Holds(i, {})
    BY <1>1 DEF Holds
  <2>3. Standing(queue, Len(queue), proofs[h], p) => r \in rules /\ Holds(i, {})
    BY DEF SoundInv, Sound, Standing0
  <2>4. p \in plus => e.insert /\ r = e.rule /\ Holds(i, {})
    BY <2>1
  <2>5. r = e.rule /\ Holds(i, {}) /\ ~ e.insert /\ e.rule \in rules => p \in minus
    BY <2>1
  <2>6. plus \cap minus = {}
    OBVIOUS
  <2> HIDE DEF plus, minus
  <2>7. Carries(queue', plus, minus, proofs[h], proofs'[h], p)
    BY <1>0, <1>3, StandingAfter
  <2>8. p \in proofs'[h] => Standing(queue, 1, proofs[h], p)
    BY <1>4
  <2>9. CASE p \in plus
    BY <1>1, <2>2, <2>4, <2>9
  <2>10. CASE p \in minus
    BY <2>6, <2>7, <2>10 DEF Carries
  <2>11. CASE p \notin plus \cup minus
    <3>1. Standing(queue, Len(queue), proofs[h], p)
      BY <2>7, <2>8, <2>11 DEF Carries
    <3>2. r \in rules /\ Holds(i, {})
      BY <2>3, <3>1
    <3> QED BY <1>1, <2>2, <2>5, <2>11, <3>2
  <2> QED BY <2>9, <2>10, <2>11
<1>6. plus \cap minus = {}
  OBVIOUS
<1>7. ASSUME NEW p \in minus, NEW o \in minus PROVE Valid(o)
  BY <1>7 DEF RuleProofs, Valid, ProofOf
<1>8. \A p, o \in minus : p.rule = o.rule /\ Valid(p) => Valid(o)
  BY <1>7
<1> HIDE DEF plus, minus
<1>9. Uniform'
  BY <1>3, <1>4, <1>6, <1>8, UniformAfter
<1> QED BY <1>5, <1>9

\* The same for the event of a fact or of a derived tuple.
LEMMA SoundFact ==
  ASSUME SoundInv, NegatesFacts, Proper', queue # <<>>, NEW e \in Event, e = queue[1],
         e.type = "fact", RightEvent(e), ProcessFact(e)
  PROVE  Sound' /\ Uniform'
<1> DEFINE a == e.atom
           plus == IF e.insert THEN PositiveProofs(a) ELSE NegativeProofs(a)
           minus == IF e.insert THEN NegativeProofs(a) ELSE PositiveProofs(a)
<1>0. Proper /\ rules \subseteq Rule
  BY DEF SoundInv, Proper, TypeOK
<1>1. Store(e) /\ rules' = rules
  BY <1>0, FactBatch
<1>2. PICK S : \E new \in SetToSeqs(S) : queue' = Tail(queue) \o new /\ Batch(S, plus, minus)
  BY <1>0, FactBatch
<1>3. PICK new \in SetToSeqs(S) : queue' = Tail(queue) \o new /\ Batch(S, plus, minus)
  BY <1>2
<1>4. ASSUME NEW r \in Rule, NEW i \in Instances[r]
      PROVE  ProofOf(r, i) \in proofs'[i.head]
               <=> Standing(queue, 1, proofs[i.head], ProofOf(r, i))
  BY <1>0, <1>1, StoreStanding DEF SoundInv
<1>5. /\ a \in Atom /\ \A b \in Atom \ {a} : b \in stored' <=> b \in stored
      /\ e.insert => a \in stored'
  BY <1>0, <1>1, StoreEffect
<1>6. \A r \in Rule : \A i \in Instances[r] : i.pos \cap i.neg = {} /\ \A b \in i.neg : ~ Derived(b)
  BY DEF NegatesFacts
<1>7. ~ e.insert /\ ~ Derived(a) => a \notin stored'
  BY <1>0, <1>1, FactsComeAndGo
<1>8. Sound'
  <2> SUFFICES ASSUME NEW r \in Rule, NEW i \in Instances[r],
                      Standing(queue', Len(queue'), proofs'[i.head], ProofOf(r, i))
               PROVE  r \in rules' /\ Holds(i, {})'
    BY DEF Sound, Standing0, Standing, Concerns, ProofOf
  <2> DEFINE p == ProofOf(r, i)
             h == i.head
  <2>1. /\ Holds(i, {})' <=> /\ Holds(i, {a})
                             /\ a \in i.pos => a \in stored'
                             /\ a \in i.neg => a \notin stored'
        /\ Holds(i, {}) => Holds(i, {a})
    BY <1>5, HoldsAfter, ProofFacts
  <2>2. /\ p \in PositiveProofs(a) <=> r \in rules /\ a \in i.pos /\ Holds(i, {a})
        /\ p \in NegativeProofs(a) <=> r \in rules /\ a \in i.neg /\ Holds(i, {a})
    <3> HIDE DEF a
    <3> QED BY ProofFacts
  <2>3. Standing(queue, Len(queue), proofs[h], p) => r \in rules /\ Holds(i, {})
    BY DEF SoundInv, Sound, Standing0
  <2>4. p \notin plus \/ p \notin minus
    BY <1>6, <2>2
  <2>5. p \in plus => r \in rules' /\ Holds(i, {})'
    <3>1. CASE e.insert
      BY <1>1, <1>5, <1>6, <2>1, <2>2, <3>1
    <3>2. CASE ~ e.insert
      BY <1>1, <1>6, <1>7, <2>1, <2>2, <3>2
    <3> QED BY <3>1, <3>2
  <2>6. p \notin plus \cup minus => p \notin PositiveProofs(a) \cup NegativeProofs(a)
    OBVIOUS
  <2> HIDE DEF plus, minus
  <2>7. Carries(queue', plus, minus, proofs[h], proofs'[h], p)
    BY <1>0, <1>3, StandingAfter
  <2>8. p \in proofs'[h] => Standing(queue, 1, proofs[h], p)
    BY <1>4
  <2>9. CASE p \in plus
    BY <2>5, <2>9
  <2>10. CASE p \in minus
    BY <2>4, <2>7, <2>10 DEF Carries
  <2>11. CASE p \notin plus \cup minus
    <3>1. Standing(queue, Len(queue), proofs[h], p)
      BY <2>7, <2>8, <2>11 DEF Carries
    <3>2. r \in rules /\ Holds(i, {}) /\ Holds(i, {a})
      BY <2>1, <2>3, <3>1
    <3>3. a \notin i.pos \cup i.neg
      BY <2>2, <2>6, <2>11, <3>2
    <3> QED BY <1>1, <2>1, <3>2, <3>3
  <2> QED BY <2>9, <2>10, <2>11
<1>9. plus \cap minus = {}
  <2> SUFFICES ASSUME NEW p \in PositiveProofs(a), p \in NegativeProofs(a) PROVE FALSE
    OBVIOUS
  <2>1. p.rule \in Rule /\ p.inst \in Instances[p.rule] /\ a \in p.inst.pos /\ a \in p.inst.neg
    BY <1>0 DEF PositiveProofs, NegativeProofs
  <2> QED BY <1>6, <2>1
<1>10. ASSUME NEW p \in minus
       PROVE  Valid(p) <=> (e.insert <=> a \notin stored)
  <2> DEFINE i == p.inst
  <2>1. /\ p.rule \in rules /\ i \in Instances[p.rule] /\ Holds(i, {a})
        /\ IF e.insert THEN a \in i.neg ELSE a \in i.pos
    BY DEF PositiveProofs, NegativeProofs
  <2>2. p.rule \in Rule /\ i \in Instance
    BY <1>0, <2>1, ProofFacts
  <2>3. Holds(i, {}) <=> /\ Holds(i, {a})
                         /\ a \in i.pos => a \in stored
                         /\ a \in i.neg => a \notin stored
    BY <1>5, <2>2, HoldsAfter
  <2>4. Holds(i, {a}) /\ IF e.insert THEN a \in i.neg /\ a \notin i.pos ELSE a \in i.pos /\ a \notin i.neg
    BY <1>6, <2>1, <2>2
  <2> HIDE DEF i
  <2>5. Valid(p) <=> Holds(i, {})
    BY <2>1 DEF Valid, i
  <2> QED BY <2>3, <2>4, <2>5
<1>11. \A p, o \in minus : p.rule = o.rule /\ Valid(p) => Valid(o)
  BY <1>10
<1> HIDE DEF plus, minus
<1>12. Uniform'
  BY <1>3, <1>4, <1>9, <1>11, UniformAfter DEF SoundInv
<1> QED BY <1>8, <1>12

\* A client's update queues events about no proof.
LEMMA SoundUpdate ==
  ASSUME SoundInv, NEW new \in Seq(Quiet), queue' = queue \o new,
         UNCHANGED <<rules, stored, proofs>>
  PROVE  Sound' /\ Uniform'
<1>0. queue \in Seq(Event) /\ new \in Seq(Event)
  BY DEF SoundInv, Proper, TypeOK, Quiet
<1>1. Sound'
  <2> SUFFICES ASSUME NEW r \in Rule, NEW i \in Instances[r],
                      Standing(queue', Len(queue'), proofs'[i.head], ProofOf(r, i))
               PROVE  r \in rules' /\ Holds(i, {})'
    BY DEF Sound, Standing0, Standing, Concerns, ProofOf
  <2>1. Standing(queue, Len(queue), proofs[i.head], ProofOf(r, i))
    BY <1>0, QuietStanding
  <2>2. r \in rules /\ Holds(i, {})
    BY <2>1 DEF SoundInv, Sound, Standing0
  <2> QED BY <2>2 DEF Holds
<1>2. Uniform'
  <2> SUFFICES ASSUME NEW k \in DOMAIN queue', queue'[k].type = "fact", ~ queue'[k].insert,
                      NEW p \in queue'[k].proofs, NEW o \in queue'[k].proofs,
                      Standing(queue', k - 1, proofs'[queue'[k].atom], p)
               PROVE  Standing(queue', k - 1, proofs'[queue'[k].atom], o)
    BY DEF Uniform, Standing, Concerns
  <2>1. CASE k \in 1 .. Len(queue)
    <3>1. queue'[k] = queue[k] /\ k \in DOMAIN queue /\ k - 1 \in 0 .. Len(queue)
      BY <1>0, <2>1
    <3>2. PICK P : P = proofs[queue[k].atom]
      OBVIOUS
    <3>3. P = proofs'[queue'[k].atom]
      BY <3>1, <3>2
    <3>4. /\ Standing(queue \o new, k - 1, P, p) <=> Standing(queue, k - 1, P, p)
          /\ Standing(queue \o new, k - 1, P, o) <=> Standing(queue, k - 1, P, o)
      BY <1>0, <3>1, StandingPrefix
    <3>5. Standing(queue, k - 1, P, p) => Standing(queue, k - 1, P, o)
      BY <3>1, <3>2 DEF SoundInv, Uniform
    <3> QED BY <3>3, <3>4, <3>5
  <2>2. CASE k \notin 1 .. Len(queue)
    <3>1. k - Len(queue) \in 1 .. Len(new) /\ queue'[k] = new[k - Len(queue)]
      BY <1>0, <2>2
    <3>2. new[k - Len(queue)] \in Quiet
      BY <3>1
    <3> QED BY <3>1, <3>2 DEF Quiet, Concerns
  <2> QED BY <2>1, <2>2
<1> QED BY <1>1, <1>2

\* Every step keeps the stored proofs, with what is still queued, right.
LEMMA SoundStep == NegatesFacts /\ SoundInv /\ [Next]_vars => SoundInv'
<1> SUFFICES ASSUME NegatesFacts, SoundInv, [Next]_vars PROVE SoundInv'
  OBVIOUS
<1>1. Proper' /\ Kept'
  BY ProperStep, KeptStep DEF SoundInv
<1>2. ASSUME NEW c \in Change, NEW d \in Change, Update(<<c>>) \/ Update(<<c, d>>)
      PROVE  SoundInv'
  <2>1. UNCHANGED <<rules, stored, proofs>>
    BY <1>2, UpdateOfTwo DEF SoundInv
  <2>2. PICK new \in Seq(Quiet) : queue' = queue \o new
    BY <1>2, UpdateOfTwo DEF SoundInv
  <2> QED BY <1>1, <2>1, <2>2, SoundUpdate DEF SoundInv
<1>3. ASSUME UNCHANGED <<rules, stored, proofs, queue>> PROVE SoundInv'
  <2>1. Sound' /\ Uniform'
    BY <1>3 DEF SoundInv, Sound, Uniform, Standing0, Standing, Concerns, Holds, ProofOf
  <2> QED BY <1>1, <2>1 DEF SoundInv
<1>4. ASSUME NEW e \in Event, queue # <<>>, e = queue[1], RightEvent(e),
             \/ e.type = "rule" /\ ProcessRule(e)
             \/ e.type = "fact" /\ ProcessFact(e)
      PROVE  SoundInv'
  <2>1. Sound' /\ Uniform'
    BY <1>1, <1>4, SoundRule, SoundFact
  <2> QED BY <1>1, <2>1 DEF SoundInv
<1>5. CASE ProcessQueue
  <2>1. Proper
    BY DEF SoundInv
  <2> QED BY <1>3, <1>4, <1>5, <2>1, QueueSteps
<1>6. CASE UNCHANGED vars
  BY <1>3, <1>6 DEF vars
<1> QED BY <1>2, <1>5, <1>6 DEF Next

\* When no update is in progress, everything stored is a fact or follows from the
\* rules and what is stored, for every program whose negated tables have facts only
\* and whose rules yield a tuple in two ways only from facts (process_queue,
\* propagate, Database.is_noop and modify).
THEOREM NoTupleLeftBehind ==
  ASSUME NegatesFacts
  PROVE  Spec => []NothingStale
<1>1. Init => SoundInv
  <2> SUFFICES ASSUME Init PROVE Kept /\ Sound /\ Uniform
    BY ProperInit DEF SoundInv
  <2>1. Kept /\ Uniform
    BY DEF Init, Kept, Uniform
  <2>2. ASSUME NEW r \in Rule, NEW i \in Instances[r] PROVE ~ Standing0(r, i)
    <3>1. i.head \in Atom /\ proofs[i.head] = {} /\ Len(queue) = 0
      BY ProofFacts DEF Init
    <3>2. ~ Standing(queue, 0, proofs[i.head], ProofOf(r, i))
      BY <3>1, StandingOne
    <3> QED BY <3>1, <3>2 DEF Standing0
  <2> QED BY <2>1, <2>2 DEF Sound
<1>2. SoundInv /\ [Next]_vars => SoundInv'
  BY SoundStep
<1>3. SoundInv => NothingStale
  <2> SUFFICES ASSUME SoundInv, Quiescent, NEW a \in stored, a \notin base PROVE Derivable(a)
    BY DEF NothingStale
  <2>1. a \in Atom /\ proofs[a] # {}
    BY DEF SoundInv, Proper, TypeOK, Supported
  <2>2. PICK p \in proofs[a] : TRUE
    BY <2>1
  <2>3. p \in Proof /\ p.inst \in Instances[p.rule] /\ p.inst.head = a
    BY <2>1 DEF SoundInv, Proper, TypeOK
  <2>4. p.rule \in Rule /\ p = ProofOf(p.rule, p.inst)
    BY <2>3 DEF Proof, ProofOf
  <2>5. Standing(queue, 0, proofs[a], p)
    BY StandingOne
  <2>6. Len(queue) = 0
    BY DEF Quiescent
  <2>7. Standing0(p.rule, p.inst)
    BY <2>3, <2>4, <2>5, <2>6 DEF Standing0
  <2>8. p.rule \in rules /\ Holds(p.inst, {})
    BY <2>3, <2>4, <2>7 DEF SoundInv, Sound
  <2> QED BY <2>3, <2>8 DEF Derivable
<1> QED BY <1>1, <1>2, <1>3, PTL DEF Spec
=============================================================================
