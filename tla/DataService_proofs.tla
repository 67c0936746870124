------------------------ MODULE DataService_proofs ------------------------
(***************************************************************************)
(* Proofs about DataService, for every set of subscribers, green threads   *)
(* and rows and for every bound.                                           *)
(***************************************************************************)
EXTENDS DataService, TLAPS

(***************************************************************************)
(* Type correctness.                                                       *)
(***************************************************************************)

\* process_queued_msg, add_to_msg_queue and the application of a message keep
\* the receiver's data structures well typed.
LEMMA ReceiveTypes ==
  ASSUME TypeOK, NEW s \in Subscriber, Receive(s)
  PROVE  /\ recvSeq' \in [Subscriber -> Seqnum \cup {Unset}]
         /\ queue' \in [Subscriber -> SUBSET Message]
         /\ oldest' \in [Subscriber -> {"absent", "none", "set"}]
         /\ handling' \in [Subscriber -> SUBSET Message]
         /\ view' \in [Subscriber -> Table]
         /\ applied' \in [Subscriber -> Seqnum \cup {Unset}]
<1>1. PICK m \in handling[s] : \/ ReceiveFirst(s, m)
                               \/ ReceiveReset(s, m)
                               \/ ReceiveOld(s, m)
                               \/ ReceiveNext(s, m)
                               \/ ReceiveFuture(s, m)
  BY DEF Receive
<1>2. /\ m \in Message
      /\ m.seq \in Seqnum
      /\ m.add \in Table
      /\ m.del \in Table
  BY DEF TypeOK, Message
<1>3. ASSUME Apply(s, m)
      PROVE  /\ recvSeq' \in [Subscriber -> Seqnum \cup {Unset}]
             /\ view' \in [Subscriber -> Table]
             /\ applied' \in [Subscriber -> Seqnum \cup {Unset}]
  BY <1>2, <1>3 DEF Apply, TypeOK, Table
<1>4. ASSUME ProcessQueued(s)
      PROVE  /\ queue' \in [Subscriber -> SUBSET Message]
             /\ oldest' \in [Subscriber -> {"absent", "none", "set"}]
             /\ handling' \in [Subscriber -> SUBSET Message]
  <2>1. CASE queue[s] = {}
    BY <1>4, <2>1 DEF ProcessQueued, TypeOK
  <2>2. CASE queue[s] # {}
    <3>1. PICK n \in queue[s] :
            /\ queue' = [queue EXCEPT ![s] = @ \ {n}]
            /\ oldest' = [oldest EXCEPT ![s] =
                            IF queue[s] = {n} THEN "none" ELSE "set"]
            /\ handling' = [handling EXCEPT ![s] = {n}]
      BY <1>4, <2>2 DEF ProcessQueued
    <3>2. n \in Message
      BY DEF TypeOK
    <3> QED
      BY <3>1, <3>2 DEF TypeOK
  <2> QED
    BY <2>1, <2>2
<1>5. ASSUME Enqueue(s, m)
      PROVE  /\ queue' \in [Subscriber -> SUBSET Message]
             /\ oldest' \in [Subscriber -> {"absent", "none", "set"}]
             /\ handling' \in [Subscriber -> SUBSET Message]
             /\ UNCHANGED <<recvSeq, view, applied>>
  BY <1>2, <1>5 DEF Enqueue, TypeOK
<1>6. CASE ReceiveFirst(s, m)
  BY <1>3, <1>4, <1>5, <1>6 DEF ReceiveFirst, TypeOK
<1>7. CASE ReceiveReset(s, m)
  BY <1>3, <1>7 DEF ReceiveReset, TypeOK
<1>8. CASE ReceiveOld(s, m)
  BY <1>4, <1>8 DEF ReceiveOld, TypeOK
<1>9. CASE ReceiveNext(s, m)
  BY <1>3, <1>4, <1>9 DEF ReceiveNext, TypeOK
<1>10. CASE ReceiveFuture(s, m)
  BY <1>5, <1>10 DEF ReceiveFuture, TypeOK
<1> QED
  BY <1>1, <1>6, <1>7, <1>8, <1>9, <1>10

\* The four states of a subscribe() call are calls.
LEMMA CallTypes ==
  /\ NoCall \in Call
  /\ Waiting \in Call
  /\ Fetching \in Call
  /\ \A n \in Seqnum, d \in Table : Reply(n, d) \in Call
BY DEF NoCall, Waiting, Fetching, Reply, Call, Table, Unset

\* Every step of publisher, network and subscribers preserves the types.
LEMMA TypeStep == TypeOK /\ [Next]_vars => TypeOK'
<1> SUFFICES ASSUME TypeOK, [Next]_vars PROVE TypeOK'
  OBVIOUS
<1> USE BoundAssumption, CallTypes DEF Seqnum, Unset
<1>1. sendSeq # Unset => sendSeq \in Seqnum
  BY DEF TypeOK
<1>2. CASE \E d \in Table : Poll(d)
  <2>1. PICK d \in Table : Poll(d)
    BY <1>2
  <2>2. lastPub' \in {NoData} \cup Table
    BY <2>1 DEF Poll
  <2>3. /\ sendSeq' \in Seqnum \cup {Unset}
        /\ version' \in [Seqnum -> {NoData} \cup Table]
    BY <2>1 DEF Poll, TypeOK, NextSeq
  <2>4. net' \in [Subscriber -> SUBSET Message]
    <3> DEFINE base == IF lastPub = NoData THEN {} ELSE lastPub
               m == [seq |-> NextSeq, snap |-> FALSE, add |-> d \ base,
                     del |-> base \ d, src |-> Cast]
    <3>1. base \in Table
      BY DEF TypeOK, Table
    <3>2. CASE d = base
      BY <2>1, <3>2 DEF Poll, TypeOK
    <3>3. CASE d # base
      <4>1. NextSeq \in Seqnum
        BY <2>1, <3>3 DEF Poll, TypeOK, NextSeq
      <4>2. m \in Message
        BY <3>1, <4>1 DEF Message, Table
      <4>3. net' = [s \in Subscriber |-> net[s] \cup {m}]
        BY <2>1, <3>3 DEF Poll, Broadcast
      <4> QED
        BY <4>2, <4>3 DEF TypeOK
    <3> QED
      BY <3>2, <3>3
  <2>5. sendSeq' = Unset => sendSeq = Unset
    BY <2>1 DEF Poll, TypeOK, NextSeq
  <2>6. fetching' => sendSeq' # Unset
    BY ONLY <2>1, <2>5, TypeOK, Zenon DEF Poll, TypeOK
  <2> QED
    BY <2>1, <2>2, <2>3, <2>4, <2>6 DEF Poll, TypeOK, recvVars
<1>3. CASE \E d \in Table : Push(d)
  <2>1. PICK d \in Table : Push(d)
    BY <1>3
  <2>2. NextSeq \in Seqnum
    BY <2>1 DEF Push, TypeOK, NextSeq
  <2>3. Snapshot(NextSeq, d, Cast) \in Message
    BY <2>2 DEF Snapshot, Message, Table
  <2> QED
    BY <2>1, <2>2, <2>3 DEF Push, TypeOK, Broadcast, recvVars
<1>4. CASE \E d \in Table : Fetched(d)
  <2>1. PICK d \in Table : Fetched(d)
    BY <1>4
  <2>2. Reply(sendSeq, d) \in Call
    BY <1>1, <2>1 DEF Fetched, TypeOK
  <2>3. call' \in [Subscriber -> [Thread -> Call]]
    BY <2>1, <2>2 DEF Fetched, TypeOK
  <2> QED
    BY <2>1, <2>3 DEF Fetched, TypeOK, recvVars
<1>5. CASE Restart
  <2>1. fetching' => sendSeq' # Unset
    BY <1>5, Zenon DEF Restart
  <2>2. fetching' \in BOOLEAN
    BY <1>5, Zenon DEF Restart
  <2>3. restarts' \in 0 .. MaxRestarts
    BY <1>5 DEF Restart, TypeOK
  <2>4. version' \in [Seqnum -> {NoData} \cup Table]
    BY <1>5 DEF Restart
  <2>5. /\ sendSeq' \in Seqnum \cup {Unset}
        /\ lastPub' \in {NoData} \cup Table
    BY <1>5 DEF Restart
  <2> QED
    BY <1>5, <2>1, <2>2, <2>3, <2>4, <2>5 DEF Restart, TypeOK, recvVars
<1>6. ASSUME NEW s \in Subscriber, Unsubscribe(s)
      PROVE  TypeOK'
  BY <1>6 DEF Unsubscribe, Forget, TypeOK, pubVars
<1>7. ASSUME NEW s \in Subscriber, Receive(s)
      PROVE  TypeOK'
  BY <1>7, ReceiveTypes DEF Receive, TypeOK, pubVars
<1>8. ASSUME NEW s \in Subscriber, NEW m \in net[s], Deliver(s, m)
      PROVE  TypeOK'
  BY <1>8 DEF Deliver, TypeOK, pubVars
<1>9. ASSUME NEW s \in Subscriber, NEW m \in net[s], Lose(s, m)
      PROVE  TypeOK'
  BY <1>9 DEF Lose, TypeOK, pubVars, recvVars
<1>10. ASSUME NEW s \in Subscriber, NEW t \in Thread, Serving(s, t)
       PROVE  TypeOK'
  <2>1. ASSUME NEW d \in Table, ServeFirst(s, t, d)
        PROVE  TypeOK'
    BY <2>1 DEF ServeFirst, TypeOK, recvVars
  <2>2. CASE ServeLazy(s, t)
    BY <2>2 DEF ServeLazy, TypeOK, recvVars
  <2>3. CASE Serve(s, t)
    BY <1>1, <2>3 DEF Serve, TypeOK, pubVars, recvVars
  <2>4. CASE ServeFails(s, t)
    BY <2>4 DEF ServeFails, TypeOK, pubVars, recvVars
  <2> QED
    BY <1>10, <2>1, <2>2, <2>3, <2>4 DEF Serving
<1>11. ASSUME NEW s \in Subscriber, NEW t \in Thread, Subscribe(s, t)
       PROVE  TypeOK'
  BY <1>11 DEF Subscribe, TypeOK, pubVars, recvVars
<1>12. ASSUME NEW s \in Subscriber, NEW t \in Thread, CheckResub(s, t)
       PROVE  TypeOK'
  BY <1>12 DEF CheckResub, Forget, TypeOK, pubVars
<1>13. ASSUME NEW s \in Subscriber, NEW t \in Thread, Return(s, t)
       PROVE  TypeOK'
  <2>1. call[s][t] \in Call /\ call[s][t].phase = "reply"
    BY <1>13 DEF Return, TypeOK
  <2>2. call[s][t].seq \in Seqnum /\ call[s][t].data \in Table
    BY <2>1 DEF Call
  <2>3. Snapshot(call[s][t].seq, call[s][t].data, t) \in Message
    BY <2>2 DEF Snapshot, Message, Table
  <2> QED
    BY <1>13, <2>3 DEF Return, TypeOK, pubVars
<1>14. ASSUME NEW s \in Subscriber, NEW t \in Thread, Timeout(s, t)
       PROVE  TypeOK'
  BY <1>14 DEF Timeout, TypeOK, pubVars, recvVars
<1>15. CASE UNCHANGED vars
  BY <1>15 DEF vars, pubVars, recvVars, TypeOK
<1> QED
  BY <1>2, <1>3, <1>4, <1>5, <1>6, <1>7, <1>8, <1>9, <1>10, <1>11, <1>12,
     <1>13, <1>14, <1>15 DEF Next

\* Every run of the publish/subscribe protocol is type correct.
THEOREM TypeCorrect == Spec => []TypeOK
<1>1. Init => TypeOK
  <2> SUFFICES ASSUME Init PROVE TypeOK
    OBVIOUS
  <2>1. /\ sendSeq \in Seqnum \cup {Unset}
        /\ lastPub \in {NoData} \cup Table
        /\ version \in [Seqnum -> {NoData} \cup Table]
    BY BoundAssumption DEF Init, Seqnum, Unset
  <2>2. fetching \in BOOLEAN /\ (fetching => sendSeq # Unset)
    BY Zenon DEF Init
  <2>3. call \in [Subscriber -> [Thread -> Call]]
    BY CallTypes DEF Init
  <2>4. /\ wanted \in [Subscriber -> BOOLEAN]
        /\ subscribed \in [Subscriber -> BOOLEAN]
    BY DEF Init
  <2>5. /\ net \in [Subscriber -> SUBSET Message]
        /\ queue \in [Subscriber -> SUBSET Message]
        /\ handling \in [Subscriber -> SUBSET Message]
        /\ view \in [Subscriber -> Table]
    BY DEF Init, Table
  <2>6. /\ recvSeq \in [Subscriber -> Seqnum \cup {Unset}]
        /\ applied \in [Subscriber -> Seqnum \cup {Unset}]
        /\ oldest \in [Subscriber -> {"absent", "none", "set"}]
        /\ restarts \in 0 .. MaxRestarts
    BY BoundAssumption DEF Init
  <2> QED
    BY <2>1, <2>2, <2>3, <2>4, <2>5, <2>6 DEF TypeOK
<1>2. TypeOK /\ [Next]_vars => TypeOK'
  BY TypeStep
<1> QED
  BY <1>1, <1>2, PTL DEF Spec

(***************************************************************************)
(* The queue.  QueueBeyondGap is not inductive: in the middle of           *)
(* process_queued_msg the queue may hold messages that can be applied.     *)
(* What is true then is that the message being handled was the first of    *)
(* the queue.                                                              *)
(***************************************************************************)
BeyondGap(s) == \A m \in queue[s] : m.seq > recvSeq[s] + 1

HandlingFirst(s) ==
  \E m \in handling[s] : /\ handling[s] = {m}
                         /\ \A n \in queue[s] : m.seq <= n.seq

QueueInv ==
  \A s \in Subscriber :
    recvSeq[s] # Unset => BeyondGap(s) \/ HandlingFirst(s)

\* A call of receive_data_sequenced leaves a queue beyond the gap or goes on
\* with the first message of it.
LEMMA ReceiveQueue ==
  ASSUME TypeOK, QueueInv, NEW s \in Subscriber, Receive(s)
  PROVE  recvSeq'[s] # Unset => BeyondGap(s)' \/ HandlingFirst(s)'
<1>1. PICK m \in handling[s] : \/ ReceiveFirst(s, m)
                               \/ ReceiveReset(s, m)
                               \/ ReceiveOld(s, m)
                               \/ ReceiveNext(s, m)
                               \/ ReceiveFuture(s, m)
  BY DEF Receive
<1>2. /\ m.seq \in Int
      /\ \A n \in queue[s] : n \in Message /\ n.seq \in Int
      /\ recvSeq[s] \in Int
  BY BoundAssumption DEF TypeOK, Message, Seqnum, Unset
<1>3. ASSUME ProcessQueued(s)
      PROVE  BeyondGap(s)' \/ HandlingFirst(s)'
  <2>1. CASE queue[s] = {}
    BY <1>3, <2>1 DEF ProcessQueued, BeyondGap
  <2>2. CASE queue[s] # {}
    <3>1. PICK n \in queue[s] :
            /\ \A k \in queue[s] : NotAfter(n, k)
            /\ queue' = [queue EXCEPT ![s] = @ \ {n}]
            /\ handling' = [handling EXCEPT ![s] = {n}]
      BY <1>3, <2>2 DEF ProcessQueued
    <3>2. \A k \in queue'[s] : n.seq <= k.seq
      BY <1>2, <3>1 DEF NotAfter, TypeOK
    <3>3. handling'[s] = {n}
      BY <3>1 DEF TypeOK
    <3> QED
      BY <3>2, <3>3 DEF HandlingFirst
  <2> QED
    BY <2>1, <2>2
<1>4. CASE ReceiveFirst(s, m)
  BY <1>3, <1>4 DEF ReceiveFirst, Enqueue, TypeOK
<1>5. CASE ReceiveReset(s, m)
  BY <1>5 DEF ReceiveReset, BeyondGap, TypeOK
<1>6. CASE ReceiveOld(s, m)
  BY <1>3, <1>6 DEF ReceiveOld
<1>7. CASE ReceiveNext(s, m)
  BY <1>3, <1>7 DEF ReceiveNext
<1>8. CASE ReceiveFuture(s, m)
  <2>1. /\ queue'[s] = queue[s] \cup {m}
        /\ recvSeq'[s] = recvSeq[s]
    BY <1>8 DEF ReceiveFuture, Enqueue, TypeOK
  <2>2. m.seq > recvSeq[s] + 1 /\ recvSeq[s] # Unset
    BY <1>8 DEF ReceiveFuture
  <2>3. BeyondGap(s)
    BY <1>2, <2>2 DEF QueueInv, BeyondGap, HandlingFirst
  <2> QED
    BY <2>1, <2>2, <2>3 DEF BeyondGap
<1> QED
  BY <1>1, <1>4, <1>5, <1>6, <1>7, <1>8

LEMMA QueueStep == TypeOK /\ QueueInv /\ [Next]_vars => QueueInv'
<1> SUFFICES ASSUME TypeOK, QueueInv, [Next]_vars,
                    NEW q \in Subscriber, recvSeq'[q] # Unset
             PROVE  BeyondGap(q)' \/ HandlingFirst(q)'
  BY DEF QueueInv
<1>1. ASSUME UNCHANGED <<recvSeq, queue, handling>>
      PROVE  BeyondGap(q)' \/ HandlingFirst(q)'
  BY <1>1 DEF QueueInv, BeyondGap, HandlingFirst
<1>2. ASSUME NEW s \in Subscriber, Receive(s)
      PROVE  BeyondGap(q)' \/ HandlingFirst(q)'
  <2>1. CASE s = q
    BY <1>2, <2>1, ReceiveQueue
  <2>2. CASE s # q
    <3>1. /\ recvSeq'[q] = recvSeq[q]
          /\ queue'[q] = queue[q]
          /\ handling'[q] = handling[q]
      BY <1>2, <2>2 DEF Receive, ReceiveFirst, ReceiveReset, ReceiveOld,
           ReceiveNext, ReceiveFuture, Apply, Enqueue, ProcessQueued, TypeOK
    <3> QED
      BY <3>1 DEF QueueInv, BeyondGap, HandlingFirst
  <2> QED
    BY <2>1, <2>2
<1>3. ASSUME NEW s \in Subscriber, Free(s), UNCHANGED <<recvSeq, queue>>,
             \E x : handling' = [handling EXCEPT ![s] = x]
      PROVE  BeyondGap(q)' \/ HandlingFirst(q)'
  <2>1. CASE s = q
    BY <1>3, <2>1 DEF QueueInv, BeyondGap, HandlingFirst, Free
  <2>2. CASE s # q
    BY <1>3, <2>2 DEF QueueInv, BeyondGap, HandlingFirst, TypeOK
  <2> QED
    BY <2>1, <2>2
<1>4. ASSUME NEW s \in Subscriber, Forget(s), handling' = handling
      PROVE  BeyondGap(q)' \/ HandlingFirst(q)'
  BY <1>4 DEF Forget, QueueInv, BeyondGap, HandlingFirst, TypeOK
<1>5. CASE \E d \in Table : Poll(d) \/ Push(d) \/ Fetched(d)
  BY <1>1, <1>5 DEF Poll, Push, Fetched, recvVars
<1>6. CASE Restart
  BY <1>1, <1>6 DEF Restart, recvVars
<1>7. ASSUME NEW s \in Subscriber, Unsubscribe(s)
      PROVE  BeyondGap(q)' \/ HandlingFirst(q)'
  BY <1>4, <1>7 DEF Unsubscribe
<1>8. ASSUME NEW s \in Subscriber, NEW m \in net[s],
             Deliver(s, m) \/ Lose(s, m)
      PROVE  BeyondGap(q)' \/ HandlingFirst(q)'
  BY <1>1, <1>3, <1>8 DEF Deliver, Lose, recvVars
<1>9. ASSUME NEW s \in Subscriber, NEW t \in Thread,
             Serving(s, t) \/ Subscribe(s, t) \/ Timeout(s, t)
      PROVE  BeyondGap(q)' \/ HandlingFirst(q)'
  BY <1>1, <1>9 DEF Serving, ServeFirst, ServeLazy, Serve, ServeFails,
                    Subscribe, Timeout, recvVars
<1>10. ASSUME NEW s \in Subscriber, NEW t \in Thread, CheckResub(s, t)
       PROVE  BeyondGap(q)' \/ HandlingFirst(q)'
  BY <1>4, <1>10 DEF CheckResub
<1>11. ASSUME NEW s \in Subscriber, NEW t \in Thread, Return(s, t)
       PROVE  BeyondGap(q)' \/ HandlingFirst(q)'
  BY <1>3, <1>11 DEF Return
<1>12. CASE UNCHANGED vars
  BY <1>1, <1>12 DEF vars, recvVars
<1> QED
  BY <1>2, <1>5, <1>6, <1>7, <1>8, <1>9, <1>10, <1>11, <1>12 DEF Next

\* Whatever is lost, overtaken, restarted or resubscribed, the receive queue
\* never holds back a message that could be applied (data_service.py,
\* process_queued_msg): this holds for every kind of publisher.
THEOREM QueueCorrect == Spec => []QueueBeyondGap
<1>1. Init => QueueInv
  BY DEF Init, QueueInv, BeyondGap, Unset
<1>2. TypeOK /\ QueueInv /\ [Next]_vars => QueueInv'
  BY QueueStep
<1>3. QueueInv => QueueBeyondGap
  BY DEF QueueInv, QueueBeyondGap, BeyondGap, HandlingFirst, Free
<1> QED
  BY <1>1, <1>2, <1>3, TypeCorrect, PTL DEF Spec

(***************************************************************************)
(* Consistency.  Consistent is not inductive: a view stays a version only  *)
(* because every difference in flight, queued or being handled leads from  *)
(* one version to the next, every snapshot is a version, and a version is  *)
(* never changed once it is published.                                     *)
(***************************************************************************)
Right(m) ==
  /\ m.seq \in 1 .. sendSeq
  /\ m.snap => m.add = version[m.seq]
  /\ ~m.snap => /\ m.seq > 1
               /\ m.add = version[m.seq] \ version[m.seq - 1]
               /\ m.del = version[m.seq - 1] \ version[m.seq]

Published ==
  /\ sendSeq \in 1 .. MaxSeq
  /\ lastPub \in Table
  /\ lastPub = version[sendSeq]
  /\ fetching = FALSE

RightMessages ==
  \A s \in Subscriber : \A m \in net[s] \cup queue[s] \cup handling[s] : Right(m)

RightReplies ==
  \A s \in Subscriber, t \in Thread :
    call[s][t].phase = "reply" =>
      /\ call[s][t].seq \in 1 .. sendSeq
      /\ call[s][t].data = version[call[s][t].seq]

RightViews ==
  \A s \in Subscriber :
    recvSeq[s] # Unset => /\ recvSeq[s] \in 1 .. sendSeq
                          /\ view[s] = version[recvSeq[s]]

ConsistencyInv == Published /\ RightMessages /\ RightReplies /\ RightViews

\* A poll adds a version and changes none, so what was right stays right.
LEMMA PollConsistent ==
  ASSUME TypeOK, ConsistencyInv, NEW d \in Table, Poll(d)
  PROVE  ConsistencyInv'
<1> DEFINE new == [seq |-> sendSeq + 1, snap |-> FALSE, add |-> d \ lastPub,
                   del |-> lastPub \ d, src |-> Cast]
<1> USE BoundAssumption DEF Seqnum, Unset
<1>1. /\ sendSeq \in 1 .. MaxSeq
      /\ lastPub = version[sendSeq]
      /\ NextSeq = sendSeq + 1
      /\ lastPub # NoData
  BY NoDataAssumption DEF ConsistencyInv, Published, NextSeq, Table
<1>2. /\ UNCHANGED <<fetching, call, recvSeq, queue, handling, view>>
      /\ lastPub' = d
  BY DEF Poll, recvVars
<1>3. CASE d = lastPub
  <2>1. UNCHANGED <<sendSeq, version, net, lastPub>>
    BY <1>1, <1>2, <1>3 DEF Poll
  <2> QED
    BY <1>2, <2>1 DEF ConsistencyInv, Published, RightMessages, Right,
                      RightReplies, RightViews
<1>4. CASE d # lastPub
  <2>1. /\ sendSeq + 1 <= MaxSeq
        /\ sendSeq' = sendSeq + 1
        /\ version' = [version EXCEPT ![sendSeq + 1] = d]
        /\ net' = [s \in Subscriber |-> net[s] \cup {new}]
    BY <1>1, <1>4 DEF Poll, Broadcast
  <2>2. /\ version'[sendSeq + 1] = d
        /\ \A n \in 1 .. sendSeq : version'[n] = version[n]
    BY <1>1, <2>1 DEF TypeOK
  <2>3. ASSUME NEW m, m = new
        PROVE  Right(m)'
    <3>1. /\ m.seq = sendSeq + 1
          /\ m.snap = FALSE
          /\ m.add = d \ version[sendSeq]
          /\ m.del = version[sendSeq] \ d
      BY <1>1, <2>3
    <3>2. /\ version'[m.seq] = d
          /\ version'[m.seq - 1] = version[sendSeq]
          /\ m.seq \in 1 .. sendSeq' /\ m.seq > 1
      BY <1>1, <2>1, <2>2, <3>1
    <3> QED
      BY <3>1, <3>2 DEF Right
  <2>4. ASSUME NEW m, Right(m), m.seq \in Int
        PROVE  Right(m)'
    BY <1>1, <2>1, <2>2, <2>4 DEF Right
  <2>5. RightMessages'
    <3> SUFFICES ASSUME NEW s \in Subscriber,
                        NEW m \in net'[s] \cup queue'[s] \cup handling'[s]
                 PROVE  Right(m)'
      BY DEF RightMessages
    <3>1. CASE m = new
      BY <2>3, <3>1
    <3>2. CASE m # new
      <4>1. m \in net[s] \cup queue[s] \cup handling[s]
        BY <1>2, <2>1, <3>2
      <4>2. Right(m) /\ m.seq \in Int
        BY <4>1 DEF ConsistencyInv, RightMessages, Right
      <4> QED
        BY <2>4, <4>2
    <3> QED
      BY <3>1, <3>2
  <2>6. RightReplies'
    BY <1>1, <1>2, <2>1, <2>2 DEF ConsistencyInv, RightReplies
  <2>7. RightViews'
    BY <1>1, <1>2, <2>1, <2>2 DEF ConsistencyInv, RightViews
  <2>8. Published'
    BY <1>1, <1>2, <2>1, <2>2 DEF ConsistencyInv, Published
  <2> QED
    BY <2>5, <2>6, <2>7, <2>8 DEF ConsistencyInv
<1> QED
  BY <1>3, <1>4

\* A handler applies only right messages, and a right message applied in its
\* turn yields the next version: seqnum 0 is past, so no branch applies a
\* difference to the wrong base.
LEMMA ReceiveConsistent ==
  ASSUME TypeOK, ConsistencyInv, NEW s \in Subscriber, Receive(s)
  PROVE  ConsistencyInv'
<1> USE BoundAssumption DEF Seqnum, Unset
<1>1. PICK m \in handling[s] : \/ ReceiveFirst(s, m)
                               \/ ReceiveReset(s, m)
                               \/ ReceiveOld(s, m)
                               \/ ReceiveNext(s, m)
                               \/ ReceiveFuture(s, m)
  BY DEF Receive
<1>2. /\ Right(m)
      /\ m.seq \in Seqnum
      /\ m.snap \in BOOLEAN
      /\ sendSeq \in 1 .. MaxSeq
  BY DEF ConsistencyInv, RightMessages, Published, TypeOK, Message
<1>3. UNCHANGED <<sendSeq, lastPub, fetching, version, net, call>>
  BY DEF Receive, pubVars
<1>4. Published' /\ RightReplies'
  BY <1>3 DEF ConsistencyInv, Published, RightReplies
<1>5. ASSUME ProcessQueued(s) \/ Enqueue(s, m)
             \/ (queue' = [queue EXCEPT ![s] = {}]
                 /\ handling' = [handling EXCEPT ![s] = {}])
      PROVE  \A q \in Subscriber :
               queue'[q] \cup handling'[q] \subseteq queue[q] \cup handling[q]
  <2> TAKE q \in Subscriber
  <2>1. CASE q # s
    BY <1>5, <2>1 DEF ProcessQueued, Enqueue, TypeOK
  <2>2. CASE q = s /\ ProcessQueued(s)
    <3>1. \/ queue' = queue /\ handling'[s] = {}
          \/ \E n \in queue[s] : queue'[s] = queue[s] \ {n} /\ handling'[s] = {n}
      BY <2>2 DEF ProcessQueued, TypeOK
    <3> QED
      BY <2>2, <3>1
  <2>3. CASE q = s /\ Enqueue(s, m)
    BY <2>3 DEF Enqueue, TypeOK
  <2>4. CASE q = s /\ queue' = [queue EXCEPT ![s] = {}]
                  /\ handling' = [handling EXCEPT ![s] = {}]
    BY <2>4 DEF TypeOK
  <2> QED
    BY <1>5, <2>1, <2>2, <2>3, <2>4
<1>6. RightMessages'
  <2>1. \A q \in Subscriber :
          queue'[q] \cup handling'[q] \subseteq queue[q] \cup handling[q]
    BY <1>1, <1>5 DEF ReceiveFirst, ReceiveReset, ReceiveOld, ReceiveNext,
                      ReceiveFuture
  <2>2. \A n : Right(n)' <=> Right(n)
    BY <1>3 DEF Right
  <2> QED
    BY <1>3, <2>1, <2>2 DEF ConsistencyInv, RightMessages
<1>7. RightViews'
  <2>1. CASE UNCHANGED <<recvSeq, view>>
    BY <1>3, <2>1 DEF ConsistencyInv, RightViews
  <2>2. ASSUME Apply(s, m),
               m.snap \/ (recvSeq[s] # Unset /\ m.seq = recvSeq[s] + 1)
        PROVE  RightViews'
    <3>1. view'[s] = version[m.seq]
      <4>1. CASE m.snap
        BY <1>2, <2>2, <4>1 DEF Apply, Right, TypeOK
      <4>2. CASE ~m.snap
        <5>1. view[s] = version[m.seq - 1]
          BY <1>2, <2>2, <4>2 DEF ConsistencyInv, RightViews, TypeOK
        <5>2. view'[s] = (view[s] \ m.del) \cup m.add
          BY <2>2, <4>2 DEF Apply, TypeOK
        <5> QED
          BY <1>2, <4>2, <5>1, <5>2 DEF Right
      <4> QED
        BY <4>1, <4>2
    <3>2. recvSeq'[s] = m.seq /\ m.seq \in 1 .. sendSeq
      BY <1>2, <2>2 DEF Apply, Right, TypeOK
    <3>3. \A q \in Subscriber \ {s} :
            recvSeq'[q] = recvSeq[q] /\ view'[q] = view[q]
      BY <2>2 DEF Apply, TypeOK
    <3> QED
      BY <1>3, <3>1, <3>2, <3>3 DEF ConsistencyInv, RightViews
  <2>3. CASE ReceiveFirst(s, m)
    BY <2>1, <2>2, <2>3 DEF ReceiveFirst, Enqueue
  <2>4. CASE ReceiveReset(s, m)
    BY <1>2, <2>4 DEF ReceiveReset, Right
  <2>5. CASE ReceiveOld(s, m)
    BY <2>1, <2>5 DEF ReceiveOld
  <2>6. CASE ReceiveNext(s, m)
    BY <2>2, <2>6 DEF ReceiveNext
  <2>7. CASE ReceiveFuture(s, m)
    BY <2>1, <2>7 DEF ReceiveFuture, Enqueue
  <2> QED
    BY <1>1, <2>3, <2>4, <2>5, <2>6, <2>7
<1> QED
  BY <1>4, <1>6, <1>7 DEF ConsistencyInv

\* Steps that leave versions and views alone, and whose messages and replies
\* were already there or carry the current version.
LEMMA OtherConsistent ==
  ASSUME TypeOK, ConsistencyInv,
         UNCHANGED <<sendSeq, lastPub, fetching, version, view>>,
         \A s \in Subscriber :
           /\ recvSeq'[s] \in {recvSeq[s], Unset}
           /\ \A m \in net'[s] \cup queue'[s] \cup handling'[s] :
                \/ m \in net[s] \cup queue[s] \cup handling[s]
                \/ \E t \in Thread :
                     /\ call[s][t].phase = "reply"
                     /\ m = Snapshot(call[s][t].seq, call[s][t].data, t)
           /\ \A t \in Thread :
                call'[s][t] \in {call[s][t], NoCall, Waiting, Fetching,
                                 Reply(sendSeq, lastPub)}
  PROVE  ConsistencyInv'
<1>1. Published'
  BY DEF ConsistencyInv, Published
<1>2. RightMessages'
  <2>1. \A n : Right(n)' <=> Right(n)
    BY DEF Right
  <2>2. \A s \in Subscriber, t \in Thread :
          call[s][t].phase = "reply" =>
            Right(Snapshot(call[s][t].seq, call[s][t].data, t))
    BY DEF ConsistencyInv, RightReplies, Right, Snapshot
  <2> QED
    BY <2>1, <2>2 DEF ConsistencyInv, RightMessages
<1>3. RightReplies'
  <2> SUFFICES ASSUME NEW s \in Subscriber, NEW t \in Thread,
                      call'[s][t].phase = "reply"
               PROVE  /\ call'[s][t].seq \in 1 .. sendSeq
                      /\ call'[s][t].data = version[call'[s][t].seq]
    BY DEF RightReplies
  <2>1. call'[s][t] \in {call[s][t], Reply(sendSeq, lastPub)}
    BY DEF NoCall, Waiting, Fetching
  <2> QED
    BY <2>1 DEF ConsistencyInv, RightReplies, Published, Reply
<1>4. RightViews'
  BY DEF ConsistencyInv, RightViews
<1> QED
  BY <1>1, <1>2, <1>3, <1>4 DEF ConsistencyInv

LEMMA ConsistencyStep ==
  ASSUME Kind = "poll", MaxRestarts = 0
  PROVE  TypeOK /\ ConsistencyInv /\ [Next]_vars => ConsistencyInv'
<1> SUFFICES ASSUME TypeOK, ConsistencyInv, [Next]_vars
             PROVE  ConsistencyInv'
  OBVIOUS
<1>0. sendSeq # Unset /\ lastPub # NoData /\ fetching = FALSE
  BY NoDataAssumption DEF ConsistencyInv, Published, Unset, Table
<1>1. CASE \E d \in Table : Poll(d) \/ Push(d) \/ Fetched(d)
  BY <1>0, <1>1, PollConsistent DEF Push, Fetched
<1>2. CASE Restart
  BY <1>2 DEF Restart, TypeOK
<1>3. ASSUME NEW s \in Subscriber, Unsubscribe(s)
      PROVE  ConsistencyInv'
  BY <1>3, OtherConsistent DEF Unsubscribe, Forget, TypeOK, pubVars
<1>4. ASSUME NEW s \in Subscriber, Receive(s)
      PROVE  ConsistencyInv'
  BY <1>4, ReceiveConsistent
<1>5. ASSUME NEW s \in Subscriber, NEW m \in net[s], Deliver(s, m)
      PROVE  ConsistencyInv'
  BY <1>5, OtherConsistent DEF Deliver, TypeOK, pubVars
<1>6. ASSUME NEW s \in Subscriber, NEW m \in net[s], Lose(s, m)
      PROVE  ConsistencyInv'
  BY <1>6, OtherConsistent DEF Lose, TypeOK, pubVars, recvVars
<1>7. ASSUME NEW s \in Subscriber, NEW t \in Thread, Serving(s, t)
      PROVE  ConsistencyInv'
  <2>1. Serve(s, t)
    BY <1>0, <1>7 DEF Serving, ServeFirst, ServeLazy, ServeFails
  <2> QED
    BY <2>1, OtherConsistent DEF Serve, TypeOK, pubVars, recvVars
<1>8. ASSUME NEW s \in Subscriber, NEW t \in Thread, Subscribe(s, t)
      PROVE  ConsistencyInv'
  BY <1>8, OtherConsistent DEF Subscribe, TypeOK, pubVars, recvVars
<1>9. ASSUME NEW s \in Subscriber, NEW t \in Thread, CheckResub(s, t)
      PROVE  ConsistencyInv'
  BY <1>9, OtherConsistent DEF CheckResub, Forget, TypeOK, pubVars
<1>10. ASSUME NEW s \in Subscriber, NEW t \in Thread, Return(s, t)
       PROVE  ConsistencyInv'
  BY <1>10, OtherConsistent DEF Return, TypeOK, pubVars
<1>11. ASSUME NEW s \in Subscriber, NEW t \in Thread, Timeout(s, t)
       PROVE  ConsistencyInv'
  BY <1>11, OtherConsistent DEF Timeout, TypeOK, pubVars, recvVars
<1>12. CASE UNCHANGED vars
  BY <1>12, OtherConsistent DEF vars, TypeOK, pubVars, recvVars
<1> QED
  BY <1>1, <1>2, <1>3, <1>4, <1>5, <1>6, <1>7, <1>8, <1>9, <1>10, <1>11,
     <1>12 DEF Next

\* A warm table starts consistent: nobody holds or is sent anything.
LEMMA ConsistencyInit ==
  ASSUME Warm = TRUE
  PROVE  Init => ConsistencyInv
<1> SUFFICES ASSUME Init PROVE ConsistencyInv
  OBVIOUS
<1>1. /\ sendSeq = 1
      /\ lastPub \in Table
      /\ version = [n \in Seqnum |-> IF n = 1 THEN lastPub ELSE NoData]
  BY Zenon DEF Init
<1>2. Published
  BY <1>1, BoundAssumption DEF Init, Published, Seqnum
<1>3. RightMessages
  BY DEF Init, RightMessages
<1>4. RightReplies
  BY DEF Init, RightReplies, NoCall
<1>5. RightViews
  BY DEF Init, RightViews
<1> QED
  BY <1>2, <1>3, <1>4, <1>5 DEF ConsistencyInv

\* Once seqnum 0 is past, and while a polling publisher is not restarted, a
\* subscriber's contents are exactly the publisher's at the subscriber's
\* sequence number: for any number of subscribers and concurrent subscribe()
\* calls, with lost and reordered casts, timeouts and resubscriptions.
THEOREM Consistency ==
  ASSUME Kind = "poll", Warm = TRUE, MaxRestarts = 0
  PROVE  Spec => []Consistent
<1>1. Init => ConsistencyInv
  BY ConsistencyInit
<1>2. TypeOK /\ ConsistencyInv /\ [Next]_vars => ConsistencyInv'
  BY ConsistencyStep
<1>3. ConsistencyInv => Consistent
  BY DEF ConsistencyInv, RightViews, Consistent
<1> QED
  BY <1>1, <1>2, <1>3, TypeCorrect, PTL DEF Spec

(***************************************************************************)
(* Refinement.  A service that stays subscribed and has one green thread   *)
(* at a time in subscribe() has forgotten its sequence number while a call *)
(* is under way, so the only snapshot it ever applies is the answer to     *)
(* that call, which is not older than what it holds.  With two threads, or *)
(* if it unsubscribes during a call, a late answer can be older.           *)
(***************************************************************************)
Untouched ==
  \A s \in Subscriber :
    ~wanted[s] => /\ ~subscribed[s]
                  /\ recvSeq[s] = Unset
                  /\ oldest[s] # "set"
                  /\ handling[s] = {}
                  /\ \A t \in Thread : call[s][t].phase = "idle"

NoSnapshotsCast ==
  \A s \in Subscriber : \A m \in net[s] \cup queue[s] : ~m.snap

AppliedKept ==
  \A s \in Subscriber :
    /\ applied[s] # Unset => applied[s] \in 1 .. sendSeq
    /\ recvSeq[s] # Unset => applied[s] = recvSeq[s]

CallsForward ==
  \A s \in Subscriber, t \in Thread :
    call[s][t].phase # "idle" =>
      /\ recvSeq[s] = Unset
      /\ \A m \in handling[s] : ~m.snap
      /\ call[s][t].phase = "reply" => applied[s] <= call[s][t].seq

AnswersForward ==
  \A s \in Subscriber : \A m \in handling[s] :
    m.snap => recvSeq[s] = Unset /\ applied[s] <= m.seq

ForwardInv == NoSnapshotsCast /\ AppliedKept /\ CallsForward /\ AnswersForward

\* No step but its own subscribe() gives a service anything of the table.
LEMMA UntouchedStep ==
  ASSUME Steady = TRUE
  PROVE  TypeOK /\ Untouched /\ [Next]_vars => Untouched'
<1> SUFFICES ASSUME TypeOK, Untouched, [Next]_vars, NEW q \in Subscriber, ~wanted'[q]
             PROVE  /\ ~subscribed'[q]
                    /\ recvSeq'[q] = Unset
                    /\ oldest'[q] # "set"
                    /\ handling'[q] = {}
                    /\ \A t \in Thread : call'[q][t].phase = "idle"
  BY DEF Untouched
<1> DEFINE Own == /\ subscribed'[q] = subscribed[q] /\ recvSeq'[q] = recvSeq[q]
                  /\ oldest'[q] = oldest[q] /\ handling'[q] = handling[q]
                  /\ \A t \in Thread : \/ call'[q][t] = call[q][t]
                                        \/ call[q][t].phase # "idle"
<1> SUFFICES ~wanted[q] /\ Own
  BY DEF Untouched
<1> USE DEF TypeOK
<1>1. ASSUME NEW d \in Table, Poll(d) \/ Push(d) \/ Fetched(d)
      PROVE  ~wanted[q] /\ Own
  BY <1>1 DEF Poll, Push, Fetched, recvVars
<1>2. CASE Restart
  BY <1>2 DEF Restart, recvVars
<1>3. ASSUME NEW s \in Subscriber, Unsubscribe(s)
      PROVE  FALSE
  BY <1>3 DEF Unsubscribe
<1>4. ASSUME NEW s \in Subscriber, Receive(s)
      PROVE  ~wanted[q] /\ Own
  <2>1. UNCHANGED <<call, wanted, subscribed>> /\ handling[s] # {}
    BY <1>4 DEF Receive
  <2>2. q # s
    BY <2>1 DEF Untouched
  <2>3. recvSeq'[q] = recvSeq[q] /\ oldest'[q] = oldest[q] /\ handling'[q] = handling[q]
    BY <1>4, <2>2 DEF Receive, ReceiveFirst, ReceiveReset, ReceiveOld, ReceiveNext,
                      ReceiveFuture, Apply, Enqueue, ProcessQueued
  <2> QED
    BY <2>1, <2>3
<1>5. ASSUME NEW s \in Subscriber, NEW m \in net[s], Deliver(s, m) \/ Lose(s, m)
      PROVE  ~wanted[q] /\ Own
  BY <1>5 DEF Deliver, Lose, recvVars, Free, Untouched
<1>6. ASSUME NEW s \in Subscriber, NEW t \in Thread, Serving(s, t)
      PROVE  ~wanted[q] /\ Own
  <2>1. /\ call[s][t].phase = "wait"
        /\ UNCHANGED <<wanted, subscribed, recvVars>>
        /\ \E c : call' = [call EXCEPT ![s][t] = c]
    BY <1>6 DEF Serving, ServeFirst, ServeLazy, Serve, ServeFails
  <2>2. q # s
    BY <2>1 DEF Untouched
  <2> QED
    BY <2>1, <2>2 DEF recvVars
<1>7. ASSUME NEW s \in Subscriber, NEW t \in Thread,
             Subscribe(s, t) \/ CheckResub(s, t)
      PROVE  ~wanted[q] /\ Own
  <2>1. q # s /\ ~wanted[q]
    BY <1>7 DEF Subscribe, CheckResub, Untouched
  <2> QED
    BY <1>7, <2>1 DEF Subscribe, CheckResub, Forget, recvVars
<1>8. ASSUME NEW s \in Subscriber, NEW t \in Thread, Return(s, t) \/ Timeout(s, t)
      PROVE  ~wanted[q] /\ Own
  <2>1. q # s /\ ~wanted[q]
    BY <1>8 DEF Return, Timeout, Untouched
  <2> QED
    BY <1>8, <2>1 DEF Return, Timeout, recvVars
<1>9. CASE UNCHANGED vars
  BY <1>9 DEF vars, recvVars
<1> QED
  BY <1>1, <1>2, <1>3, <1>4, <1>5, <1>6, <1>7, <1>8, <1>9 DEF Next

\* A handler that applies something applies a version that is not older than
\* the one its subscriber holds.
LEMMA ReceiveForward ==
  ASSUME TypeOK, ConsistencyInv, ForwardInv, NEW s \in Subscriber, Receive(s)
  PROVE  /\ ForwardInv'
         /\ \/ UNCHANGED <<applied, view>>
            \/ \E n \in 1 .. sendSeq :
                 /\ n >= applied[s]
                 /\ applied' = [applied EXCEPT ![s] = n]
                 /\ view' = [view EXCEPT ![s] = version[n]]
<1> USE BoundAssumption DEF Seqnum, Unset
<1>1. PICK m \in handling[s] : \/ ReceiveFirst(s, m)
                               \/ ReceiveReset(s, m)
                               \/ ReceiveOld(s, m)
                               \/ ReceiveNext(s, m)
                               \/ ReceiveFuture(s, m)
  BY DEF Receive
<1>2. /\ Right(m)
      /\ m.seq \in 1 .. sendSeq
      /\ m.snap \in BOOLEAN
      /\ sendSeq \in 1 .. MaxSeq
      /\ recvSeq[s] \in Seqnum \cup {Unset}
      /\ applied[s] \in Seqnum \cup {Unset}
  BY DEF ConsistencyInv, RightMessages, Right, Published, TypeOK, Message
<1>3. UNCHANGED <<sendSeq, lastPub, fetching, version, net, call, wanted>>
  BY DEF Receive, pubVars
<1>4. m.snap => recvSeq[s] = Unset /\ applied[s] <= m.seq
  BY DEF ForwardInv, AnswersForward
<1>5. /\ ConsistencyInv'
      /\ RightViews'
  BY ReceiveConsistent DEF ConsistencyInv
<1>6. ASSUME ProcessQueued(s)
      PROVE  \A q \in Subscriber :
               /\ queue'[q] \subseteq queue[q]
               /\ handling'[q] \subseteq (IF q = s THEN queue[q] ELSE handling[q])
  <2> TAKE q \in Subscriber
  <2>1. CASE q # s
    BY <1>6, <2>1 DEF ProcessQueued, TypeOK
  <2>2. CASE q = s /\ queue[s] = {}
    BY <1>6, <2>2 DEF ProcessQueued, TypeOK
  <2>3. CASE q = s /\ queue[s] # {}
    <3>1. PICK n \in queue[s] : /\ queue' = [queue EXCEPT ![s] = @ \ {n}]
                                /\ handling' = [handling EXCEPT ![s] = {n}]
      BY <1>6, <2>3 DEF ProcessQueued
    <3> QED
      BY <2>3, <3>1 DEF TypeOK
  <2> QED
    BY <2>1, <2>2, <2>3
<1>7. ASSUME Enqueue(s, m), ~m.snap
      PROVE  /\ \A q \in Subscriber : \A n \in queue'[q] : ~n.snap
             /\ \A q \in Subscriber : handling'[q] \subseteq handling[q]
             /\ UNCHANGED <<recvSeq, applied, view>>
  BY <1>7 DEF Enqueue, TypeOK, ForwardInv, NoSnapshotsCast
<1>8. CASE Apply(s, m) /\ ProcessQueued(s)
           /\ (m.snap \/ (recvSeq[s] # Unset /\ m.seq = recvSeq[s] + 1))
  <2>1. /\ recvSeq'[s] = m.seq
        /\ applied' = [applied EXCEPT ![s] = m.seq]
        /\ \A q \in Subscriber \ {s} : recvSeq'[q] = recvSeq[q] /\ applied'[q] = applied[q]
        /\ applied'[s] = m.seq
    BY <1>8 DEF Apply, TypeOK
  <2>2. m.seq >= applied[s]
    BY <1>2, <1>4, <1>8 DEF ForwardInv, AppliedKept
  <2>3. view' = [view EXCEPT ![s] = version[m.seq]]
    <3>1. view'[s] = version[m.seq]
      BY <1>2, <1>3, <1>5, <2>1 DEF RightViews
    <3>2. \E x : view' = [view EXCEPT ![s] = x]
      BY <1>8 DEF Apply
    <3> QED
      BY <3>1, <3>2 DEF TypeOK
  <2>4. \A t \in Thread : call[s][t].phase = "idle"
    BY <1>8 DEF ForwardInv, CallsForward
  <2>6. NoSnapshotsCast' /\ AnswersForward' /\ CallsForward'
    BY <1>3, <1>6, <1>8, <2>1, <2>4
       DEF ForwardInv, NoSnapshotsCast, AnswersForward, CallsForward
  <2>7. AppliedKept'
    BY <1>2, <1>3, <2>1 DEF ForwardInv, AppliedKept
  <2> QED
    BY <1>2, <2>1, <2>2, <2>3, <2>6, <2>7 DEF ForwardInv
<1>9. CASE Enqueue(s, m) /\ ~m.snap
  BY <1>3, <1>7, <1>9 DEF ForwardInv, NoSnapshotsCast, AppliedKept,
                          AnswersForward, CallsForward
<1>10. CASE ProcessQueued(s) /\ UNCHANGED <<recvSeq, applied, view>>
  BY <1>3, <1>6, <1>10 DEF ForwardInv, NoSnapshotsCast, AppliedKept,
                           AnswersForward, CallsForward
<1> QED
  BY <1>1, <1>2, <1>4, <1>8, <1>9, <1>10
     DEF ReceiveFirst, ReceiveReset, ReceiveOld, ReceiveNext, ReceiveFuture

\* Every step keeps the order of versions, and seen by its data alone it is a
\* step of the abstract table or none.
LEMMA RefinementStep ==
  ASSUME Kind = "poll", Steady = TRUE, MaxRestarts = 0,
         \A t, u \in Thread : t = u
  PROVE  TypeOK /\ ConsistencyInv /\ Untouched /\ ForwardInv /\ [Next]_vars
           => ForwardInv' /\ [Abstract!Next]_(Abstract!vars)
<1> SUFFICES ASSUME TypeOK, ConsistencyInv, Untouched, ForwardInv, [Next]_vars
             PROVE  ForwardInv' /\ [Abstract!Next]_(Abstract!vars)
  OBVIOUS
<1> USE DEF ForwardInv, NoSnapshotsCast, AppliedKept, AnswersForward,
            CallsForward
<1>0. /\ sendSeq \in 1 .. MaxSeq /\ sendSeq # Unset
      /\ lastPub # NoData /\ fetching = FALSE
      /\ lastPub = version[sendSeq]
      /\ MaxSeq \in Nat
      /\ \A s \in Subscriber : applied[s] \in Int
  BY NoDataAssumption, BoundAssumption
     DEF ConsistencyInv, Published, Unset, Table, TypeOK, Seqnum
<1>1. ASSUME UNCHANGED <<sendSeq, version, applied, view>>
      PROVE  [Abstract!Next]_(Abstract!vars)
  BY <1>1 DEF Abstract!vars
<1>2. ASSUME NEW d \in Table, Poll(d)
      PROVE  ForwardInv' /\ [Abstract!Next]_(Abstract!vars)
  <2>1. NextSeq = sendSeq + 1 /\ UNCHANGED <<call, wanted, recvVars>>
    BY <1>0, <1>2 DEF Poll, NextSeq
  <2>2. CASE d = lastPub
    BY <1>0, <1>1, <1>2, <2>1, <2>2 DEF Poll, recvVars
  <2>3. CASE d # lastPub
    <3>1. /\ sendSeq + 1 <= MaxSeq
          /\ sendSeq' = sendSeq + 1
          /\ version' = [version EXCEPT ![sendSeq + 1] = d]
          /\ \A s \in Subscriber : \A m \in net'[s] : m \in net[s] \/ ~m.snap
      BY <1>0, <1>2, <2>1, <2>3 DEF Poll, Broadcast
    <3>2. Abstract!Publish
      <4>1. d # version[sendSeq] /\ sendSeq < MaxSeq
        BY ONLY <1>0, <2>3, <3>1
      <4>2. UNCHANGED <<applied, view>>
        BY ONLY <2>1 DEF recvVars
      <4>3. d \in SUBSET Row
        BY ONLY d \in Table DEF Table
      <4> QED
        BY ONLY <3>1, <4>1, <4>2, <4>3 DEF Abstract!Publish
    <3>3. ForwardInv'
      BY <1>0, <2>1, <3>1 DEF recvVars
    <3> QED
      BY <3>2, <3>3 DEF Abstract!Next
  <2> QED
    BY <2>2, <2>3
<1>3. CASE Restart
  BY <1>3 DEF Restart, TypeOK
<1>4. ASSUME NEW s \in Subscriber, Receive(s)
      PROVE  ForwardInv' /\ [Abstract!Next]_(Abstract!vars)
  <2>1. UNCHANGED <<sendSeq, version>>
    BY <1>4 DEF Receive, pubVars
  <2>2. CASE UNCHANGED <<applied, view>>
    BY <1>1, <1>4, <2>1, <2>2, ReceiveForward
  <2>3. CASE \E n \in 1 .. sendSeq :
               /\ n >= applied[s]
               /\ applied' = [applied EXCEPT ![s] = n]
               /\ view' = [view EXCEPT ![s] = version[n]]
    <3>1. Abstract!CatchUp(s)
      BY <2>1, <2>3 DEF Abstract!CatchUp
    <3> QED
      BY <1>4, <3>1, ReceiveForward DEF Abstract!Next
  <2> QED
    BY <1>4, <2>2, <2>3, ReceiveForward
<1>5. ASSUME NEW s \in Subscriber, NEW m \in net[s], Deliver(s, m) \/ Lose(s, m)
      PROVE  ForwardInv' /\ [Abstract!Next]_(Abstract!vars)
  <2>1. \A q \in Subscriber :
          /\ net'[q] \subseteq net[q]
          /\ handling'[q] \subseteq handling[q] \cup net[q]
    <3>1. CASE Deliver(s, m)
      BY ONLY <3>1, TypeOK, m \in net[s], s \in Subscriber DEF Deliver, TypeOK
    <3>2. CASE Lose(s, m)
      BY ONLY <3>2, TypeOK DEF Lose, TypeOK, recvVars
    <3> QED
      BY <1>5, <3>1, <3>2
  <2>2. UNCHANGED <<pubVars, call, wanted, recvSeq, queue, view, applied>>
    BY <1>5 DEF Deliver, Lose, recvVars
  <2> QED
    BY <1>1, <2>1, <2>2 DEF pubVars
<1>6. ASSUME NEW s \in Subscriber, Unsubscribe(s)
      PROVE  FALSE
  BY <1>6 DEF Unsubscribe
<1>7. ASSUME NEW s \in Subscriber, NEW t \in Thread, Serving(s, t)
      PROVE  ForwardInv' /\ [Abstract!Next]_(Abstract!vars)
  <2>1. Serve(s, t)
    BY <1>0, <1>7 DEF Serving, ServeFirst, ServeLazy, ServeFails
  <2>2. /\ call[s][t].phase = "wait"
        /\ call'[s][t].phase = "reply" /\ call'[s][t].seq = sendSeq
        /\ \A q \in Subscriber, u \in Thread :
             <<q, u>> # <<s, t>> => call'[q][u] = call[q][u]
        /\ UNCHANGED <<pubVars, net, wanted, recvVars>>
    BY <2>1 DEF Serve, Reply, TypeOK
  <2>3. applied[s] <= sendSeq
    BY <1>0 DEF Unset
  <2> QED
    BY <1>1, <2>2, <2>3 DEF pubVars, recvVars
<1>8. ASSUME NEW s \in Subscriber, NEW t \in Thread,
             Subscribe(s, t) \/ CheckResub(s, t)
      PROVE  ForwardInv' /\ [Abstract!Next]_(Abstract!vars)
  <2>1. /\ Free(s)
        /\ call'[s][t].phase = "wait"
        /\ \A q \in Subscriber, u \in Thread :
             <<q, u>> # <<s, t>> => call'[q][u] = call[q][u]
        /\ UNCHANGED <<pubVars, net, handling, view, applied>>
    BY <1>8 DEF Subscribe, CheckResub, Waiting, TypeOK, recvVars
  <2>2. recvSeq'[s] = Unset
    BY <1>8 DEF Subscribe, CheckResub, Forget, TypeOK, recvVars, Untouched
  <2>3. \A q \in Subscriber : /\ recvSeq'[q] \in {recvSeq[q], Unset}
                              /\ queue'[q] \subseteq queue[q]
    BY <1>8 DEF Subscribe, CheckResub, Forget, TypeOK, recvVars
  <2> QED
    BY <1>1, <2>1, <2>2, <2>3 DEF pubVars, Free
<1>9. ASSUME NEW s \in Subscriber, NEW t \in Thread, Return(s, t)
      PROVE  ForwardInv' /\ [Abstract!Next]_(Abstract!vars)
  <2>1. /\ call[s][t].phase = "reply"
        /\ \A u \in Thread : call'[s][u].phase = "idle"
        /\ \A q \in Subscriber \ {s} : /\ call'[q] = call[q]
                                       /\ handling'[q] = handling[q]
        /\ handling'[s] = {Snapshot(call[s][t].seq, call[s][t].data, t)}
        /\ UNCHANGED <<pubVars, net, wanted, recvSeq, queue, view, applied>>
    BY <1>9 DEF Return, NoCall, TypeOK
  <2>2. recvSeq[s] = Unset /\ applied[s] <= call[s][t].seq
    BY <2>1
  <2> QED
    BY <1>1, <2>1, <2>2 DEF pubVars, Snapshot
<1>10. ASSUME NEW s \in Subscriber, NEW t \in Thread, Timeout(s, t)
       PROVE  ForwardInv' /\ [Abstract!Next]_(Abstract!vars)
  <2>1. /\ \A q \in Subscriber, u \in Thread :
             call'[q][u] = call[q][u] \/ call'[q][u].phase = "idle"
        /\ UNCHANGED <<pubVars, net, wanted, recvVars>>
    BY <1>10 DEF Timeout, NoCall, TypeOK
  <2> QED
    BY <1>1, <2>1 DEF pubVars, recvVars
<1>11. CASE UNCHANGED vars
  BY <1>1, <1>11 DEF vars, pubVars, recvVars
<1>12. ASSUME NEW d \in Table, Push(d) \/ Fetched(d)
       PROVE  FALSE
  BY <1>0, <1>12 DEF Push, Fetched
<1> QED
  BY <1>2, <1>3, <1>4, <1>5, <1>6, <1>7, <1>8, <1>9, <1>10, <1>11, <1>12 DEF Next

\* Seen by its data alone the protocol is a VersionedTable: whatever is lost,
\* overtaken or fetched again, a subscriber that stays subscribed and does not
\* run two subscribe() calls at once only moves forward through whole versions
\* that the publisher made.
THEOREM Refinement ==
  ASSUME Kind = "poll", Warm = TRUE, Steady = TRUE, MaxRestarts = 0,
         \A t, u \in Thread : t = u
  PROVE  Spec => ImplementsVersionedTable
<1>1. Init => ConsistencyInv
  BY ConsistencyInit
<1>2. Init => Untouched /\ ForwardInv
  BY DEF Init, Untouched, ForwardInv, NoSnapshotsCast, AppliedKept, AnswersForward,
         CallsForward, NoCall
<1>3. Init => Abstract!Init
  <2> SUFFICES ASSUME Init PROVE Abstract!Init
    OBVIOUS
  <2>1. /\ sendSeq = 1
        /\ lastPub \in Table
        /\ version = [n \in Seqnum |-> IF n = 1 THEN lastPub ELSE NoData]
    BY Zenon DEF Init
  <2> QED
    BY <2>1 DEF Init, Abstract!Init, Table, Seqnum, Unset
<1>4. TypeOK /\ ConsistencyInv /\ [Next]_vars => ConsistencyInv'
  BY ConsistencyStep
<1>5. TypeOK /\ ConsistencyInv /\ Untouched /\ ForwardInv /\ [Next]_vars
        => ForwardInv' /\ [Abstract!Next]_(Abstract!vars)
  BY RefinementStep
<1>6. TypeOK /\ Untouched /\ [Next]_vars => Untouched'
  BY UntouchedStep
<1> QED
  BY <1>1, <1>2, <1>3, <1>4, <1>5, <1>6, TypeCorrect, PTL
     DEF Spec, ImplementsVersionedTable, Abstract!Spec
===========================================================================
