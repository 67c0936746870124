---------------------------- MODULE DataService ----------------------------
(***************************************************************************)
(* Sequenced publish/subscribe of ONE table between one publishing         *)
(* DataService and its subscribers (congress/dse2/data_service.py, with    *)
(* the node's part of it in congress/dse2/dse_node.py).                    *)
(*                                                                         *)
(* The publisher numbers its publications and casts them to every node;    *)
(* casts may be reordered and, if Lossy, lost.  A subscriber asks for the  *)
(* current contents with a blocking RPC while casts keep arriving, queues  *)
(* what it cannot apply yet, and resubscribes when a queued update has     *)
(* waited too long.  Queues and sequence numbers are kept per (publisher,  *)
(* table), so tables do not interact and one table is the general case.    *)
(*                                                                         *)
(* receive_data_sequenced calls itself for every queued message it pops.   *)
(* Each of those calls is one step here: `handling' holds the argument of  *)
(* the call in progress, and no other step of that subscriber is possible  *)
(* until it is empty, because green threads switch only at blocking calls  *)
(* and the handler has none.                                               *)
(***************************************************************************)
EXTENDS Integers

CONSTANTS
  Subscriber,   \* subscribing services, each on a node of its own
  Thread,       \* green threads of a subscriber that may block in subscribe()
  Row,          \* rows the table may hold; a table is a set of rows
  NoData,       \* _last_published_data has no entry for the table
  Cast,         \* origin of a message that was cast, not returned by an RPC
  Kind,         \* "poll": publishes differences; "push": full tables;
                \* "lazy": as "poll", but fetched only once asked for
  Warm,         \* TRUE: seqnum 0 was published and delivered to nobody
                \* before the first subscriber's node came up
  Steady,       \* TRUE: a table that is wanted stays wanted
  Lossy,        \* TRUE: casts may be lost and RPCs may time out
  MaxSeq,       \* bound on the sender's sequence number
  MaxRestarts   \* bound on restarts of the publishing service

ASSUME KindAssumption == Kind \in {"poll", "push", "lazy"}
ASSUME FlagAssumption == {Warm, Steady, Lossy} \subseteq BOOLEAN
ASSUME BoundAssumption == MaxSeq \in Nat \ {0} /\ MaxRestarts \in Nat
ASSUME NoDataAssumption == \A d \in SUBSET Row : d # NoData
ASSUME CastAssumption == Cast \notin Thread

VARIABLES
  \* publisher
  sendSeq,      \* sender_seqnums[table], Unset when there is no entry
  lastPub,      \* _last_published_data[table], NoData when there is no entry
  fetching,     \* an RPC handler is blocked in get_snapshot of a lazy table
  restarts,     \* how often the publishing service was restarted
  version,      \* history: what the publisher made the contents at a seqnum
  \* messages
  net,          \* casts on their way to each subscriber
  call,         \* the subscribe() RPC each green thread is blocked in
  \* subscriber
  wanted,       \* the service wants the table (a rule mentions it)
  subscribed,   \* the service is in node.subscriptions[publisher][table]
  recvSeq,      \* receiver_seqnums[publisher][table], or Unset
  queue,        \* msg_queues[publisher][table]
  oldest,       \* oldest_queue_times[publisher][table]
  handling,     \* argument of the receive_data_sequenced call in progress
  view,         \* the contents receive_data has built up
  applied       \* history: the seqnum of the last data applied to view

pubVars == <<sendSeq, lastPub, fetching, restarts, version>>
recvVars == <<recvSeq, queue, oldest, handling, view, applied>>
vars == <<pubVars, net, call, wanted, subscribed, recvVars>>

Unset == -1
Table == SUBSET Row
Seqnum == 0 .. MaxSeq

(***************************************************************************)
(* A publication: a full table (snap, contents in add) or a difference.    *)
(***************************************************************************)
Message == [seq : Seqnum, snap : BOOLEAN, add : Table, del : Table,
            src : Thread \cup {Cast}]

\* Mutant: the number is taken before it is incremented.
SnapshotMutant(n, d, src) ==
  [seq |-> n - 1, snap |-> TRUE, add |-> d, del |-> {}, src |-> src]

Snapshot(n, d, src) ==
  [seq |-> n, snap |-> TRUE, add |-> d, del |-> {}, src |-> src]

(***************************************************************************)
(* The state of one subscribe() RPC.  "wait": the request has not been     *)
(* served; "fetch": its handler is blocked in get_snapshot; "reply": the   *)
(* answer is on its way back.                                              *)
(***************************************************************************)
Call == [phase : {"idle", "wait", "fetch"}, seq : {Unset}, data : {{}}]
          \cup [phase : {"reply"}, seq : Seqnum, data : Table]
NoCall == [phase |-> "idle", seq |-> Unset, data |-> {}]
Waiting == [phase |-> "wait", seq |-> Unset, data |-> {}]
Fetching == [phase |-> "fetch", seq |-> Unset, data |-> {}]
Reply(n, d) == [phase |-> "reply", seq |-> n, data |-> d]

TypeOK ==
  /\ sendSeq \in Seqnum \cup {Unset}
  /\ lastPub \in {NoData} \cup Table
  /\ fetching \in BOOLEAN
  /\ fetching => sendSeq # Unset
  /\ restarts \in 0 .. MaxRestarts
  /\ version \in [Seqnum -> {NoData} \cup Table]
  /\ net \in [Subscriber -> SUBSET Message]
  /\ call \in [Subscriber -> [Thread -> Call]]
  /\ wanted \in [Subscriber -> BOOLEAN]
  /\ subscribed \in [Subscriber -> BOOLEAN]
  /\ recvSeq \in [Subscriber -> Seqnum \cup {Unset}]
  /\ queue \in [Subscriber -> SUBSET Message]
  /\ oldest \in [Subscriber -> {"absent", "none", "set"}]
  /\ handling \in [Subscriber -> SUBSET Message]
  /\ view \in [Subscriber -> Table]
  /\ applied \in [Subscriber -> Seqnum \cup {Unset}]

Init ==
  /\ \/ /\ ~Warm
        /\ sendSeq = Unset
        /\ lastPub = NoData
        /\ version = [n \in Seqnum |-> NoData]
     \/ /\ Warm
        /\ sendSeq = 1
        /\ lastPub \in Table
        /\ version = [n \in Seqnum |-> IF n = 1 THEN lastPub ELSE NoData]
  /\ fetching = FALSE
  /\ restarts = 0
  /\ net = [s \in Subscriber |-> {}]
  /\ call = [s \in Subscriber |-> [t \in Thread |-> NoCall]]
  /\ wanted = [s \in Subscriber |-> FALSE]
  /\ subscribed = [s \in Subscriber |-> FALSE]
  /\ recvSeq = [s \in Subscriber |-> Unset]
  /\ queue = [s \in Subscriber |-> {}]
  /\ oldest = [s \in Subscriber |-> "absent"]
  /\ handling = [s \in Subscriber |-> {}]
  /\ view = [s \in Subscriber |-> {}]
  /\ applied = [s \in Subscriber |-> Unset]

----------------------------------------------------------------------------
(***************************************************************************)
(* The publisher.                                                          *)
(***************************************************************************)

\* increment_get_seqnum: 0 on the first publication, then one more each time.
NextSeq == IF sendSeq = Unset THEN 0 ELSE sendSeq + 1

\* publish_table_sequenced: a fanout cast, one copy for each node.
Broadcast(m) == net' = [s \in Subscriber |-> net[s] \cup {m}]

\* poll() of a driver that fetched contents d: publish the difference to the
\* last published contents; an empty difference is not published.  A lazy
\* table is polled once a get_snapshot has registered its translator.
Poll(d) ==
  LET base == IF lastPub = NoData THEN {} ELSE lastPub
      m == [seq |-> NextSeq, snap |-> FALSE, add |-> d \ base,
            del |-> base \ d, src |-> Cast]
  IN /\ Kind \in {"poll", "lazy"}
     /\ Kind = "lazy" => sendSeq # Unset
     /\ lastPub' = d
     /\ IF d = base
          THEN UNCHANGED <<sendSeq, version, net>>
          ELSE /\ NextSeq <= MaxSeq
               /\ sendSeq' = NextSeq
               /\ version' = [version EXCEPT ![NextSeq] = d]
               /\ Broadcast(m)
     /\ UNCHANGED <<fetching, restarts, call, wanted, subscribed, recvVars>>

\* publish() with use_snapshot=True (pushed tables, policy results): the full
\* table is cast; _last_published_data is not touched.
Push(d) ==
  /\ Kind = "push"
  /\ NextSeq <= MaxSeq
  /\ sendSeq' = NextSeq
  /\ version' = [version EXCEPT ![NextSeq] = d]
  /\ Broadcast(Snapshot(NextSeq, d, Cast))
  /\ UNCHANGED <<lastPub, fetching, restarts, call, wanted, subscribed,
                 recvVars>>

\* get_last_published_data_with_seqnum, when an entry has to be made first
\* and get_snapshot does not block.  It may return contents d that a poll in
\* progress has fetched and not published yet.
ServeFirst(s, t, d) ==
  /\ call[s][t].phase = "wait"
  /\ sendSeq = Unset
  /\ Kind # "lazy"
  /\ sendSeq' = 0
  /\ lastPub' = d
  /\ version' = [version EXCEPT ![0] = d]
  /\ call' = [call EXCEPT ![s][t] = Reply(0, d)]
  /\ UNCHANGED <<fetching, restarts, net, wanted, subscribed, recvVars>>

\* The same for a lazy table: the sequence number is entered, then
\* get_snapshot registers the translator and blocks in the fetch.
ServeLazy(s, t) ==
  /\ call[s][t].phase = "wait"
  /\ sendSeq = Unset
  /\ Kind = "lazy"
  /\ sendSeq' = 0
  /\ fetching' = TRUE
  /\ call' = [call EXCEPT ![s][t] = Fetching]
  /\ UNCHANGED <<lastPub, restarts, version, net, wanted, subscribed,
                 recvVars>>

\* Mutant: the answer carries the sequence number read before the fetch.
FetchedMutant(d) ==
  /\ fetching
  /\ fetching' = FALSE
  /\ lastPub' = d
  /\ version' = [version EXCEPT ![sendSeq] = d]
  /\ call' = [s \in Subscriber |-> [t \in Thread |->
                IF call[s][t].phase = "fetch" THEN Reply(0, d)
                                              ELSE call[s][t]]]
  /\ UNCHANGED <<sendSeq, restarts, net, wanted, subscribed, recvVars>>

\* The fetch of a lazy table returns d: the entry is made and the call
\* answered with the sequence number of now, not of when it was served.
Fetched(d) ==
  /\ fetching
  /\ fetching' = FALSE
  /\ lastPub' = d
  /\ version' = [version EXCEPT ![sendSeq] = d]
  /\ call' = [s \in Subscriber |-> [t \in Thread |->
                IF call[s][t].phase = "fetch" THEN Reply(sendSeq, d)
                                              ELSE call[s][t]]]
  /\ UNCHANGED <<sendSeq, restarts, net, wanted, subscribed, recvVars>>

\* get_last_published_data_with_seqnum, when the entries exist.
Serve(s, t) ==
  /\ call[s][t].phase = "wait"
  /\ sendSeq # Unset
  /\ lastPub # NoData
  /\ call' = [call EXCEPT ![s][t] = Reply(sendSeq, lastPub)]
  /\ UNCHANGED <<pubVars, net, wanted, subscribed, recvVars>>

\* A sequence number without contents: the KeyError reaches the caller as a
\* remote error, which subscribe() lets through.
ServeFails(s, t) ==
  /\ call[s][t].phase = "wait"
  /\ sendSeq # Unset
  /\ lastPub = NoData
  /\ call' = [call EXCEPT ![s][t] = NoCall]
  /\ UNCHANGED <<pubVars, net, wanted, subscribed, recvVars>>

\* The publishing service is replaced by a new instance: its numbering, its
\* last contents and any handler in progress are gone.
Restart ==
  /\ restarts < MaxRestarts
  /\ restarts' = restarts + 1
  /\ sendSeq' = Unset
  /\ lastPub' = NoData
  /\ fetching' = FALSE
  /\ version' = [n \in Seqnum |-> NoData]
  /\ UNCHANGED <<net, call, wanted, subscribed, recvVars>>

----------------------------------------------------------------------------
(***************************************************************************)
(* The subscriber: subscriptions.                                          *)
(***************************************************************************)

\* No receive_data_sequenced call is in progress.
Free(s) == handling[s] = {}

\* _clear_msg_queue and _clear_receiver_seqnum.
Forget(s) ==
  /\ queue' = [queue EXCEPT ![s] = {}]
  /\ oldest' = [oldest EXCEPT ![s] = "absent"]
  /\ recvSeq' = [recvSeq EXCEPT ![s] = Unset]

\* subscribe(), up to its RPC: the node records the subscriber first.
Subscribe(s, t) ==
  /\ Free(s)
  /\ ~wanted[s]
  /\ call[s][t].phase = "idle"
  /\ wanted' = [wanted EXCEPT ![s] = TRUE]
  /\ subscribed' = [subscribed EXCEPT ![s] = TRUE]
  /\ call' = [call EXCEPT ![s][t] = Waiting]
  /\ UNCHANGED <<pubVars, net, recvVars>>

\* unsubscribe(); it does not wait for a subscribe() that is under way.
Unsubscribe(s) ==
  /\ ~Steady
  /\ Free(s)
  /\ wanted[s]
  /\ wanted' = [wanted EXCEPT ![s] = FALSE]
  /\ subscribed' = [subscribed EXCEPT ![s] = FALSE]
  /\ Forget(s)
  /\ UNCHANGED <<pubVars, net, call, handling, view, applied>>

\* check_resub_all finds an entry older than time_to_resub: unsubscribe(),
\* then subscribe().  Any entry becomes that old, so age is not modelled.
CheckResub(s, t) ==
  /\ Free(s)
  /\ oldest[s] = "set"
  /\ call[s][t].phase = "idle"
  /\ Forget(s)
  /\ subscribed' = [subscribed EXCEPT ![s] = TRUE]
  /\ call' = [call EXCEPT ![s][t] = Waiting]
  /\ UNCHANGED <<pubVars, net, wanted, handling, view, applied>>

\* The RPC returns: subscribe() passes the answer on as a snapshot, whether
\* or not the service is still subscribed.
Return(s, t) ==
  /\ Free(s)
  /\ call[s][t].phase = "reply"
  /\ handling' = [handling EXCEPT ![s] =
                    {Snapshot(call[s][t].seq, call[s][t].data, t)}]
  /\ call' = [call EXCEPT ![s][t] = NoCall]
  /\ UNCHANGED <<pubVars, net, wanted, subscribed, recvSeq, queue, oldest,
                 view, applied>>

\* The RPC times out, served or not: invoke_service_rpc raises NotFound and
\* subscribe() leaves the table subscribed without data.
Timeout(s, t) ==
  /\ Lossy
  /\ call[s][t].phase # "idle"
  /\ call' = [call EXCEPT ![s][t] = NoCall]
  /\ UNCHANGED <<pubVars, net, wanted, subscribed, recvVars>>

----------------------------------------------------------------------------
(***************************************************************************)
(* The subscriber: messages.                                               *)
(***************************************************************************)

\* handle_publish_sequenced: forwarded to the services subscribed now.
Deliver(s, m) ==
  /\ Free(s)
  /\ m \in net[s]
  /\ net' = [net EXCEPT ![s] = @ \ {m}]
  /\ handling' = [handling EXCEPT ![s] = IF subscribed[s] THEN {m} ELSE {}]
  /\ UNCHANGED <<pubVars, call, wanted, subscribed, recvSeq, queue, oldest,
                 view, applied>>

Lose(s, m) ==
  /\ Lossy
  /\ m \in net[s]
  /\ net' = [net EXCEPT ![s] = @ \ {m}]
  /\ UNCHANGED <<pubVars, call, wanted, subscribed, recvVars>>

\* The priority queue's order on (seqnum, is_snapshot, ...).
NotAfter(m, n) == \/ m.seq < n.seq
                  \/ m.seq = n.seq /\ (n.snap \/ ~m.snap)

\* process_queued_msg: pop the first message, set the oldest time from what
\* is left, and handle the message; with nothing queued the handler is done.
ProcessQueued(s) ==
  \/ /\ queue[s] = {}
     /\ handling' = [handling EXCEPT ![s] = {}]
     /\ UNCHANGED <<queue, oldest>>
  \/ \E m \in queue[s] :
       /\ \A n \in queue[s] : NotAfter(m, n)
       /\ queue' = [queue EXCEPT ![s] = @ \ {m}]
       /\ oldest' = [oldest EXCEPT ![s] =
                       IF queue[s] = {m} THEN "none" ELSE "set"]
       /\ handling' = [handling EXCEPT ![s] = {m}]

\* add_to_msg_queue: the oldest time is set with the first message ever put
\* into this queue.
Enqueue(s, m) ==
  /\ queue' = [queue EXCEPT ![s] = @ \cup {m}]
  /\ oldest' = [oldest EXCEPT ![s] = IF @ = "absent" THEN "set" ELSE @]
  /\ handling' = [handling EXCEPT ![s] = {}]
  /\ UNCHANGED <<recvSeq, view, applied>>

\* set_seqnum and receive_data.  The number is set first: were receive_data to raise,
\* as an engine's does for an update it refuses, the data would be lost and the queue
\* not looked at.  Here it does not raise.
Apply(s, m) ==
  /\ recvSeq' = [recvSeq EXCEPT ![s] = m.seq]
  /\ view' = [view EXCEPT ![s] = IF m.snap THEN m.add
                                 ELSE (@ \ m.del) \cup m.add]
  /\ applied' = [applied EXCEPT ![s] = m.seq]

\* Mutant: the first data is applied even if it is a difference.
ReceiveFirstAnything(s, m) ==
  recvSeq[s] = Unset /\ Apply(s, m) /\ ProcessQueued(s)

\* Mutant: a difference that arrives before the snapshot is dropped.
ReceiveFirstDrops(s, m) ==
  /\ recvSeq[s] = Unset
  /\ \/ m.snap /\ Apply(s, m) /\ ProcessQueued(s)
     \/ /\ ~m.snap
        /\ handling' = [handling EXCEPT ![s] = {}]
        /\ UNCHANGED <<queue, oldest, recvSeq, view, applied>>

\* The branches of receive_data_sequenced, in the order it tests them.
ReceiveFirst(s, m) ==
  /\ recvSeq[s] = Unset
  /\ \/ m.snap /\ Apply(s, m) /\ ProcessQueued(s)
     \/ ~m.snap /\ Enqueue(s, m)

ReceiveReset(s, m) ==
  /\ recvSeq[s] # Unset
  /\ m.seq = 0
  /\ Apply(s, m)
  /\ queue' = [queue EXCEPT ![s] = {}]
  /\ oldest' = [oldest EXCEPT ![s] = "absent"]
  /\ handling' = [handling EXCEPT ![s] = {}]

ReceiveOld(s, m) ==
  /\ recvSeq[s] # Unset
  /\ 0 < m.seq /\ m.seq <= recvSeq[s]
  /\ ProcessQueued(s)
  /\ UNCHANGED <<recvSeq, view, applied>>

\* Mutant: messages queued behind the one that was missing are not looked at.
ReceiveNextNoDrain(s, m) ==
  /\ recvSeq[s] # Unset
  /\ m.seq = recvSeq[s] + 1
  /\ Apply(s, m)
  /\ handling' = [handling EXCEPT ![s] = {}]
  /\ UNCHANGED <<queue, oldest>>

\* Mutant: an old message is applied like the next one.
ReceiveNextOrOld(s, m) ==
  /\ recvSeq[s] # Unset
  /\ m.seq <= recvSeq[s] + 1
  /\ Apply(s, m)
  /\ ProcessQueued(s)

ReceiveNext(s, m) ==
  /\ recvSeq[s] # Unset
  /\ m.seq = recvSeq[s] + 1
  /\ Apply(s, m)
  /\ ProcessQueued(s)

ReceiveFuture(s, m) ==
  /\ recvSeq[s] # Unset
  /\ m.seq > recvSeq[s] + 1
  /\ Enqueue(s, m)

Receive(s) ==
  \E m \in handling[s] :
    /\ \/ ReceiveFirst(s, m)
       \/ ReceiveReset(s, m)
       \/ ReceiveOld(s, m)
       \/ ReceiveNext(s, m)
       \/ ReceiveFuture(s, m)
    /\ UNCHANGED <<pubVars, net, call, wanted, subscribed>>

----------------------------------------------------------------------------
Serving(s, t) ==
  \/ \E d \in Table : ServeFirst(s, t, d)
  \/ ServeLazy(s, t)
  \/ Serve(s, t)
  \/ ServeFails(s, t)

Next ==
  \/ \E d \in Table : Poll(d) \/ Push(d) \/ Fetched(d)
  \/ Restart
  \/ \E s \in Subscriber :
       \/ Unsubscribe(s)
       \/ Receive(s)
       \/ \E m \in net[s] : Deliver(s, m) \/ Lose(s, m)
       \/ \E t \in Thread : \/ Serving(s, t)
                            \/ Subscribe(s, t)
                            \/ CheckResub(s, t)
                            \/ Return(s, t)
                            \/ Timeout(s, t)

Spec == Init /\ [][Next]_vars

(***************************************************************************)
(* Handlers run to completion, a cast that is neither lost nor stuck       *)
(* behind a handler is delivered, RPCs are served and answered, and        *)
(* check_resub_all is called periodically.  Nothing makes the data change  *)
(* or a service subscribe.                                                 *)
(***************************************************************************)
Fairness ==
  /\ WF_vars(\E d \in Table : Fetched(d))
  /\ \A s \in Subscriber :
       /\ WF_vars(Receive(s))
       /\ WF_vars(\E m \in net[s] : Deliver(s, m))
       /\ \A t \in Thread : /\ WF_vars(Serving(s, t))
                            /\ WF_vars(Return(s, t))
                            /\ WF_vars(CheckResub(s, t))

FairSpec == Spec /\ Fairness

----------------------------------------------------------------------------
(***************************************************************************)
(* Properties.                                                             *)
(***************************************************************************)

\* When no handler runs, everything queued lies beyond a gap: the queue never
\* keeps a message back that could be applied or is already covered
\* (process_queued_msg is called wherever the seqnum may have moved).
QueueBeyondGap ==
  \A s \in Subscriber :
    Free(s) /\ recvSeq[s] # Unset =>
      \A m \in queue[s] : m.seq > recvSeq[s] + 1

\* The contents a subscriber has built up, from snapshots and differences
\* that overtook each other, are exactly what the publisher had at the
\* subscriber's sequence number.
Consistent ==
  \A s \in Subscriber : recvSeq[s] # Unset => view[s] = version[recvSeq[s]]

\* Seen by its data alone, a warm table is a VersionedTable: publications
\* make versions, and whatever the handlers, the queue and the resubscriptions
\* do, a subscriber only moves forward through whole versions.
Abstract == INSTANCE VersionedTable WITH
  Reader <- Subscriber, First <- 1, Last <- MaxSeq,
  latest <- sendSeq, content <- version, at <- applied, copy <- view

ImplementsVersionedTable == Abstract!Spec

\* check_resub_all never brings back a subscription its service gave up.
SubscribedOnlyIfWanted ==
  \A s \in Subscriber : subscribed[s] => wanted[s]

\* A subscriber that stays subscribed ends up with the contents the publisher
\* published last, once they stop changing.
Converges ==
  \A s \in Subscriber :
    <>[]wanted[s] => <>[](lastPub # NoData => view[s] = lastPub)

\* Seqnum 0 re-initializes the table ("initial snapshot or reset"): while the
\* publisher is at seqnum 0, a subscriber at seqnum 0 has its contents.
ResetReplaces ==
  \A s \in Subscriber :
    Free(s) /\ recvSeq[s] = 0 /\ sendSeq = 0 => view[s] = version[0]

\* A message that waits behind a gap does not wait forever: the missing
\* update arrives, or check_resub_all resubscribes.
NothingWaitsForever ==
  \A s \in Subscriber : queue[s] # {} ~> (queue[s] = {} \/ ~wanted[s])
=============================================================================
