----------------------------- MODULE MongoStore -----------------------------
(***************************************************************************)
(* The message store of a session that is backed by MongoDB                *)
(* (store/mqtt_msg_store.c:86-335, db/mqtt_db.c:10-97).  A few messages    *)
(* are kept in the sending queue of the memory store; the next ones go to  *)
(* a buffer, and a full buffer is written to the database by a task of the *)
(* thread pool.  When the sending queue is empty, the oldest messages are  *)
(* fetched back.  A task reports by a mail to the session's IO thread,     *)
(* which does everything else here.                                        *)
(*                                                                         *)
(* The session is open, its client acknowledges in the order in which it   *)
(* receives.  MongoDB is external; an insert or a query may fail.          *)
(***************************************************************************)
EXTENDS MemoryStore, FiniteSets

CONSTANTS trigger,      \* the size at which messages are written away
          Limit,        \* the most a fetch returns (50)
          MaxMessages,  \* bound: messages published to the session
          MaxFaults     \* bound: failures of the database

ASSUME MongoAssumption == trigger \in Nat /\ Limit \in Nat \ {0}

VARIABLES store,        \* the session's store
          task,         \* the task handed to the thread pool, or its receipt
          db,           \* the session's documents, by store_timestamp
          due,          \* acknowledgements the client still sends
          published,    \* history: number of messages published
          sent,         \* history: the messages sent
          lost,         \* history: messages a failed insert or fetch_message_done dropped
          faults        \* history: failures so far

mongoVars == <<store, task, db, due, published, sent, lost, faults>>

NoTask == [op |-> "none", packets |-> <<>>]

EmptyMongoStore ==
  [mem |-> EmptyStore, total_size |-> 0, buffer |-> <<>>, states |-> {}]

Set(m, flag) == [m EXCEPT !.states = @ \cup {flag}]
Clear(m, flag) == [m EXCEPT !.states = @ \ {flag}]
Busy(m) == m.states \cap {"FETCHING", "STORING"} # {}

\* What an operation leaves: the store, the packets it sends, the task it starts.
Outcome(m, sends, job) == [store |-> m, sends |-> sends, task |-> job]

-----------------------------------------------------------------------------
\* initiate_storing_task, initiate_fetching_task.
InitiateStoring(m, sends) ==
  Outcome([m EXCEPT !.states = (@ \ {"NEED_STORE"}) \cup {"STORING", "STORED"},
                    !.total_size = @ - Len(m.buffer), !.buffer = <<>>],
          sends, [op |-> "store", packets |-> m.buffer])
InitiateFetching(m, sends) ==
  Outcome([m EXCEPT !.states = (@ \ {"NEED_FETCH"}) \cup {"FETCHING"}],
          sends, [op |-> "fetch", packets |-> <<>>])

\* continue_send_messages on a sending queue that is replaced by packets.
ContinueSend(m, packets) ==
  LET room == IF m.mem.inflight < inflight_window_size
              THEN inflight_window_size - m.mem.inflight ELSE 0
      n == IF Len(packets) < room THEN Len(packets) ELSE room
  IN [store |-> [m EXCEPT !.mem = [queue |-> packets, inflight |-> @.inflight + n,
                                   pending |-> IF n < Len(packets) THEN n + 1 ELSE 0]],
      sends |-> SubSeq(packets, 1, n)]

\* use_buffered_messages, then continue_send_messages.
UseBuffered(m) ==
  ContinueSend([m EXCEPT !.buffer = <<>>, !.states = @ \ {"BUFFERED"}], m.buffer)

\* mongodb_store_store_message.  Mutant: it does not see that older messages are
\* buffered.
RoomIgnoresBuffer(m, pkt) == m.total_size < trigger \div 2 \/ pkt.type = "PUBREL"
RoomInQueue(m, pkt) ==
  \/ m.total_size < trigger \div 2 /\ "BUFFERED" \notin m.states
  \/ pkt.type = "PUBREL"

MongoStoreMessage(m, pkt) ==
  IF RoomInQueue(m, pkt)
  THEN Outcome([m EXCEPT !.mem = StoreMessage(@, pkt), !.total_size = @ + 1],
               IF SendNow(m.mem) THEN <<pkt>> ELSE <<>>, NoTask)
  ELSE LET b == Set([m EXCEPT !.total_size = @ + 1, !.buffer = Append(@, pkt)], "BUFFERED")
       IN CASE b.total_size < trigger -> Outcome(b, <<>>, NoTask)
            [] b.total_size >= trigger /\ Busy(b) -> Outcome(Set(b, "NEED_STORE"), <<>>, NoTask)
            [] b.total_size >= trigger /\ ~ Busy(b) -> InitiateStoring(b, <<>>)

\* mongodb_store_acknowledge and the sending of what it returns.
MongoAcknowledge(m, id, type, qos) ==
  LET valid == Acknowledged(m.mem, id, type, qos) # {}
      next == NextToSend(m.mem, id, type, qos)
      a == [m EXCEPT !.mem = Acknowledge(@, id, type, qos),
                     !.total_size = IF valid THEN @ - 1 ELSE @]
      used == UseBuffered(a)
  IN CASE a.total_size # Len(a.buffer) \/ "BUFFERED" \notin a.states -> Outcome(a, next, NoTask)
       [] OTHER ->
            IF "STORED" \notin a.states THEN Outcome(used.store, used.sends \o next, NoTask)
            ELSE IF Busy(a) THEN Outcome(Set(a, "NEED_FETCH"), next, NoTask)
            ELSE InitiateFetching(a, next)

\* What store_message_done and fetch_message_done do in the end.  Mutant: the
\* request for a fetch, made while the task ran, is forgotten.
ThenNextStore(m, sends) ==
  IF "NEED_STORE" \in m.states /\ m.buffer # <<>> THEN InitiateStoring(m, sends)
  ELSE Outcome(Clear(m, "NEED_STORE"), sends, NoTask)
ThenNext(m, sends) ==
  CASE "NEED_STORE" \in m.states ->
         IF m.buffer # <<>> THEN InitiateStoring(m, sends)
         ELSE Outcome(Clear(m, "NEED_STORE"), sends, NoTask)
    [] "NEED_STORE" \notin m.states /\ "NEED_FETCH" \in m.states -> InitiateFetching(m, sends)
    [] OTHER -> Outcome(m, sends, NoTask)

StoreMessageDone(m) ==
  LET c == Clear(m, "STORING")
  IN IF "NEED_STORE" \in c.states THEN InitiateStoring(c, <<>>) ELSE ThenNext(c, <<>>)

FetchMessageDone(m, packets) ==
  LET c == Clear(m, "FETCHING")
      empty == Clear(c, "STORED")
      got == IF packets # <<>>
             THEN ContinueSend([c EXCEPT !.total_size = @ + Len(packets)], packets)
             ELSE IF c.buffer # <<>> THEN UseBuffered(empty)
             ELSE [store |-> Clear(empty, "BUFFERED"), sends |-> <<>>]
  IN ThenNext(got.store, got.sends)

\* The sending queue that fetch_message_done replaces.
Replaced(m, packets) ==
  IF packets # <<>> \/ m.buffer # <<>> THEN m.mem.queue ELSE <<>>

-----------------------------------------------------------------------------
Packet(type, id, qos) == [type |-> type, packet_id |-> id, qos |-> qos]

\* The acknowledgement a packet calls for.
AckOf(pkt) ==
  [ack |-> IF pkt.type = "PUBREL" THEN "PUBCOMP"
           ELSE IF pkt.qos = 1 THEN "PUBACK" ELSE "PUBREC",
   packet_id |-> pkt.packet_id]

Acks(packets) == [i \in DOMAIN packets |-> AckOf(packets[i])]

\* The messages among packets.
Messages(packets) ==
  LET upTo[i \in 0 .. Len(packets)] ==
        IF i = 0 THEN <<>>
        ELSE IF packets[i].type = "PUBLISH" THEN Append(upTo[i - 1], packets[i])
        ELSE upTo[i - 1]
  IN upTo[Len(packets)]

\* An operation takes effect: what it sends is sent, what it starts is handed to
\* the thread pool, whose task is idle otherwise.
Apply(o, acks, idle) ==
  /\ store' = o.store
  /\ due' = acks \o Acks(o.sends)
  /\ sent' = sent \o Messages(o.sends)
  /\ task' = IF o.task = NoTask THEN idle ELSE o.task

Init ==
  /\ store = EmptyMongoStore /\ task = NoTask /\ db = <<>> /\ due = <<>>
  /\ published = 0 /\ sent = <<>> /\ lost = {} /\ faults = 0

\* tmq_session_publish with QoS 1 or 2.
Publish(qos) ==
  /\ published < MaxMessages
  /\ published' = published + 1
  /\ Apply(MongoStoreMessage(store, Packet("PUBLISH", published', qos)), due, task)
  /\ UNCHANGED <<db, lost, faults>>

\* tmq_session_handle_puback, tmq_session_handle_pubcomp.
Acked(ack, type, qos) ==
  /\ due # <<>> /\ Head(due).ack = ack
  /\ Apply(MongoAcknowledge(store, Head(due).packet_id, type, qos), Tail(due), task)
  /\ UNCHANGED <<db, published, lost, faults>>

\* tmq_session_handle_pubrec: a PUBREL takes the place of the message.
Received ==
  /\ due # <<>> /\ Head(due).ack = "PUBREC"
  /\ LET id == Head(due).packet_id
         a == MongoAcknowledge(store, id, "PUBLISH", 2)
         r == MongoStoreMessage(a.store, Packet("PUBREL", id, 0))
     IN Apply(Outcome(r.store, a.sends \o r.sends, a.task), Tail(due), task)
  /\ UNCHANGED <<db, published, lost, faults>>

\* store_messages_to_mongodb: the packets of a task are inserted together.
Inserted(packets, fails) == IF fails THEN db ELSE db \o packets

\* fetch_messages_from_mongodb: how many of the oldest documents it returns and
\* deletes; none when the query fails.
Found(fails) == IF fails THEN 0 ELSE IF Len(db) < Limit THEN Len(db) ELSE Limit

\* store_messages_in_thread_pool.
StoreTask(fails) ==
  /\ task.op = "store"
  /\ fails => faults < MaxFaults
  /\ db' = Inserted(task.packets, fails)
  /\ lost' = IF fails THEN lost \cup ToSet(task.packets) ELSE lost
  /\ faults' = IF fails THEN faults + 1 ELSE faults
  /\ task' = [op |-> "stored", packets |-> <<>>]
  /\ UNCHANGED <<store, due, published, sent>>

\* fetch_messages_in_thread_pool.
FetchTask(fails) ==
  /\ task.op = "fetch"
  /\ fails => faults < MaxFaults
  /\ task' = [op |-> "fetched", packets |-> SubSeq(db, 1, Found(fails))]
  /\ db' = SubSeq(db, Found(fails) + 1, Len(db))
  /\ faults' = IF fails THEN faults + 1 ELSE faults
  /\ UNCHANGED <<store, due, published, sent, lost>>

\* threadpool_return_receipt_handler: the receipt reaches the IO thread.
StoredReceipt ==
  /\ task.op = "stored"
  /\ Apply(StoreMessageDone(store), due, NoTask)
  /\ UNCHANGED <<db, published, lost, faults>>

FetchedReceipt ==
  /\ task.op = "fetched"
  /\ Apply(FetchMessageDone(store, task.packets), due, NoTask)
  /\ lost' = lost \cup ToSet(Replaced(store, task.packets))
  /\ UNCHANGED <<db, published, faults>>

Next ==
  \/ \E qos \in 1 .. 2 : Publish(qos)
  \/ Acked("PUBACK", "PUBLISH", 1) \/ Acked("PUBCOMP", "PUBREL", -1) \/ Received
  \/ \E fails \in BOOLEAN : StoreTask(fails) \/ FetchTask(fails)
  \/ StoredReceipt \/ FetchedReceipt

Spec == Init /\ [][Next]_mongoVars

-----------------------------------------------------------------------------
\* The packets of the queue that are not sent yet; those a task has in hand.
Waiting(mem) ==
  IF mem.pending = 0 THEN <<>> ELSE SubSeq(mem.queue, mem.pending, Len(mem.queue))
InTask(job, op) == IF job.op = op THEN job.packets ELSE <<>>

\* The messages of the session that are not sent yet, oldest first.
Unsent ==
  Messages(Waiting(store.mem)) \o InTask(task, "fetched") \o db
    \o InTask(task, "store") \o store.buffer

\* Unless the database fails or a fetched batch replaces packets still queued, the
\* messages sent and those that wait - in the queue, in the database, in a task or
\* in the buffer - are the messages published, in their order: none is dropped,
\* doubled or overtaken between memory and database.
StoredInOrder ==
  lost = {} /\ faults = 0 =>
    LET all == sent \o Unsent
    IN /\ Len(all) = published
       /\ \A i \in DOMAIN all : all[i].packet_id = i

\* Messages do not get stuck: when nothing is on its way - no acknowledgement, no
\* task - nothing waits either, unless packets were lost.  The flags NEED_STORE and
\* NEED_FETCH, set while a task runs, are acted on when it is done.
NothingWaitsForever ==
  due = <<>> /\ task = NoTask /\ lost = {} /\ faults = 0 => Unsent = <<>>

=============================================================================
