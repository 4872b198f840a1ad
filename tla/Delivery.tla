------------------------------ MODULE Delivery ------------------------------
(***************************************************************************)
(* QoS delivery from a broker's session to its subscriber, across lost and *)
(* resumed connections: mqtt/mqtt_session.c on both sides, with the parts  *)
(* of the broker, the IO context and the codec that drive it.              *)
(*                                                                         *)
(* Actors: the broker's logic thread (Broadcast, Close, Resume), the       *)
(* session's IO thread (HandleBroadcast, ConnectComplete, the acks), the   *)
(* peer, which is this repository's client, and the network.  The session  *)
(* is persistent (clean_session = 0) and has subscribed.                   *)
(***************************************************************************)
EXTENDS MemoryStore, FiniteSets

CONSTANTS Qos,        \* the QoS levels in use, a subset of 0..2
          IdSpace,    \* number of packet ids (65536 in the code)
          MaxMsgs,    \* bound on the messages broadcast
          MaxDrops    \* bound on the connections lost

ASSUME DeliveryAssumption ==
  /\ Qos \subseteq 0 .. 2
  /\ IdSpace \in Nat \ {0, 1}
  /\ MaxMsgs \in Nat
  /\ MaxDrops \in Nat

Msg == 1 .. MaxMsgs     \* a message is named by its place in the order of broadcasts
Id  == 0 .. IdSpace - 1

VARIABLES
  state,            \* session->state
  conn,             \* the connection: "down", "starting" or "up" (IN_SESSION)
  store,            \* session->message_store and inflight_packets
  next_packet_id,   \* session->next_packet_id
  broadcast_tasks,  \* the IO context's mailbox of broadcasts
  toPeer, toBroker, \* packets on their way in the two directions of the connection
  qos2_packet_ids,  \* the peer session's ids awaiting PUBREL
  published,        \* history: the QoS of every message broadcast
  delivered,        \* history: messages handed to the peer's on_new_message
  drops             \* number of connections lost

session == <<state, conn, store, next_packet_id>>
network == <<toPeer, toBroker, drops>>
peer    == <<qos2_packet_ids, delivered>>
vars    == <<state, conn, store, next_packet_id, broadcast_tasks, toPeer, toBroker,
             qos2_packet_ids, published, delivered, drops>>

Publish(id, qos, msg) == [type |-> "PUBLISH", packet_id |-> id, qos |-> qos, msg |-> msg]
Pubrel(id) == [type |-> "PUBREL", packet_id |-> id, qos |-> 0, msg |-> 0]
Ack(type, id) == [type |-> type, packet_id |-> id]

Packet  == {Publish(id, qos, msg) : id \in Id, qos \in 0 .. 2, msg \in Msg}
             \cup {Pubrel(id) : id \in Id}
BroadcastTask == [msg : Msg, qos : 0 .. 2, is_session_closed : BOOLEAN]
-----------------------------------------------------------------------------
\* The session is new and its connection just came up.
Init ==
  /\ state = "OPEN"
  /\ conn = "up"
  /\ store = EmptyStore
  /\ next_packet_id \in 0 .. IdSpace - 2      \* rand_r() % UINT16_MAX
  /\ broadcast_tasks = <<>>
  /\ toPeer = <<>>
  /\ toBroker = <<>>
  /\ qos2_packet_ids = {}
  /\ published = <<>>
  /\ delivered = <<>>
  /\ drops = 0
-----------------------------------------------------------------------------
(* The logic thread. *)

\* mqtt_broadcast: whether the session is closed is sampled here ...
Broadcast(qos) ==
  /\ Len(published) < MaxMsgs
  /\ published' = Append(published, qos)
  /\ broadcast_tasks' = Append(broadcast_tasks,
       [msg |-> Len(published) + 1, qos |-> qos, is_session_closed |-> state = "CLOSED"])
  /\ UNCHANGED <<session, network, peer>>

\* handle_session_req for the close that the end of the connection posted.
CloseSession ==
  /\ conn = "down"
  /\ state = "OPEN"
  /\ state' = "CLOSED"
  /\ UNCHANGED <<conn, store, next_packet_id, broadcast_tasks, network, peer, published>>

\* Mutant: resuming a session starts from an empty store.
ResumeForgetting ==
  /\ conn = "down"
  /\ state = "CLOSED"
  /\ state' = "OPEN"
  /\ conn' = "starting"
  /\ store' = EmptyStore
  /\ UNCHANGED <<next_packet_id, broadcast_tasks, network, peer, published>>

\* start_session for a new connection of the client: tmq_session_resume.  (A
\* CONNECT that finds the session still open is refused.)
ResumeSession ==
  /\ conn = "down"
  /\ state = "CLOSED"
  /\ state' = "OPEN"
  /\ conn' = "starting"
  /\ UNCHANGED <<store, next_packet_id, broadcast_tasks, network, peer, published>>
-----------------------------------------------------------------------------
(* The session's IO thread. *)

\* tmq_send_any_packet: packets are dropped unless the connection is in session.
Send(pkts) == IF conn = "up" THEN toPeer \o pkts ELSE toPeer

\* Mutants: nothing is sent again; the walk starts at the pending pointer.
ResendNothing(st) == <<>>
ResendPending(st) ==
  IF st.pending = 0 THEN st.queue ELSE SubSeq(st.queue, st.pending, Len(st.queue))

\* tmq_session_start.
Resend(st) == ToResend(st)

\* connect_complete_handler of an accepted CONNECT: in session, then resend.
ConnectComplete ==
  /\ conn = "starting"
  /\ conn' = "up"
  /\ toPeer' = Resend(store)
  /\ UNCHANGED <<state, store, next_packet_id, broadcast_tasks, toBroker, drops, peer, published>>

\* Mutant: the id is not advanced.
NextIdStuck(id) == id

NextId(id) == IF id = IdSpace - 1 THEN 0 ELSE id + 1

\* ... and used here: broadcast_handler and tmq_session_publish.
HandleBroadcast ==
  /\ broadcast_tasks # <<>>
  /\ broadcast_tasks' = Tail(broadcast_tasks)
  /\ LET task == Head(broadcast_tasks)
         pkt == Publish(IF task.qos > 0 THEN next_packet_id ELSE 0, task.qos, task.msg)
         send_now == task.qos = 0 \/ SendNow(store)
     IN /\ IF task.qos > 0
           THEN /\ next_packet_id' = NextId(next_packet_id)
                /\ store' = StoreMessage(store, pkt)
           ELSE UNCHANGED <<next_packet_id, store>>
        /\ toPeer' = IF send_now /\ ~ task.is_session_closed THEN Send(<<pkt>>) ELSE toPeer
  /\ UNCHANGED <<state, conn, toBroker, drops, peer, published>>

\* tmq_session_handle_puback and _pubcomp: acknowledge, and send what that lets
\* into the window.
HandleAck(ack, type, qos) ==
  /\ store' = Acknowledge(store, ack.packet_id, type, qos)
  /\ toPeer' = Send(NextToSend(store, ack.packet_id, type, qos))

\* tmq_session_handle_pubrec: acknowledge, then queue the PUBREL like any
\* other packet.  Mutant: the PUBREL is sent at once and not kept.
PubrecSendOnly(ack) ==
  /\ store' = Acknowledge(store, ack.packet_id, "PUBLISH", 2)
  /\ toPeer' = Send(NextToSend(store, ack.packet_id, "PUBLISH", 2) \o <<Pubrel(ack.packet_id)>>)

HandlePubrec(ack) ==
  LET acked == Acknowledge(store, ack.packet_id, "PUBLISH", 2)
      rel == IF SendNow(acked) THEN <<Pubrel(ack.packet_id)>> ELSE <<>>
  IN /\ store' = StoreMessage(acked, Pubrel(ack.packet_id))
     /\ toPeer' = Send(NextToSend(store, ack.packet_id, "PUBLISH", 2) \o rel)

ReceiveAck ==
  /\ toBroker # <<>>
  /\ toBroker' = Tail(toBroker)
  /\ LET ack == Head(toBroker) IN
       \/ ack.type = "PUBACK"  /\ HandleAck(ack, "PUBLISH", 1)
       \/ ack.type = "PUBREC"  /\ HandlePubrec(ack)
       \/ ack.type = "PUBCOMP" /\ HandleAck(ack, "PUBREL", -1)
  /\ UNCHANGED <<state, conn, next_packet_id, broadcast_tasks, drops, peer, published>>
-----------------------------------------------------------------------------
(* The peer: parse_publish_packet / parse_pub_rel_packet and the handlers. *)

\* Mutant: the redelivery check is left out.
NeverRedelivery(pkt) == FALSE

\* "check if it is a redelivery".
IsRedelivery(pkt) == pkt.qos = 2 /\ pkt.packet_id \in qos2_packet_ids

\* The acknowledgement, sent before the message is handed on.
Reply(pkt) ==
  CASE pkt.qos = 0 -> <<>>
    [] pkt.qos = 1 -> <<Ack("PUBACK", pkt.packet_id)>>
    [] pkt.qos = 2 -> <<Ack("PUBREC", pkt.packet_id)>>

PeerReceivesPublish ==
  /\ toPeer # <<>>
  /\ Head(toPeer).type = "PUBLISH"
  /\ LET pkt == Head(toPeer) IN
       /\ toBroker' = toBroker \o Reply(pkt)
       /\ delivered' = IF IsRedelivery(pkt) THEN delivered ELSE Append(delivered, pkt.msg)
       /\ qos2_packet_ids' = IF pkt.qos = 2 THEN qos2_packet_ids \cup {pkt.packet_id}
                                            ELSE qos2_packet_ids
  /\ toPeer' = Tail(toPeer)
  /\ UNCHANGED <<session, broadcast_tasks, published, drops>>

\* tmq_session_handle_pubrel.
AfterPubrel(id) == qos2_packet_ids \ {id}

PeerReceivesPubrel ==
  /\ toPeer # <<>>
  /\ Head(toPeer).type = "PUBREL"
  /\ LET id == Head(toPeer).packet_id IN
       /\ toBroker' = Append(toBroker, Ack("PUBCOMP", id))
       /\ qos2_packet_ids' = AfterPubrel(id)
  /\ toPeer' = Tail(toPeer)
  /\ UNCHANGED <<session, broadcast_tasks, published, delivered, drops>>

\* The connection is lost, with all that is under way.
Drop ==
  /\ conn # "down"
  /\ drops < MaxDrops
  /\ drops' = drops + 1
  /\ conn' = "down"
  /\ toPeer' = <<>>
  /\ toBroker' = <<>>
  /\ UNCHANGED <<state, store, next_packet_id, broadcast_tasks, peer, published>>
-----------------------------------------------------------------------------
System ==
  \/ CloseSession \/ ConnectComplete \/ HandleBroadcast \/ ReceiveAck
  \/ PeerReceivesPublish \/ PeerReceivesPubrel

Next == (\E qos \in Qos : Broadcast(qos)) \/ ResumeSession \/ Drop \/ System

Spec == Init /\ [][Next]_vars

\* No packet that is still unacknowledged has the id given out next.  Nothing in
\* the code ensures it once the ids wrap around (mqtt_session.c:277-278).
FreeId == \A i \in DOMAIN store.queue : store.queue[i].packet_id # next_packet_id

\* The executions in which it is so whenever an id is given out: ids are used again,
\* but not before the exchange that used them has ended.
FreeIdNext == Next /\ (next_packet_id' # next_packet_id => FreeId)
FreeIdSpec == Init /\ [][FreeIdNext]_vars

\* Threads run and a connection that is up carries its packets; nobody is
\* obliged to publish or to reconnect.
Fairness ==
  /\ WF_vars(CloseSession) /\ WF_vars(ConnectComplete)
  /\ WF_vars(HandleBroadcast) /\ WF_vars(ReceiveAck)
  /\ WF_vars(PeerReceivesPublish) /\ WF_vars(PeerReceivesPubrel)

FairSpec == Spec /\ Fairness
-----------------------------------------------------------------------------
\* Type invariant.
TypeOK ==
  /\ state \in {"OPEN", "CLOSED"}
  /\ conn \in {"down", "starting", "up"}
  /\ store \in [queue : Seq(Packet), pending : Nat, inflight : Nat]
  /\ next_packet_id \in Id
  /\ broadcast_tasks \in Seq(BroadcastTask)
  /\ toPeer \in Seq(Packet)
  /\ toBroker \in Seq([type : {"PUBACK", "PUBREC", "PUBCOMP"}, packet_id : Id])
  /\ qos2_packet_ids \subseteq Id
  /\ published \in Seq(0 .. 2)
  /\ delivered \in Seq(Msg)
  /\ drops \in 0 .. MaxDrops

\* The sending queue is always a window of packets in flight followed by the
\* pending ones, whatever the order of publishes, acknowledgements and
\* reconnects: no packet waits while the window has room, and a reconnect
\* resends exactly the window (mqtt_msg_store.c:13-84).
WindowInv == WellFormed(store)

Deliveries(m) == Cardinality({i \in DOMAIN delivered : delivered[i] = m})

\* A QoS 2 message is handed on at most once however often connections break
\* between its packets, and a QoS 0 one is never repeated
\* (mqtt_session.c:183-196, 231-235).
AtMostOnce ==
  \A m \in DOMAIN published : published[m] \in {0, 2} => Deliveries(m) <= 1

\* "for qos2 message, check if it is a redelivery": a PUBLISH the peer is about
\* to discard carries a message it has handed on before (mqtt_session.c:183-196).
DiscardsOnlyRedeliveries ==
  toPeer # <<>> /\ Head(toPeer).type = "PUBLISH" /\ IsRedelivery(Head(toPeer))
    => Head(toPeer).msg \in Range(delivered)

\* No QoS 1 or 2 message is lost: it is waiting for the IO thread, in the
\* sending queue, or has been handed on (mqtt_session.c:30-40, 260-292).
NothingLost ==
  \A m \in DOMAIN published : published[m] > 0 =>
    \/ \E i \in DOMAIN broadcast_tasks : broadcast_tasks[i].msg = m
    \/ \E i \in DOMAIN store.queue : store.queue[i].msg = m
    \/ m \in Range(delivered)

\* The first copies of QoS 1 and 2 messages arrive in the order they were
\* broadcast, also after a resend, when the window is 1, the default: with a
\* wider one a stale broadcast is overtaken (mqtt_session.c:42-56).
FirstCopiesInOrder ==
  \A j \in DOMAIN delivered : published[delivered[j]] > 0 =>
    \A m \in 1 .. delivered[j] - 1 : published[m] > 0 =>
      \E i \in 1 .. j - 1 : delivered[i] = m

\* The peer remembers a QoS 2 id only as long as the session still has the
\* PUBLISH or the PUBREL that makes it forget the id (mqtt_session.c:211-235).
NoOrphanIds ==
  \A id \in qos2_packet_ids :
    \E i \in DOMAIN store.queue : store.queue[i].packet_id = id

\* A broadcast sampled while the session was closed is still unhandled although
\* the session has been restarted (mqtt_broker.c:569, mqtt_io_context.c:187).
StaleBroadcast ==
  conn = "up" /\ \E i \in DOMAIN broadcast_tasks : broadcast_tasks[i].is_session_closed

Arrives(m) == Len(published) >= m /\ published[m] > 0 ~> m \in Range(delivered)

\* Every QoS 1 and 2 message arrives once the connection stays up
\* (mqtt_msg_store.c:24-25: a packet in the window "can be sent immediately").
AllArrive == \A m \in Msg : <>[](conn = "up") => Arrives(m)

\* It does, but for one cause: a stale is_session_closed.
AllArriveUnlessStale ==
  [](~ StaleBroadcast) => \A m \in Msg : <>[](conn = "up") => Arrives(m)
=============================================================================
