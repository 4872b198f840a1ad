----------------------------- MODULE MemoryStore -----------------------------
(***************************************************************************)
(* The in-memory message store of a session: store/mqtt_msg_store.c, lines *)
(* 13-84, and the walk of mqtt_session.c's resend_messages over it.        *)
(*                                                                         *)
(* A store is a record: the sending queue (the linked list), the           *)
(* pending_pointer into it (the index of the node, 0 for NULL) and the     *)
(* session's inflight_packets.  total_size is left out: the memory store   *)
(* never reads it.                                                         *)
(***************************************************************************)
EXTENDS Integers, Sequences, SequencesExt

CONSTANT inflight_window_size

ASSUME WindowAssumption == inflight_window_size \in 1 .. 255   \* a uint8_t

EmptyStore == [queue |-> <<>>, pending |-> 0, inflight |-> 0]
-----------------------------------------------------------------------------
\* Mutant: one packet too many fits the window.
FitsOneMore(st) == st.inflight <= inflight_window_size

\* send_now, the result of memory_store_store_message: the window has room.
SendNow(st) == st.inflight < inflight_window_size

\* memory_store_store_message.
StoreMessage(st, pkt) ==
  LET queue == Append(st.queue, pkt) IN
  IF SendNow(st)
  THEN [queue |-> queue, pending |-> st.pending, inflight |-> st.inflight + 1]
  ELSE [queue |-> queue,
        pending |-> IF st.pending = 0 THEN Len(queue) ELSE st.pending,
        inflight |-> st.inflight]

\* The in-flight packets an acknowledgement may be about: the search stops
\* after inflight_packets nodes, and only a PUBLISH has a QoS to compare.
Acknowledged(st, packet_id, type, qos) ==
  {k \in 1 .. Len(st.queue) :
     /\ k <= st.inflight
     /\ st.queue[k].packet_id = packet_id
     /\ st.queue[k].type = type
     /\ type = "PUBLISH" => st.queue[k].qos = qos}

\* The first of them.
FirstOf(S) == CHOOSE k \in S : \A j \in S : k <= j

\* Unlink node k and, if a packet is pending, let it into the window.  The
\* pointer's index moves with its node when a node before it goes.
Shift(st, k) ==
  LET queue == RemoveAt(st.queue, k)
      pending == IF st.pending > k THEN st.pending - 1 ELSE st.pending
  IN IF pending = 0
     THEN [queue |-> queue, pending |-> 0, inflight |-> st.inflight - 1]
     ELSE [queue |-> queue,
           pending |-> IF pending < Len(queue) THEN pending + 1 ELSE 0,
           inflight |-> st.inflight]

\* memory_store_acknowledge: the store afterwards ...
Acknowledge(st, packet_id, type, qos) ==
  LET S == Acknowledged(st, packet_id, type, qos) IN
  IF S = {} THEN st ELSE Shift(st, FirstOf(S))

\* ... and the packet it returns to be sent, as a sequence of length 0 or 1.
NextToSend(st, packet_id, type, qos) ==
  IF Acknowledged(st, packet_id, type, qos) = {} \/ st.pending = 0
  THEN <<>> ELSE <<st.queue[st.pending]>>

\* resend_messages: from the head up to the pending pointer.
ToResend(st) ==
  IF st.pending = 0 THEN st.queue ELSE SubSeq(st.queue, 1, st.pending - 1)
-----------------------------------------------------------------------------
\* The shape of a store: the queue is the packets in flight followed by those
\* pending, pending_pointer is the first of the latter, and a packet is
\* pending only when the window is full.
WellFormed(st) ==
  /\ st.inflight <= inflight_window_size
  /\ st.inflight <= Len(st.queue)
  /\ st.pending = IF Len(st.queue) > st.inflight THEN st.inflight + 1 ELSE 0
  /\ Len(st.queue) > st.inflight => st.inflight = inflight_window_size
=============================================================================
