--------------------------- MODULE Delivery_proofs ---------------------------
(***************************************************************************)
(* The window invariant of a session's message store and the guarantees of *)
(* QoS delivery, for every window, id space and number of messages and     *)
(* lost connections.                                                       *)
(***************************************************************************)
EXTENDS Delivery, TLAPS, SequenceTheorems, FiniteSetTheorems, WellFoundedInduction

\* The set of stores.
Stores == [queue : Seq(Packet), pending : Nat, inflight : Nat]

\* Storing a packet keeps a store well-formed.
LEMMA StoreMessageWellFormed ==
  ASSUME NEW st \in Stores, WellFormed(st), NEW pkt \in Packet
  PROVE  /\ StoreMessage(st, pkt) \in Stores
         /\ WellFormed(StoreMessage(st, pkt))
<1> DEFINE q == Append(st.queue, pkt)
<1>1. /\ st.queue \in Seq(Packet) /\ st.pending \in Nat /\ st.inflight \in Nat
      /\ Len(st.queue) \in Nat
      /\ inflight_window_size \in Nat
  BY WindowAssumption DEF Stores
<1>2. q \in Seq(Packet) /\ Len(q) = Len(st.queue) + 1
  BY <1>1, AppendProperties
<1> HIDE DEF q
<1>3. CASE SendNow(st)
  <2>1. StoreMessage(st, pkt)
          = [queue |-> q, pending |-> st.pending, inflight |-> st.inflight + 1]
    BY <1>3 DEF StoreMessage, q
  <2> QED BY <1>1, <1>2, <1>3, <2>1 DEF WellFormed, SendNow, Stores
<1>4. CASE ~ SendNow(st)
  <2>1. StoreMessage(st, pkt)
          = [queue |-> q, pending |-> IF st.pending = 0 THEN Len(q) ELSE st.pending,
             inflight |-> st.inflight]
    BY <1>4 DEF StoreMessage, q
  <2> QED BY <1>1, <1>2, <1>4, <2>1 DEF WellFormed, SendNow, Stores
<1> QED BY <1>3, <1>4

\* The first of a non-empty set of list positions exists.
LEMMA FirstOfIn ==
  ASSUME NEW S, S \subseteq Nat, S # {}
  PROVE  FirstOf(S) \in S /\ \A j \in S : FirstOf(S) <= j
<1> DEFINE R == {ss \in Nat \X Nat : ss[1] < ss[2]}
<1>1. IsWellFoundedOn(R, Nat)
  BY NatLessThanWellFounded DEF OpToRel
<1>2. PICK x \in S : \A y \in S : ~ (<<y, x>> \in R)
  <2> HIDE DEF R
  <2> QED BY <1>1, WFMin
<1>3. \A y \in S : ~ (y < x)
  <2> SUFFICES ASSUME NEW y \in S, y < x PROVE FALSE
    OBVIOUS
  <2>1. <<y, x>> \in Nat \X Nat /\ <<y, x>>[1] = y /\ <<y, x>>[2] = x
    OBVIOUS
  <2> QED BY <1>2, <2>1
<1>4. \A y \in S : x <= y
  BY <1>3
<1> QED BY <1>4 DEF FirstOf

\* Unlinking a node leaves a list that is one shorter.
LEMMA RemoveAtProperties ==
  ASSUME NEW s \in Seq(Packet), NEW k \in 1 .. Len(s)
  PROVE  RemoveAt(s, k) \in Seq(Packet) /\ Len(RemoveAt(s, k)) = Len(s) - 1
<1>0. Len(s) \in Nat /\ k \in Nat /\ k >= 1 /\ k <= Len(s) /\ \A i \in 1 .. Len(s) : s[i] \in Packet
  BY LenProperties, ElementOfSeq
<1>1. SubSeq(s, 1, k - 1) \in Seq(Packet) /\ Len(SubSeq(s, 1, k - 1)) = k - 1
  <2>1. \A i \in 1 .. k - 1 : s[i] \in Packet
    BY <1>0
  <2>2. 1 \in Int /\ k - 1 \in Int
    BY <1>0
  <2> QED BY <1>0, <2>1, <2>2, SubSeqProperties
<1>2. SubSeq(s, k + 1, Len(s)) \in Seq(Packet) /\ Len(SubSeq(s, k + 1, Len(s))) = Len(s) - k
  <2>1. \A i \in k + 1 .. Len(s) : s[i] \in Packet
    BY <1>0
  <2>2. k + 1 \in Int /\ Len(s) \in Int
    BY <1>0
  <2> QED BY <1>0, <2>1, <2>2, SubSeqProperties
<1>3. PICK a \in Seq(Packet), b \in Seq(Packet) :
        a = SubSeq(s, 1, k - 1) /\ b = SubSeq(s, k + 1, Len(s))
  BY <1>1, <1>2
<1>4. a \o b \in Seq(Packet) /\ Len(a \o b) = Len(a) + Len(b)
  BY ConcatProperties
<1>5. RemoveAt(s, k) = a \o b
  BY <1>3 DEF RemoveAt
<1>6. Len(a) = k - 1
  BY <1>1, <1>3, Zenon
<1>7. Len(b) = Len(s) - k
  BY <1>2, <1>3, Zenon
<1>8. Len(a) + Len(b) = Len(s) - 1
  BY <1>0, <1>6, <1>7
<1> QED BY <1>4, <1>5, <1>8

\* Removing an in-flight packet and letting the pending one into the window
\* keeps a store well-formed.
LEMMA ShiftWellFormed ==
  ASSUME NEW st \in Stores, WellFormed(st), NEW k \in 1 .. Len(st.queue), k <= st.inflight
  PROVE  Shift(st, k) \in Stores /\ WellFormed(Shift(st, k))
<1> DEFINE q == RemoveAt(st.queue, k)
<1>1. /\ st.queue \in Seq(Packet) /\ st.pending \in Nat /\ st.inflight \in Nat
      /\ Len(st.queue) \in Nat
      /\ inflight_window_size \in Nat
  BY WindowAssumption DEF Stores
<1>2. q \in Seq(Packet) /\ Len(q) = Len(st.queue) - 1
  BY <1>1, RemoveAtProperties
<1> HIDE DEF q
<1>3. CASE st.pending = 0
  <2>1. Shift(st, k) = [queue |-> q, pending |-> 0, inflight |-> st.inflight - 1]
    BY <1>1, <1>3 DEF Shift, q
  <2>2. Len(st.queue) = st.inflight
    BY <1>1, <1>3 DEF WellFormed
  <2> QED BY <1>1, <1>2, <2>1, <2>2 DEF WellFormed, Stores
<1>4. CASE st.pending # 0
  <2>1. st.pending = st.inflight + 1 /\ Len(st.queue) > st.inflight /\ st.inflight = inflight_window_size
    BY <1>1, <1>4 DEF WellFormed
  <2>2. st.pending > k /\ st.pending - 1 = st.inflight /\ st.inflight # 0
    BY <1>1, <2>1
  <2>3. Shift(st, k) = [queue |-> q,
                        pending |-> IF st.inflight < Len(q) THEN st.inflight + 1 ELSE 0,
                        inflight |-> st.inflight]
    BY <2>2 DEF Shift, q
  <2> QED BY <1>1, <1>2, <2>1, <2>3 DEF WellFormed, Stores
<1> QED BY <1>3, <1>4

\* An acknowledgement keeps a store well-formed.
LEMMA AcknowledgeWellFormed ==
  ASSUME NEW st \in Stores, WellFormed(st), NEW id, NEW type, NEW qos
  PROVE  /\ Acknowledge(st, id, type, qos) \in Stores
         /\ WellFormed(Acknowledge(st, id, type, qos))
<1> DEFINE S == Acknowledged(st, id, type, qos)
<1>1. \A k \in S : k \in 1 .. Len(st.queue) /\ k <= st.inflight
  BY DEF Acknowledged
<1>2. S \subseteq Nat
  BY <1>1, LenProperties DEF Stores
<1>3. CASE S = {}
  BY <1>3 DEF Acknowledge
<1>4. CASE S # {}
  <2>1. FirstOf(S) \in S
    BY <1>2, <1>4, FirstOfIn
  <2>2. Shift(st, FirstOf(S)) \in Stores /\ WellFormed(Shift(st, FirstOf(S)))
    BY <1>1, <2>1, ShiftWellFormed
  <2> QED BY <1>4, <2>2 DEF Acknowledge
<1> QED BY <1>3, <1>4

\* What an acknowledgement or a restart sends are packets of the queue.
LEMMA SentFromQueue ==
  ASSUME NEW st \in Stores, WellFormed(st), NEW id, NEW type, NEW qos
  PROVE  /\ NextToSend(st, id, type, qos) \in Seq(Packet)
         /\ Resend(st) \in Seq(Packet)
<1>1. /\ st.queue \in Seq(Packet) /\ st.pending \in Nat /\ st.inflight \in Nat
      /\ Len(st.queue) \in Nat
      /\ \A i \in 1 .. Len(st.queue) : st.queue[i] \in Packet
      /\ <<>> \in Seq(Packet)
  BY ElementOfSeq, LenProperties, EmptySeq DEF Stores
<1>2. st.pending # 0 => st.pending \in 1 .. Len(st.queue)
  BY <1>1 DEF WellFormed
<1>3. NextToSend(st, id, type, qos) \in Seq(Packet)
  BY <1>1, <1>2 DEF NextToSend
<1>4. Resend(st) \in Seq(Packet)
  <2>1. CASE st.pending = 0
    BY <1>1, <2>1 DEF Resend, ToResend
  <2>2. CASE st.pending # 0
    <3>1. \A i \in 1 .. st.pending - 1 : st.queue[i] \in Packet
      BY <1>1, <1>2, <2>2
    <3>2. st.pending - 1 \in Int
      BY <1>1
    <3>3. SubSeq(st.queue, 1, st.pending - 1) \in Seq(Packet)
      BY <3>1, <3>2, SubSeqProperties
    <3> QED BY <2>2, <3>3 DEF Resend, ToResend
  <2> QED BY <2>1, <2>2
<1> QED BY <1>3, <1>4
-----------------------------------------------------------------------------
Acks == [type : {"PUBACK", "PUBREC", "PUBCOMP"}, packet_id : Id]

Inv == TypeOK /\ WindowInv

\* Facts about the constants that the steps below need.
LEMMA ConstantFacts ==
  /\ IdSpace \in Nat /\ IdSpace >= 2
  /\ 0 \in Id
  /\ \A id \in Id : NextId(id) \in Id
  /\ \A id \in Id : Pubrel(id) \in Packet
  /\ \A id \in Id, qos \in 0 .. 2, msg \in Msg : Publish(id, qos, msg) \in Packet
<1>1. IdSpace \in Nat /\ IdSpace >= 2
  BY DeliveryAssumption
<1>2. 0 \in Id /\ \A id \in Id : NextId(id) \in Id
  BY <1>1 DEF Id, NextId
<1>3. \A id \in Id : Pubrel(id) \in Packet
  BY DEF Packet
<1>4. \A id \in Id, qos \in 0 .. 2, msg \in Msg : Publish(id, qos, msg) \in Packet
  BY DEF Packet
<1> QED BY <1>1, <1>2, <1>3, <1>4

\* What the fields of a packet are.
LEMMA PacketFields ==
  ASSUME NEW pkt \in Packet
  PROVE  /\ pkt.packet_id \in Id
         /\ pkt.qos \in 0 .. 2
         /\ pkt.type = "PUBLISH" => pkt.msg \in Msg
<1>1. CASE \E id \in Id, qos \in 0 .. 2, msg \in Msg : pkt = Publish(id, qos, msg)
  BY <1>1 DEF Publish
<1>2. CASE \E id \in Id : pkt = Pubrel(id)
  BY <1>2 DEF Pubrel
<1> QED BY <1>1, <1>2 DEF Packet

\* Sending packets leaves packets under way.
LEMMA SendType ==
  ASSUME toPeer \in Seq(Packet), NEW pkts \in Seq(Packet)
  PROVE  Send(pkts) \in Seq(Packet)
<1>1. toPeer \o pkts \in Seq(Packet)
  BY ConcatProperties
<1> QED BY <1>1 DEF Send

\* The initial state satisfies the invariant.
LEMMA InitInv == Init => Inv
<1> SUFFICES ASSUME Init PROVE Inv
  OBVIOUS
<1>1. next_packet_id \in Id
  BY ConstantFacts DEF Init, Id
<1>2. 0 \in 0 .. MaxDrops
  BY DeliveryAssumption
<1>3. TypeOK
  BY <1>1, <1>2 DEF Init, TypeOK, EmptyStore
<1>4. WindowInv
  BY WindowAssumption DEF Init, WindowInv, WellFormed, EmptyStore
<1> QED BY <1>3, <1>4 DEF Inv

\* Every step preserves the invariant.
LEMMA NextInv == Inv /\ [Next]_vars => Inv'
<1> SUFFICES ASSUME Inv, [Next]_vars PROVE Inv'
  OBVIOUS
<1>0. TypeOK /\ WellFormed(store) /\ store \in Stores
  BY DEF Inv, TypeOK, WindowInv, Stores
<1> USE DEF session, network, peer
<1>1. ASSUME NEW qos \in Qos, Broadcast(qos) PROVE Inv'
  <2>1. qos \in 0 .. 2 /\ MaxMsgs \in Nat
    BY DeliveryAssumption
  <2>2. Len(published) \in Nat /\ Len(published) + 1 \in Msg
    BY <1>0, <1>1, <2>1 DEF TypeOK, Broadcast, Msg
  <2>3. (state = "CLOSED") \in BOOLEAN
    OBVIOUS
  <2>4. [msg |-> Len(published) + 1, qos |-> qos, is_session_closed |-> state = "CLOSED"] \in BroadcastTask
    BY <2>1, <2>2, <2>3, Zenon DEF BroadcastTask
  <2>5. broadcast_tasks' \in Seq(BroadcastTask) /\ published' \in Seq(0 .. 2)
    BY <1>0, <1>1, <2>1, <2>4 DEF TypeOK, Broadcast
  <2>6. WindowInv'
    BY <1>0, <1>1 DEF Broadcast, WindowInv
  <2> QED BY <1>0, <1>1, <2>5, <2>6 DEF Inv, TypeOK, Broadcast
<1>2. CASE CloseSession
  BY <1>0, <1>2 DEF CloseSession, Inv, TypeOK, WindowInv, WellFormed
<1>3. CASE ResumeSession
  BY <1>0, <1>3 DEF ResumeSession, Inv, TypeOK, WindowInv, WellFormed
<1>4. CASE ConnectComplete
  <2>1. toPeer' \in Seq(Packet)
    BY <1>0, <1>4, SentFromQueue DEF ConnectComplete
  <2> QED BY <1>0, <1>4, <2>1 DEF ConnectComplete, Inv, TypeOK, WindowInv, WellFormed
<1>5. CASE HandleBroadcast
  <2> DEFINE task == Head(broadcast_tasks)
             pkt == Publish(IF task.qos > 0 THEN next_packet_id ELSE 0, task.qos, task.msg)
  <2>1. task \in BroadcastTask /\ broadcast_tasks' \in Seq(BroadcastTask)
    BY <1>0, <1>5, HeadTailProperties DEF HandleBroadcast, TypeOK
  <2>2. pkt \in Packet /\ next_packet_id \in Id /\ NextId(next_packet_id) \in Id
    <3>1. task.qos \in 0 .. 2 /\ task.msg \in Msg
      BY <2>1 DEF BroadcastTask
    <3>2. next_packet_id \in Id
      BY <1>0 DEF TypeOK
    <3>3. (IF task.qos > 0 THEN next_packet_id ELSE 0) \in Id
      BY <3>2, ConstantFacts
    <3> QED BY <3>1, <3>2, <3>3, ConstantFacts
  <2>3. toPeer' \in Seq(Packet)
    <3>1. toPeer' = Send(<<pkt>>) \/ toPeer' = toPeer
      BY <1>5 DEF HandleBroadcast
    <3>2. <<pkt>> \in Seq(Packet)
      BY <2>2
    <3>3. toPeer \in Seq(Packet)
      BY <1>0 DEF TypeOK
    <3>4. Send(<<pkt>>) \in Seq(Packet)
      BY <3>2, <3>3, SendType
    <3> QED BY <3>1, <3>3, <3>4
  <2>4. store' \in Stores /\ WellFormed(store')
    <3>1. store' = store \/ store' = StoreMessage(store, pkt)
      BY <1>5 DEF HandleBroadcast
    <3>2. StoreMessage(store, pkt) \in Stores /\ WellFormed(StoreMessage(store, pkt))
      BY <1>0, <2>2, StoreMessageWellFormed
    <3> QED BY <1>0, <3>1, <3>2
  <2>5. next_packet_id' \in Id
    BY <1>5, <2>2 DEF HandleBroadcast
  <2>6. UNCHANGED <<state, conn, toBroker, drops, qos2_packet_ids, delivered, published>>
    BY <1>5 DEF HandleBroadcast
  <2>7. TypeOK'
    BY <1>0, <2>1, <2>3, <2>4, <2>5, <2>6 DEF TypeOK, Stores
  <2> QED BY <2>4, <2>7 DEF Inv, WindowInv
<1>6. CASE ReceiveAck
  <2> DEFINE ack == Head(toBroker)
  <2>1. toBroker \in Seq(Acks) /\ toPeer \in Seq(Packet)
    BY <1>0 DEF TypeOK, Acks
  <2>2. ack \in Acks /\ toBroker' \in Seq(Acks)
    BY <2>1, <1>6, HeadTailProperties DEF ReceiveAck
  <2>3. ack.packet_id \in Id
    BY <2>2 DEF Acks
  <2>4. ASSUME NEW type, NEW qos, HandleAck(ack, type, qos)
        PROVE  store' \in Stores /\ WellFormed(store') /\ toPeer' \in Seq(Packet)
    <3>1. store' \in Stores /\ WellFormed(store')
      BY <1>0, <2>4, AcknowledgeWellFormed DEF HandleAck
    <3>2. NextToSend(store, ack.packet_id, type, qos) \in Seq(Packet)
      BY <1>0, SentFromQueue
    <3>3. toPeer' \in Seq(Packet)
      BY <2>1, <2>4, <3>2, SendType DEF HandleAck
    <3> QED BY <3>1, <3>3
  <2>5. ASSUME HandlePubrec(ack)
        PROVE  store' \in Stores /\ WellFormed(store') /\ toPeer' \in Seq(Packet)
    <3> DEFINE acked == Acknowledge(store, ack.packet_id, "PUBLISH", 2)
               rel == IF SendNow(acked) THEN <<Pubrel(ack.packet_id)>> ELSE <<>>
               sent == NextToSend(store, ack.packet_id, "PUBLISH", 2)
    <3>1. acked \in Stores /\ WellFormed(acked)
      BY <1>0, AcknowledgeWellFormed
    <3>2. Pubrel(ack.packet_id) \in Packet
      BY <2>3, ConstantFacts
    <3>3. store' \in Stores /\ WellFormed(store')
      <4>1. store' = StoreMessage(acked, Pubrel(ack.packet_id))
        BY <2>5 DEF HandlePubrec
      <4> HIDE DEF acked
      <4> QED BY <3>1, <3>2, <4>1, StoreMessageWellFormed
    <3>4. sent \in Seq(Packet) /\ rel \in Seq(Packet)
      <4>1. sent \in Seq(Packet)
        BY <1>0, SentFromQueue
      <4>2. <<Pubrel(ack.packet_id)>> \in Seq(Packet) /\ <<>> \in Seq(Packet)
        BY <3>2
      <4> QED BY <4>1, <4>2
    <3>5. toPeer' = Send(sent \o rel)
      BY <2>5 DEF HandlePubrec
    <3> HIDE DEF sent, rel
    <3>6. sent \o rel \in Seq(Packet)
      BY <3>4, ConcatProperties
    <3>7. toPeer' \in Seq(Packet)
      BY <2>1, <3>5, <3>6, SendType
    <3> QED BY <3>3, <3>7
  <2>6. store' \in Stores /\ WellFormed(store') /\ toPeer' \in Seq(Packet)
    <3>1. HandleAck(ack, "PUBLISH", 1) \/ HandlePubrec(ack) \/ HandleAck(ack, "PUBREL", -1)
      BY <1>6 DEF ReceiveAck
    <3> QED BY <2>4, <2>5, <3>1
  <2>7. UNCHANGED <<state, conn, next_packet_id, broadcast_tasks, drops,
                    qos2_packet_ids, delivered, published>>
    BY <1>6 DEF ReceiveAck
  <2>8. TypeOK'
    BY <1>0, <2>2, <2>6, <2>7 DEF TypeOK, Stores, Acks
  <2> QED BY <2>6, <2>8 DEF Inv, WindowInv
<1>7. CASE PeerReceivesPublish
  <2> DEFINE pkt == Head(toPeer)
  <2>1. toBroker \in Seq(Acks) /\ toPeer \in Seq(Packet) /\ delivered \in Seq(Msg)
    BY <1>0 DEF TypeOK, Acks
  <2>2. pkt \in Packet /\ toPeer' \in Seq(Packet) /\ pkt.type = "PUBLISH"
    BY <2>1, <1>7, HeadTailProperties DEF PeerReceivesPublish
  <2>3. pkt.packet_id \in Id /\ pkt.qos \in 0 .. 2 /\ pkt.msg \in Msg
    BY <2>2, PacketFields
  <2>4. Reply(pkt) \in Seq(Acks)
    <3>1. Ack("PUBACK", pkt.packet_id) \in Acks /\ Ack("PUBREC", pkt.packet_id) \in Acks
      BY <2>3 DEF Ack, Acks
    <3>2. pkt.qos = 0 \/ pkt.qos = 1 \/ pkt.qos = 2
      BY <2>3
    <3> HIDE DEF pkt
    <3>3. \/ Reply(pkt) = <<>>
          \/ Reply(pkt) = <<Ack("PUBACK", pkt.packet_id)>>
          \/ Reply(pkt) = <<Ack("PUBREC", pkt.packet_id)>>
      BY <3>2 DEF Reply
    <3>4. \A ack \in Acks : <<ack>> \in Seq(Acks)
      OBVIOUS
    <3>5. <<>> \in Seq(Acks)
      OBVIOUS
    <3> QED BY <3>1, <3>3, <3>4, <3>5, Zenon
  <2>5. toBroker' \in Seq(Acks)
    <3>1. toBroker' = toBroker \o Reply(pkt)
      BY <1>7 DEF PeerReceivesPublish
    <3> QED BY <2>1, <2>4, <3>1, ConcatProperties
  <2>6. delivered' \in Seq(Msg)
    <3>1. delivered' = delivered \/ delivered' = Append(delivered, pkt.msg)
      BY <1>7 DEF PeerReceivesPublish
    <3>2. delivered \in Seq(Msg) /\ pkt.msg \in Msg
      BY <2>1, <2>3
    <3>3. Append(delivered, pkt.msg) \in Seq(Msg)
      BY <3>2, AppendProperties
    <3> QED BY <3>1, <3>2, <3>3
  <2>7. qos2_packet_ids' \subseteq Id
    BY <1>0, <1>7, <2>3 DEF PeerReceivesPublish, TypeOK
  <2>8. UNCHANGED <<state, conn, store, next_packet_id, broadcast_tasks, published, drops>>
    BY <1>7 DEF PeerReceivesPublish
  <2>9. TypeOK'
    BY <1>0, <2>2, <2>5, <2>6, <2>7, <2>8 DEF TypeOK, Acks
  <2> QED BY <1>0, <2>8, <2>9 DEF Inv, WindowInv
<1>8. CASE PeerReceivesPubrel
  <2>1. toBroker \in Seq(Acks) /\ toPeer \in Seq(Packet)
    BY <1>0 DEF TypeOK, Acks
  <2>2. Head(toPeer) \in Packet /\ toPeer' \in Seq(Packet)
    BY <2>1, <1>8, HeadTailProperties DEF PeerReceivesPubrel
  <2>3. Ack("PUBCOMP", Head(toPeer).packet_id) \in Acks
    BY <2>2, PacketFields DEF Ack, Acks
  <2>4. toBroker' \in Seq(Acks)
    BY <1>8, <2>1, <2>3, AppendProperties DEF PeerReceivesPubrel
  <2>5. qos2_packet_ids' \subseteq Id
    BY <1>0, <1>8 DEF PeerReceivesPubrel, AfterPubrel, TypeOK
  <2>6. UNCHANGED <<state, conn, store, next_packet_id, broadcast_tasks, published, delivered, drops>>
    BY <1>8 DEF PeerReceivesPubrel
  <2>7. TypeOK'
    BY <1>0, <2>2, <2>4, <2>5, <2>6 DEF TypeOK, Acks
  <2> QED BY <1>0, <2>6, <2>7 DEF Inv, WindowInv
<1>9. CASE Drop
  <2>1. drops' \in 0 .. MaxDrops
    BY <1>0, <1>9, DeliveryAssumption DEF Drop, TypeOK
  <2> QED BY <1>0, <1>9, <2>1 DEF Drop, Inv, TypeOK, WindowInv, WellFormed
<1>10. CASE UNCHANGED vars
  BY <1>0, <1>10 DEF vars, Inv, TypeOK, WindowInv, WellFormed
<1> QED BY <1>1, <1>2, <1>3, <1>4, <1>5, <1>6, <1>7, <1>8, <1>9, <1>10 DEF Next, System

\* Type correctness, and the shape of the sending queue: a window of packets in
\* flight followed by the pending ones, with no packet pending while the window
\* has room, through every publish, acknowledgement, loss and resumption
\* (mqtt_msg_store.c:13-84).
THEOREM Window == Spec => [](TypeOK /\ WindowInv)
<1>1. Spec => []Inv
  BY InitInv, NextInv, PTL DEF Spec
<1>2. Inv => TypeOK /\ WindowInv
  BY DEF Inv
<1> QED BY <1>1, <1>2, PTL
-----------------------------------------------------------------------------
(***************************************************************************)
(* The guarantees of QoS delivery, for every window and every number of    *)
(* lost connections, as long as no packet id comes round while a packet of *)
(* that id is still unacknowledged (FreeId): no message of QoS 1 or 2 is   *)
(* lost, none of QoS 0 or 2 is handed on twice, the peer discards only     *)
(* redeliveries and remembers no id for ever; and with the default window  *)
(* of one packet, messages arrive in order.                                *)
(*                                                                         *)
(* The argument is about a packet's way: it is in the sending queue from   *)
(* its PUBLISH to its PUBCOMP (or PUBACK), and while it is, at most one    *)
(* packet or acknowledgement of that id is under way on the connection     *)
(* (FlightInv).  So an acknowledgement always finds the packet it is about *)
(* and nothing else.                                                       *)
(***************************************************************************)

\* A free id is left as long as there are fewer messages than ids.
EnoughIds == MaxMsgs < IdSpace

\* The messages the IO thread has handled are 1 .. Handled.
Handled == Len(published) - Len(broadcast_tasks)

\* How many ids ago an id was given to a packet.
AgeAt(next, id) == IF id < next THEN next - id ELSE next - id + IdSpace
Age(id) == AgeAt(next_packet_id, id)

AgeInv == \A i \in DOMAIN store.queue : Age(store.queue[i].packet_id) <= Handled

\* A packet that is acknowledged, and the acknowledgement of a packet.
Kept(p) == p.type = "PUBREL" \/ p.qos > 0
Answers(a, p) ==
  /\ a.packet_id = p.packet_id
  /\ \/ a.type = "PUBACK" /\ p.type = "PUBLISH" /\ p.qos = 1
     \/ a.type = "PUBREC" /\ p.type = "PUBLISH" /\ p.qos = 2
     \/ a.type = "PUBCOMP" /\ p.type = "PUBREL"

InWindow(p) == \E k \in 1 .. store.inflight : store.queue[k] = p
Seen(m) == \E j \in DOMAIN delivered : delivered[j] = m

\* Messages wait for the IO thread in the order in which they were broadcast.
TaskInv ==
  /\ Len(broadcast_tasks) <= Len(published) /\ Len(published) <= MaxMsgs
  /\ \A i \in DOMAIN broadcast_tasks :
       /\ broadcast_tasks[i].msg = Handled + i
       /\ broadcast_tasks[i].qos = published[Handled + i]

\* A packet of a message agrees with what was broadcast.
Published(p) == p.msg <= Handled /\ p.qos = published[p.msg]

\* No two packets in the queue have the same id, and they are in order.
QueueInv ==
  LET q == store.queue IN
  /\ \A i, j \in DOMAIN q : q[i].packet_id = q[j].packet_id => i = j
  /\ \A i \in DOMAIN q : q[i].type = "PUBLISH" => q[i].qos > 0 /\ Published(q[i])
  /\ \A i, j \in DOMAIN q :
       i < j /\ q[i].type = "PUBLISH" /\ q[j].type = "PUBLISH" => q[i].msg < q[j].msg

\* Packets and acknowledgements under way are about packets in the window, and for
\* each of these there is at most one.
FlightInv ==
  /\ conn # "up" => toPeer = <<>> /\ toBroker = <<>>
  /\ \A i \in DOMAIN toPeer : Kept(toPeer[i]) => InWindow(toPeer[i])
  /\ \A i \in DOMAIN toBroker : \E k \in 1 .. store.inflight : Answers(toBroker[i], store.queue[k])
  /\ \A i, j \in DOMAIN toPeer :
       Kept(toPeer[i]) /\ Kept(toPeer[j]) /\ toPeer[i].packet_id = toPeer[j].packet_id => i = j
  /\ \A i, j \in DOMAIN toBroker : toBroker[i].packet_id = toBroker[j].packet_id => i = j
  /\ \A i \in DOMAIN toPeer, j \in DOMAIN toBroker :
       Kept(toPeer[i]) => toPeer[i].packet_id # toBroker[j].packet_id

\* A QoS 0 message is sent once.
Qos0Inv ==
  /\ \A i \in DOMAIN toPeer : ~ Kept(toPeer[i]) => Published(toPeer[i]) /\ ~ Seen(toPeer[i].msg)
  /\ \A i, j \in DOMAIN toPeer :
       ~ Kept(toPeer[i]) /\ ~ Kept(toPeer[j]) /\ toPeer[i].msg = toPeer[j].msg => i = j

\* What the peer has handed on, what it remembers and what it has acknowledged.
PeerInv ==
  LET q == store.queue IN
  /\ \A k \in DOMAIN q : q[k].type = "PUBLISH" /\ q[k].packet_id \in qos2_packet_ids => Seen(q[k].msg)
  /\ \A k \in DOMAIN q : q[k].type = "PUBLISH" /\ q[k].qos = 2 /\ q[k].packet_id \notin qos2_packet_ids
                           => ~ Seen(q[k].msg)
  /\ \A k \in DOMAIN q : q[k].packet_id \in qos2_packet_ids => q[k].qos # 1
  /\ \A i \in DOMAIN toBroker :
       /\ toBroker[i].type = "PUBCOMP" => toBroker[i].packet_id \notin qos2_packet_ids
       /\ toBroker[i].type # "PUBCOMP" =>
            \A k \in DOMAIN q : q[k].packet_id = toBroker[i].packet_id => Seen(q[k].msg)
  /\ \A j \in DOMAIN delivered : delivered[j] <= Handled
  /\ \A i, j \in DOMAIN delivered : delivered[i] = delivered[j] /\ i # j => published[delivered[i]] = 1

QosInv == Inv /\ TaskInv /\ QueueInv /\ FlightInv /\ Qos0Inv /\ PeerInv /\ NoOrphanIds /\ NothingLost

-----------------------------------------------------------------------------
(* Sequences and packets.                                                  *)

\* The elements of a sequence with one more.
LEMMA AppendFacts ==
  ASSUME NEW S, NEW s \in Seq(S), NEW x \in S
  PROVE  /\ Append(s, x) \in Seq(S) /\ Len(s) \in Nat /\ Len(Append(s, x)) = Len(s) + 1
         /\ DOMAIN s = 1 .. Len(s) /\ DOMAIN Append(s, x) = 1 .. Len(s) + 1
         /\ \A i \in 1 .. Len(s) : Append(s, x)[i] = s[i]
         /\ Append(s, x)[Len(s) + 1] = x
BY AppendProperties, LenProperties

\* The elements of a sequence without its first.
LEMMA TailFacts ==
  ASSUME NEW S, NEW s \in Seq(S), s # <<>>
  PROVE  /\ Tail(s) \in Seq(S) /\ Len(s) \in Nat /\ Len(s) >= 1 /\ Len(Tail(s)) = Len(s) - 1
         /\ DOMAIN s = 1 .. Len(s) /\ DOMAIN Tail(s) = 1 .. Len(s) - 1
         /\ \A i \in 1 .. Len(s) - 1 : Tail(s)[i] = s[i + 1]
         /\ Head(s) = s[1] /\ s[1] \in S
<1>1. Len(s) \in Nat /\ Len(s) >= 1 /\ DOMAIN s = 1 .. Len(s)
  BY LenProperties, EmptySeq
<1>2. Tail(s) \in Seq(S) /\ Len(Tail(s)) = Len(s) - 1 /\ \A i \in 1 .. Len(Tail(s)) : Tail(s)[i] = s[i + 1]
  BY HeadTailProperties
<1>3. DOMAIN Tail(s) = 1 .. Len(s) - 1
  BY <1>2, LenProperties
<1>4. Head(s) = s[1] /\ s[1] \in S
  BY <1>1, ElementOfSeq
<1> QED BY <1>1, <1>2, <1>3, <1>4

\* The fields of a packet.
LEMMA Packets ==
  ASSUME NEW p \in Packet
  PROVE  /\ p.type \in {"PUBLISH", "PUBREL"}
         /\ p.packet_id \in Id /\ p.packet_id \in Int
         /\ p.qos \in Int /\ p.qos >= 0 /\ p.qos <= 2 /\ p.msg \in Int
         /\ p.type = "PUBLISH" => p.msg \in Msg /\ p.msg >= 1
         /\ p.type = "PUBREL" => p.msg = 0 /\ p.qos = 0
<1>1. p.packet_id \in Id /\ p.qos \in 0 .. 2 /\ (p.type = "PUBLISH" => p.msg \in Msg)
  BY PacketFields
<1>2. p.type \in {"PUBLISH", "PUBREL"} /\ (p.type = "PUBREL" => p.msg = 0 /\ p.qos = 0)
  <2>1. CASE \E id \in Id, qos \in 0 .. 2, msg \in Msg : p = Publish(id, qos, msg)
    BY <2>1 DEF Publish
  <2>2. CASE \E id \in Id : p = Pubrel(id)
    BY <2>2 DEF Pubrel
  <2> QED BY <2>1, <2>2 DEF Packet
<1>3. \A m \in Msg : m \in Int /\ m >= 1
  BY DeliveryAssumption DEF Msg
<1>4. \A id \in Id : id \in Int
  BY ConstantFacts DEF Id
<1> QED BY <1>1, <1>2, <1>3, <1>4

\* What Inv says of the sequences.
QueueFacts ==
  /\ store.queue \in Seq(Packet) /\ Len(store.queue) \in Nat
  /\ DOMAIN store.queue = 1 .. Len(store.queue)
  /\ \A i \in 1 .. Len(store.queue) : store.queue[i] \in Packet
  /\ store.inflight \in Nat /\ store.inflight <= Len(store.queue)
  /\ \A i \in 1 .. store.inflight : i \in 1 .. Len(store.queue)
WireFacts ==
  /\ toPeer \in Seq(Packet) /\ Len(toPeer) \in Nat /\ DOMAIN toPeer = 1 .. Len(toPeer)
  /\ \A i \in 1 .. Len(toPeer) : toPeer[i] \in Packet
  /\ toBroker \in Seq(Acks) /\ Len(toBroker) \in Nat /\ DOMAIN toBroker = 1 .. Len(toBroker)
  /\ \A i \in 1 .. Len(toBroker) : toBroker[i] \in Acks
LogFacts ==
  /\ delivered \in Seq(Msg) /\ Len(delivered) \in Nat /\ DOMAIN delivered = 1 .. Len(delivered)
  /\ \A i \in 1 .. Len(delivered) : delivered[i] \in Msg
  /\ published \in Seq(0 .. 2) /\ Len(published) \in Nat /\ DOMAIN published = 1 .. Len(published)
  /\ \A i \in 1 .. Len(published) : published[i] \in 0 .. 2
  /\ broadcast_tasks \in Seq(BroadcastTask) /\ Len(broadcast_tasks) \in Nat
  /\ DOMAIN broadcast_tasks = 1 .. Len(broadcast_tasks)
  /\ \A i \in 1 .. Len(broadcast_tasks) : broadcast_tasks[i] \in BroadcastTask
  /\ Handled \in Int

\* What a sequence's type says of its elements.
LEMMA SeqFacts ==
  ASSUME NEW S, NEW s \in Seq(S)
  PROVE  Len(s) \in Nat /\ DOMAIN s = 1 .. Len(s) /\ \A i \in 1 .. Len(s) : s[i] \in S
BY LenProperties, ElementOfSeq

\* They follow from the type invariant and the shape of the store.
LEMMA TypeFacts == Inv => QueueFacts /\ WireFacts /\ LogFacts
<1> SUFFICES ASSUME Inv PROVE QueueFacts /\ WireFacts /\ LogFacts
  OBVIOUS
<1>1. TypeOK /\ WellFormed(store)
  BY DEF Inv, WindowInv
<1>2. QueueFacts
  <2>1. store.queue \in Seq(Packet) /\ store.inflight \in Nat
    BY <1>1 DEF TypeOK
  <2>2. Len(store.queue) \in Nat /\ DOMAIN store.queue = 1 .. Len(store.queue)
    BY <2>1, SeqFacts
  <2>3. \A i \in 1 .. Len(store.queue) : store.queue[i] \in Packet
    BY <2>1, SeqFacts
  <2>4. store.inflight <= Len(store.queue)
    BY <1>1 DEF WellFormed
  <2> QED BY <2>1, <2>2, <2>3, <2>4 DEF QueueFacts
<1>3. WireFacts
  <2>1. toPeer \in Seq(Packet) /\ toBroker \in Seq(Acks)
    BY <1>1 DEF TypeOK, Acks
  <2>2. /\ Len(toPeer) \in Nat /\ DOMAIN toPeer = 1 .. Len(toPeer)
        /\ \A i \in 1 .. Len(toPeer) : toPeer[i] \in Packet
    BY <2>1, SeqFacts
  <2>3. /\ Len(toBroker) \in Nat /\ DOMAIN toBroker = 1 .. Len(toBroker)
        /\ \A i \in 1 .. Len(toBroker) : toBroker[i] \in Acks
    BY <2>1, SeqFacts
  <2> QED BY <2>1, <2>2, <2>3 DEF WireFacts
<1>4. LogFacts
  <2>1. delivered \in Seq(Msg) /\ published \in Seq(0 .. 2) /\ broadcast_tasks \in Seq(BroadcastTask)
    BY <1>1 DEF TypeOK
  <2>2. /\ Len(delivered) \in Nat /\ DOMAIN delivered = 1 .. Len(delivered)
        /\ \A i \in 1 .. Len(delivered) : delivered[i] \in Msg
    BY <2>1, SeqFacts
  <2>3. /\ Len(published) \in Nat /\ DOMAIN published = 1 .. Len(published)
        /\ \A i \in 1 .. Len(published) : published[i] \in 0 .. 2
    BY <2>1, SeqFacts
  <2>4. /\ Len(broadcast_tasks) \in Nat /\ DOMAIN broadcast_tasks = 1 .. Len(broadcast_tasks)
        /\ \A i \in 1 .. Len(broadcast_tasks) : broadcast_tasks[i] \in BroadcastTask
    BY <2>1, SeqFacts
  <2>5. Handled \in Int
    BY <2>3, <2>4 DEF Handled
  <2> QED BY <2>1, <2>2, <2>3, <2>4, <2>5 DEF LogFacts
<1> QED BY <1>2, <1>3, <1>4

\* The initial state satisfies the invariant.
LEMMA InitQos == Init => QosInv
<1> SUFFICES ASSUME Init PROVE QosInv
  OBVIOUS
<1>1. Inv
  BY InitInv
<1>2. /\ store.queue = <<>> /\ store.inflight = 0 /\ broadcast_tasks = <<>> /\ toPeer = <<>> /\ toBroker = <<>>
      /\ qos2_packet_ids = {} /\ published = <<>> /\ delivered = <<>>
  BY DEF Init, EmptyStore
<1>3. DOMAIN <<>> = {} /\ Len(<<>>) = 0
  OBVIOUS
<1>4. TaskInv
  BY <1>2, <1>3, DeliveryAssumption DEF TaskInv
<1>5. QueueInv /\ FlightInv /\ Qos0Inv /\ PeerInv /\ NoOrphanIds /\ NothingLost
  BY <1>2, <1>3 DEF QueueInv, FlightInv, Qos0Inv, PeerInv, NoOrphanIds, NothingLost
<1> QED BY <1>1, <1>4, <1>5 DEF QosInv

-----------------------------------------------------------------------------
(* The logic thread and the connection.                                    *)

\* A broadcast adds a message to those that wait for the IO thread.
LEMMA BroadcastQos ==
  ASSUME QosInv, NEW qos \in Qos, Broadcast(qos)
  PROVE  TaskInv' /\ QueueInv' /\ FlightInv' /\ Qos0Inv' /\ PeerInv' /\ NoOrphanIds' /\ NothingLost'
<1>1. /\ TaskInv /\ QueueInv /\ FlightInv /\ Qos0Inv /\ PeerInv /\ NoOrphanIds /\ NothingLost
      /\ QueueFacts /\ WireFacts /\ LogFacts
  BY TypeFacts DEF QosInv
<1>2. /\ published' = Append(published, qos) /\ Len(published) < MaxMsgs /\ qos \in 0 .. 2
      /\ UNCHANGED <<store, conn, toPeer, toBroker, qos2_packet_ids, delivered, next_packet_id>>
  BY DeliveryAssumption DEF Broadcast, session, network, peer
<1> DEFINE task == [msg |-> Len(published) + 1, qos |-> qos, is_session_closed |-> state = "CLOSED"]
<1>3. broadcast_tasks' = Append(broadcast_tasks, task) /\ task.msg = Len(published) + 1 /\ task.qos = qos
  BY DEF Broadcast
<1>4. task \in BroadcastTask
  <2>1. Len(published) + 1 \in Msg
    BY <1>1, <1>2, DeliveryAssumption DEF LogFacts, Msg
  <2>2. (state = "CLOSED") \in BOOLEAN
    OBVIOUS
  <2> QED BY <1>2, <2>1, <2>2, Zenon DEF BroadcastTask
<1> HIDE DEF task
<1>5. /\ Len(published') = Len(published) + 1 /\ published'[Len(published) + 1] = qos
      /\ \A i \in 1 .. Len(published) : published'[i] = published[i]
      /\ DOMAIN published' = 1 .. Len(published) + 1
  BY <1>1, <1>2, AppendFacts DEF LogFacts
<1>6. /\ Len(broadcast_tasks') = Len(broadcast_tasks) + 1 /\ broadcast_tasks'[Len(broadcast_tasks) + 1] = task
      /\ \A i \in 1 .. Len(broadcast_tasks) : broadcast_tasks'[i] = broadcast_tasks[i]
      /\ DOMAIN broadcast_tasks' = 1 .. Len(broadcast_tasks) + 1
  BY <1>1, <1>3, <1>4, AppendFacts DEF LogFacts
<1>7. Handled' = Handled /\ Handled \in Nat /\ Handled <= Len(published)
  BY <1>1, <1>5, <1>6 DEF Handled, LogFacts, TaskInv
<1>8. \A m \in Int : m >= 1 /\ m <= Handled => published'[m] = published[m]
  BY <1>1, <1>5, <1>7 DEF LogFacts
<1>9. TaskInv'
  <2>1. Len(broadcast_tasks') <= Len(published') /\ Len(published') <= MaxMsgs
    BY <1>1, <1>2, <1>5, <1>6, DeliveryAssumption DEF TaskInv, LogFacts
  <2>2. ASSUME NEW i \in DOMAIN broadcast_tasks'
        PROVE  broadcast_tasks'[i].msg = Handled' + i /\ broadcast_tasks'[i].qos = published'[Handled' + i]
    <3>1. CASE i <= Len(broadcast_tasks)
      <4>1. i \in DOMAIN broadcast_tasks /\ broadcast_tasks'[i] = broadcast_tasks[i]
        BY <1>1, <1>6, <3>1 DEF LogFacts
      <4>2. Handled + i \in 1 .. Len(published)
        BY <1>1, <1>7, <3>1, <4>1 DEF LogFacts, Handled
      <4> QED BY <1>1, <1>5, <1>7, <4>1, <4>2 DEF TaskInv
    <3>2. CASE i = Len(broadcast_tasks) + 1
      <4>1. Handled + i = Len(published) + 1
        BY <1>1, <3>2 DEF LogFacts, Handled
      <4> QED BY <1>3, <1>5, <1>6, <1>7, <3>2, <4>1
    <3> QED BY <1>1, <1>6, <3>1, <3>2 DEF LogFacts
  <2> QED BY <2>1, <2>2 DEF TaskInv
<1>10. \A p \in Packet : p.type = "PUBLISH" /\ Published(p) => Published(p)'
  BY <1>7, <1>8, Packets DEF Published
<1>11. QueueInv'
  BY <1>1, <1>2, <1>7, <1>10 DEF QueueInv, QueueFacts
<1>12. FlightInv'
  BY <1>1, <1>2 DEF FlightInv, InWindow
<1>13. Qos0Inv'
  BY <1>1, <1>2, <1>10, Packets DEF Qos0Inv, Seen, WireFacts, Kept
<1>14. PeerInv'
  <2>1. \A j \in DOMAIN delivered : delivered[j] \in Int /\ delivered[j] >= 1 /\ delivered[j] <= Handled
    BY <1>1, DeliveryAssumption DEF LogFacts, Msg, PeerInv
  <2>2. \A i, j \in DOMAIN delivered' : delivered'[i] = delivered'[j] /\ i # j => published'[delivered'[i]] = 1
    <3>1. \A i, j \in DOMAIN delivered : delivered[i] = delivered[j] /\ i # j => published[delivered[i]] = 1
      BY <1>1 DEF PeerInv
    <3> QED BY <1>2, <1>8, <2>1, <3>1
  <2> QED BY <1>1, <1>2, <1>7, <2>2 DEF PeerInv, Seen
<1>15. NoOrphanIds'
  BY <1>1, <1>2 DEF NoOrphanIds
<1>16. NothingLost'
  <2> SUFFICES ASSUME NEW m \in DOMAIN published', published'[m] > 0
               PROVE  \/ \E i \in DOMAIN broadcast_tasks' : broadcast_tasks'[i].msg = m
                      \/ \E i \in DOMAIN store'.queue : store'.queue[i].msg = m
                      \/ m \in Range(delivered')
    BY DEF NothingLost
  <2>1. CASE m = Len(published) + 1
    <3>1. Len(broadcast_tasks) + 1 \in DOMAIN broadcast_tasks'
      BY <1>1, <1>6 DEF LogFacts
    <3> QED BY <1>3, <1>6, <2>1, <3>1
  <2>2. CASE m # Len(published) + 1
    <3>1. m \in DOMAIN published /\ published[m] > 0
      BY <1>1, <1>5, <2>2 DEF LogFacts
    <3>2. CASE \E i \in DOMAIN broadcast_tasks : broadcast_tasks[i].msg = m
      <4>1. PICK i \in DOMAIN broadcast_tasks : broadcast_tasks[i].msg = m
        BY <3>2
      <4>2. i \in DOMAIN broadcast_tasks' /\ broadcast_tasks'[i] = broadcast_tasks[i]
        BY <1>1, <1>6 DEF LogFacts
      <4> QED BY <4>1, <4>2
    <3> QED BY <1>1, <1>2, <3>1, <3>2 DEF NothingLost
  <2> QED BY <2>1, <2>2
<1> QED BY <1>9, <1>11, <1>12, <1>13, <1>14, <1>15, <1>16

\* Closing, resuming and losing a connection leave the queue and what the peer knows
\* alone; what is under way stays, or is lost.
LEMMA ConnectionQos ==
  ASSUME QosInv,
         UNCHANGED <<store, next_packet_id, broadcast_tasks, qos2_packet_ids, published, delivered>>,
         \/ toPeer' = <<>> /\ toBroker' = <<>>
         \/ UNCHANGED <<toPeer, toBroker>> /\ (conn' = "up" \/ conn # "up")
  PROVE  TaskInv' /\ QueueInv' /\ FlightInv' /\ Qos0Inv' /\ PeerInv' /\ NoOrphanIds' /\ NothingLost'
<1>1. /\ TaskInv /\ QueueInv /\ FlightInv /\ Qos0Inv /\ PeerInv /\ NoOrphanIds /\ NothingLost
  BY DEF QosInv
<1>2. TaskInv' /\ QueueInv' /\ NoOrphanIds' /\ NothingLost'
  BY <1>1 DEF TaskInv, QueueInv, NoOrphanIds, NothingLost, Handled, Published
<1>3. CASE toPeer' = <<>> /\ toBroker' = <<>>
  <2>1. DOMAIN toPeer' = {} /\ DOMAIN toBroker' = {}
    BY <1>3
  <2>2. FlightInv' /\ Qos0Inv'
    BY <1>3, <2>1 DEF FlightInv, Qos0Inv
  <2>3. PeerInv'
    BY <1>1, <2>1 DEF PeerInv, Seen, Handled
  <2> QED BY <1>2, <2>2, <2>3
<1>4. CASE UNCHANGED <<toPeer, toBroker>> /\ (conn' = "up" \/ conn # "up")
  <2>1. FlightInv'
    BY <1>1, <1>4 DEF FlightInv, InWindow
  <2>2. Qos0Inv' /\ PeerInv'
    BY <1>1, <1>4 DEF Qos0Inv, PeerInv, Seen, Handled, Published
  <2> QED BY <1>2, <2>1, <2>2
<1> QED BY <1>3, <1>4

\* A restart sends the window again, in its order.
LEMMA ResendIsWindow ==
  ASSUME Inv
  PROVE  /\ Resend(store) \in Seq(Packet) /\ Len(Resend(store)) = store.inflight
         /\ \A i \in 1 .. store.inflight : Resend(store)[i] = store.queue[i]
<1>1. QueueFacts /\ WellFormed(store) /\ store.pending \in Nat
  BY TypeFacts DEF Inv, WindowInv, TypeOK
<1>2. CASE store.pending = 0
  BY <1>1, <1>2 DEF Resend, ToResend, WellFormed, QueueFacts
<1>3. CASE store.pending # 0
  <2>1. store.pending - 1 = store.inflight /\ store.inflight <= Len(store.queue) /\ store.inflight \in Int
    BY <1>1, <1>3 DEF WellFormed, QueueFacts
  <2>2. \A i \in 1 .. store.inflight : store.queue[i] \in Packet
    BY <1>1 DEF QueueFacts
  <2>3. /\ SubSeq(store.queue, 1, store.inflight) \in Seq(Packet)
        /\ Len(SubSeq(store.queue, 1, store.inflight)) = store.inflight
        /\ \A i \in 1 .. store.inflight : SubSeq(store.queue, 1, store.inflight)[i] = store.queue[i]
    BY <1>1, <2>1, <2>2, SubSeqProperties DEF QueueFacts
  <2> QED BY <1>3, <2>1, <2>3 DEF Resend, ToResend
<1> QED BY <1>2, <1>3

\* A new connection sends the window again, and nothing else is under way.
LEMMA ConnectQos ==
  ASSUME QosInv, ConnectComplete
  PROVE  TaskInv' /\ QueueInv' /\ FlightInv' /\ Qos0Inv' /\ PeerInv' /\ NoOrphanIds' /\ NothingLost'
<1>1. /\ TaskInv /\ QueueInv /\ FlightInv /\ Qos0Inv /\ PeerInv /\ NoOrphanIds /\ NothingLost
      /\ QueueFacts /\ WireFacts /\ Inv
  BY TypeFacts DEF QosInv
<1>2. /\ UNCHANGED <<store, next_packet_id, broadcast_tasks, qos2_packet_ids, published, delivered, toBroker>>
      /\ toPeer' = Resend(store) /\ conn = "starting" /\ conn' = "up"
  BY DEF ConnectComplete, peer
<1>3. /\ DOMAIN toPeer' = 1 .. store.inflight
      /\ \A i \in 1 .. store.inflight : toPeer'[i] = store.queue[i]
  BY <1>1, <1>2, ResendIsWindow, LenProperties
<1>4. TaskInv' /\ QueueInv' /\ NoOrphanIds' /\ NothingLost'
  BY <1>1, <1>2 DEF TaskInv, QueueInv, NoOrphanIds, NothingLost, Handled, Published
<1>5. toBroker = <<>> /\ DOMAIN toBroker' = {}
  BY <1>1, <1>2 DEF FlightInv
<1>6. \A i, j \in 1 .. store.inflight : store.queue[i].packet_id = store.queue[j].packet_id => i = j
  BY <1>1 DEF QueueInv, QueueFacts
<1>7. FlightInv'
  <2>1. \A i \in DOMAIN toPeer' : InWindow(toPeer[i])'
    BY <1>2, <1>3 DEF InWindow
  <2>2. \A i, j \in DOMAIN toPeer' : toPeer'[i].packet_id = toPeer'[j].packet_id => i = j
    BY <1>3, <1>6
  <2> QED BY <1>2, <1>5, <2>1, <2>2 DEF FlightInv
<1>8. \A i \in DOMAIN toPeer' : Kept(toPeer'[i])
  BY <1>1, <1>3, Packets DEF Kept, QueueInv, QueueFacts
<1>9. Qos0Inv'
  BY <1>8 DEF Qos0Inv
<1>10. PeerInv'
  BY <1>1, <1>2, <1>5 DEF PeerInv, Seen, Handled
<1> QED BY <1>4, <1>7, <1>9, <1>10
-----------------------------------------------------------------------------
(* The peer.                                                               *)

\* A packet that is acknowledged and under way is the only one of its id in the queue.
LEMMA PeerReceivesPublishQos ==
  ASSUME QosInv, PeerReceivesPublish
  PROVE  TaskInv' /\ QueueInv' /\ FlightInv' /\ Qos0Inv' /\ PeerInv' /\ NoOrphanIds' /\ NothingLost'
<1>1. /\ TaskInv /\ QueueInv /\ FlightInv /\ Qos0Inv /\ PeerInv /\ NoOrphanIds /\ NothingLost
      /\ QueueFacts /\ WireFacts /\ LogFacts
  BY TypeFacts DEF QosInv
<1>2. /\ UNCHANGED <<store, conn, next_packet_id, broadcast_tasks, published>>
      /\ toPeer # <<>> /\ toPeer' = Tail(toPeer)
  BY DEF PeerReceivesPublish, session
<1>3. PICK pkt \in Packet : pkt = toPeer[1] /\ pkt = Head(toPeer)
  BY <1>1, <1>2, TailFacts DEF WireFacts
<1>4. /\ pkt.type = "PUBLISH" /\ toBroker' = toBroker \o Reply(pkt)
      /\ delivered' = IF IsRedelivery(pkt) THEN delivered ELSE Append(delivered, pkt.msg)
      /\ qos2_packet_ids' = IF pkt.qos = 2 THEN qos2_packet_ids \cup {pkt.packet_id} ELSE qos2_packet_ids
  BY <1>3 DEF PeerReceivesPublish
<1>5. /\ pkt.packet_id \in Id /\ pkt.qos \in Int /\ pkt.qos >= 0 /\ pkt.qos <= 2 /\ pkt.msg \in Msg
      /\ pkt.msg \in Int
  BY <1>4, Packets
<1>6. /\ Len(toPeer) >= 1 /\ DOMAIN toPeer' = 1 .. Len(toPeer) - 1
      /\ \A i \in 1 .. Len(toPeer) - 1 : toPeer'[i] = toPeer[i + 1]
  BY <1>1, <1>2, TailFacts DEF WireFacts
<1>7. ASSUME NEW i \in DOMAIN toPeer'
      PROVE  i + 1 \in DOMAIN toPeer /\ toPeer'[i] = toPeer[i + 1] /\ i + 1 # 1 /\ i \in Int
  BY <1>1, <1>6 DEF WireFacts
<1>8. 1 \in DOMAIN toPeer
  BY <1>1, <1>6 DEF WireFacts
\* What has been handed on.
<1>9. \A m : Seen(m)' <=> Seen(m) \/ (m = pkt.msg /\ ~ IsRedelivery(pkt))
  <2>1. CASE IsRedelivery(pkt)
    BY <1>4, <2>1 DEF Seen
  <2>2. CASE ~ IsRedelivery(pkt)
    <3>1. delivered' = Append(delivered, pkt.msg)
      BY <1>4, <2>2
    <3>2. /\ DOMAIN delivered' = 1 .. Len(delivered) + 1 /\ delivered'[Len(delivered) + 1] = pkt.msg
          /\ \A i \in 1 .. Len(delivered) : delivered'[i] = delivered[i]
      BY <1>1, <1>5, <3>1, AppendFacts DEF LogFacts
    <3>3. ASSUME NEW m, Seen(m)' PROVE Seen(m) \/ m = pkt.msg
      <4>1. PICK j \in DOMAIN delivered' : delivered'[j] = m
        BY <3>3 DEF Seen
      <4>2. j = Len(delivered) + 1 \/ j \in DOMAIN delivered
        BY <1>1, <3>2, <4>1 DEF LogFacts
      <4> QED BY <1>1, <3>2, <4>1, <4>2 DEF Seen, LogFacts
    <3>4. ASSUME NEW m, Seen(m) PROVE Seen(m)'
      <4>1. PICK j \in DOMAIN delivered : delivered[j] = m
        BY <3>4 DEF Seen
      <4>2. j \in DOMAIN delivered' /\ delivered'[j] = m
        BY <1>1, <3>2, <4>1 DEF LogFacts
      <4> QED BY <4>2 DEF Seen
    <3>5. Seen(pkt.msg)'
      <4>1. Len(delivered) + 1 \in DOMAIN delivered'
        BY <1>1, <3>2 DEF LogFacts
      <4> QED BY <3>2, <4>1 DEF Seen
    <3> QED BY <2>2, <3>3, <3>4, <3>5
  <2> QED BY <2>1, <2>2
<1>10. TaskInv' /\ QueueInv'
  BY <1>1, <1>2 DEF TaskInv, QueueInv, Handled, Published
<1>11. NothingLost'
  <2>1. \A m : m \in Range(delivered) <=> Seen(m)
    BY DEF Range, Seen
  <2>2. \A m : m \in Range(delivered') <=> Seen(m)'
    BY DEF Range, Seen
  <2> QED BY <1>1, <1>2, <1>9, <2>1, <2>2 DEF NothingLost
<1>12. Qos0Inv'
  <2>1. ASSUME NEW i \in DOMAIN toPeer', ~ Kept(toPeer'[i])
        PROVE  Published(toPeer[i])' /\ ~ Seen(toPeer[i].msg)'
    <3>1. Published(toPeer[i + 1]) /\ ~ Seen(toPeer[i + 1].msg)
      BY <1>1, <1>7, <2>1 DEF Qos0Inv
    <3>2. toPeer[i + 1].msg # pkt.msg
      <4>1. CASE Kept(pkt)
        <5>1. PICK k \in 1 .. store.inflight : store.queue[k] = pkt
          BY <1>1, <1>3, <1>8, <4>1 DEF FlightInv, InWindow
        <5>2. Published(pkt) /\ pkt.qos > 0
          BY <1>1, <1>4, <5>1 DEF QueueInv, QueueFacts
        <5>3. toPeer[i + 1].qos = 0
          <6>1. toPeer[i + 1] \in Packet
            BY <1>1, <1>7 DEF WireFacts
          <6>2. ~ (toPeer[i + 1].qos > 0)
            BY <1>7, <2>1 DEF Kept
          <6>3. toPeer[i + 1].qos \in Int /\ toPeer[i + 1].qos >= 0
            BY <6>1, Packets
          <6> QED BY <6>2, <6>3
        <5>4. published[pkt.msg] # 0 /\ published[toPeer[i + 1].msg] = 0
          BY <1>5, <3>1, <5>2, <5>3 DEF Published
        <5> QED BY <5>4
      <4>2. CASE ~ Kept(pkt)
        BY <1>1, <1>3, <1>7, <1>8, <2>1, <4>2 DEF Qos0Inv
      <4> QED BY <4>1, <4>2
    <3>3. Published(toPeer[i])'
      BY <1>2, <1>7, <3>1 DEF Published, Handled
    <3> QED BY <1>7, <1>9, <3>1, <3>2, <3>3
  <2>2. ASSUME NEW i \in DOMAIN toPeer', NEW j \in DOMAIN toPeer', ~ Kept(toPeer'[i]), ~ Kept(toPeer'[j]),
               toPeer'[i].msg = toPeer'[j].msg
        PROVE  i = j
    <3>1. i + 1 = j + 1
      BY <1>1, <1>7, <2>2 DEF Qos0Inv
    <3> QED BY <1>7, <3>1
  <2> QED BY <2>1, <2>2 DEF Qos0Inv
<1>13. CASE pkt.qos = 0
  <2>1. toBroker' = toBroker
    <3>1. Reply(pkt) = <<>>
      BY <1>13 DEF Reply
    <3> QED BY <1>1, <1>4, <3>1, ConcatEmptySeq DEF WireFacts
  <2>2. qos2_packet_ids' = qos2_packet_ids /\ ~ IsRedelivery(pkt) /\ ~ Kept(pkt)
    BY <1>4, <1>13 DEF IsRedelivery, Kept
  <2>3. Published(pkt) /\ ~ Seen(pkt.msg)
    BY <1>1, <1>3, <1>8, <2>2 DEF Qos0Inv
  <2>4. FlightInv'
    <3>1. conn' = "up"
      BY <1>1, <1>2 DEF FlightInv
    <3>2. \A i \in DOMAIN toPeer' : Kept(toPeer'[i]) => InWindow(toPeer[i])'
      BY <1>1, <1>2, <1>7 DEF FlightInv, InWindow
    <3>3. \A i, j \in DOMAIN toPeer' : Kept(toPeer'[i]) /\ Kept(toPeer'[j])
             /\ toPeer'[i].packet_id = toPeer'[j].packet_id => i = j
      <4> SUFFICES ASSUME NEW i \in DOMAIN toPeer', NEW j \in DOMAIN toPeer', Kept(toPeer'[i]), Kept(toPeer'[j]),
                          toPeer'[i].packet_id = toPeer'[j].packet_id
                   PROVE  i = j
        OBVIOUS
      <4>1. i + 1 = j + 1
        BY <1>1, <1>7 DEF FlightInv
      <4> QED BY <1>7, <4>1
    <3>4. \A i \in DOMAIN toPeer', j \in DOMAIN toBroker' :
             Kept(toPeer'[i]) => toPeer'[i].packet_id # toBroker'[j].packet_id
      BY <1>1, <1>7, <2>1 DEF FlightInv
    <3> QED BY <1>1, <1>2, <2>1, <3>1, <3>2, <3>3, <3>4 DEF FlightInv
  <2>5. NoOrphanIds'
    BY <1>1, <1>2, <2>2 DEF NoOrphanIds
  <2>6. \A k \in DOMAIN store.queue : store.queue[k].type = "PUBLISH" => store.queue[k].msg # pkt.msg
    BY <1>1, <1>13, <2>3 DEF QueueInv, Published
  <2>7. PeerInv'
    <3>1. \A i, j \in DOMAIN delivered' : delivered'[i] = delivered'[j] /\ i # j => published'[delivered'[i]] = 1
      <4>1. /\ DOMAIN delivered' = 1 .. Len(delivered) + 1 /\ delivered'[Len(delivered) + 1] = pkt.msg
            /\ \A i \in 1 .. Len(delivered) : delivered'[i] = delivered[i]
        BY <1>1, <1>4, <1>5, <2>2, AppendFacts DEF LogFacts
      <4>2. \A i \in DOMAIN delivered : delivered[i] # pkt.msg
        BY <2>3 DEF Seen
      <4>3. \A i, j \in DOMAIN delivered : delivered[i] = delivered[j] /\ i # j => published[delivered[i]] = 1
        BY <1>1 DEF PeerInv
      <4> QED BY <1>1, <1>2, <4>1, <4>2, <4>3 DEF LogFacts
    <3>2. \A j \in DOMAIN delivered' : delivered'[j] <= Handled'
      <4>1. \A j \in DOMAIN delivered' : Seen(delivered[j])'
        BY DEF Seen
      <4>2. \A m : Seen(m) => m <= Handled
        BY <1>1 DEF PeerInv, Seen
      <4>3. Handled' = Handled /\ pkt.msg <= Handled
        BY <1>2, <2>3 DEF Handled, Published
      <4> QED BY <1>9, <4>1, <4>2, <4>3
    <3>3. \A k \in DOMAIN store.queue : store.queue[k].type = "PUBLISH" =>
             (Seen(store.queue[k].msg)' <=> Seen(store.queue[k].msg))
      BY <1>2, <1>9, <2>6
    <3>4. \A m : Seen(m) => Seen(m)'
      BY <1>9
    <3> QED BY <1>1, <1>2, <2>1, <2>2, <3>1, <3>2, <3>3, <3>4 DEF PeerInv
  <2> QED BY <1>10, <1>11, <1>12, <2>4, <2>5, <2>7
<1>14. CASE pkt.qos > 0
  <2> DEFINE ack == Ack(IF pkt.qos = 1 THEN "PUBACK" ELSE "PUBREC", pkt.packet_id)
  <2>1. ack \in Acks /\ ack.packet_id = pkt.packet_id /\ ack.type = IF pkt.qos = 1 THEN "PUBACK" ELSE "PUBREC"
    BY <1>5 DEF Ack, Acks
  <2>2. toBroker' = Append(toBroker, ack)
    <3>1. Reply(pkt) = <<ack>>
      BY <1>5, <1>14 DEF Reply
    <3> QED BY <1>1, <1>4, <2>1, <3>1, AppendIsConcat DEF WireFacts
  <2> HIDE DEF ack
  <2>3. /\ DOMAIN toBroker' = 1 .. Len(toBroker) + 1 /\ toBroker'[Len(toBroker) + 1] = ack
        /\ \A i \in 1 .. Len(toBroker) : toBroker'[i] = toBroker[i]
    BY <1>1, <2>1, <2>2, AppendFacts DEF WireFacts
  <2>4. ASSUME NEW i \in DOMAIN toBroker'
        PROVE  i \in Int /\ (\/ i = Len(toBroker) + 1 /\ toBroker'[i] = ack
                             \/ i \in DOMAIN toBroker /\ toBroker'[i] = toBroker[i])
    BY <1>1, <2>3 DEF WireFacts
  <2>5. PICK k0 \in 1 .. store.inflight : store.queue[k0] = pkt
    BY <1>1, <1>3, <1>8, <1>14 DEF FlightInv, InWindow, Kept
  <2>6. k0 \in DOMAIN store.queue /\ Kept(pkt)
    BY <1>1, <1>14, <2>5 DEF QueueFacts, Kept
  <2>7. \A k \in DOMAIN store.queue : store.queue[k].packet_id = pkt.packet_id => k = k0
    BY <1>1, <2>5, <2>6 DEF QueueInv
  <2>8. Seen(pkt.msg)'
    <3>1. IsRedelivery(pkt) => Seen(pkt.msg)
      BY <1>1, <1>4, <2>5, <2>6 DEF IsRedelivery, PeerInv
    <3> QED BY <1>9, <3>1
  <2>9. \A j \in DOMAIN toBroker : toBroker[j].packet_id # pkt.packet_id
    BY <1>1, <1>3, <1>8, <2>6 DEF FlightInv
  <2>10. \A i \in DOMAIN toPeer' : Kept(toPeer'[i]) => toPeer'[i].packet_id # pkt.packet_id
    BY <1>1, <1>3, <1>7, <1>8, <2>6 DEF FlightInv
  <2>11. FlightInv'
    <3>1. conn' = "up"
      BY <1>1, <1>2 DEF FlightInv
    <3>2. \A i \in DOMAIN toPeer' : Kept(toPeer'[i]) => InWindow(toPeer[i])'
      BY <1>1, <1>2, <1>7 DEF FlightInv, InWindow
    <3>3. \A i, j \in DOMAIN toPeer' : Kept(toPeer'[i]) /\ Kept(toPeer'[j])
             /\ toPeer'[i].packet_id = toPeer'[j].packet_id => i = j
      <4> SUFFICES ASSUME NEW i \in DOMAIN toPeer', NEW j \in DOMAIN toPeer', Kept(toPeer'[i]), Kept(toPeer'[j]),
                          toPeer'[i].packet_id = toPeer'[j].packet_id
                   PROVE  i = j
        OBVIOUS
      <4>1. i + 1 = j + 1
        BY <1>1, <1>7 DEF FlightInv
      <4> QED BY <1>7, <4>1
    <3>4. \A i \in DOMAIN toPeer', j \in DOMAIN toBroker' :
             Kept(toPeer'[i]) => toPeer'[i].packet_id # toBroker'[j].packet_id
      BY <1>1, <1>7, <2>1, <2>4, <2>10 DEF FlightInv
    <3>5. \A i, j \in DOMAIN toBroker' : toBroker'[i].packet_id = toBroker'[j].packet_id => i = j
      BY <1>1, <2>1, <2>4, <2>9 DEF FlightInv
    <3>6. Answers(ack, store.queue[k0])
      BY <1>4, <1>5, <1>14, <2>1, <2>5 DEF Answers
    <3>7. \A i \in DOMAIN toBroker' : \E k \in 1 .. store'.inflight : Answers(toBroker'[i], store'.queue[k])
      BY <1>1, <1>2, <2>4, <2>5, <3>6 DEF FlightInv
    <3> QED BY <3>1, <3>2, <3>3, <3>4, <3>5, <3>7 DEF FlightInv
  <2>12. NoOrphanIds'
    BY <1>1, <1>2, <1>4, <2>5, <2>6 DEF NoOrphanIds
  <2>13. PeerInv'
    <3>1. \A i, j \in DOMAIN delivered' : delivered'[i] = delivered'[j] /\ i # j => published'[delivered'[i]] = 1
      <4>1. \A i, j \in DOMAIN delivered : delivered[i] = delivered[j] /\ i # j => published[delivered[i]] = 1
        BY <1>1 DEF PeerInv
      <4>2. CASE IsRedelivery(pkt)
        BY <1>2, <1>4, <4>1, <4>2
      <4>3. CASE ~ IsRedelivery(pkt)
        <5>1. /\ DOMAIN delivered' = 1 .. Len(delivered) + 1 /\ delivered'[Len(delivered) + 1] = pkt.msg
              /\ \A i \in 1 .. Len(delivered) : delivered'[i] = delivered[i]
          BY <1>1, <1>4, <1>5, <4>3, AppendFacts DEF LogFacts
        <5>2. pkt.qos = 2 => ~ Seen(pkt.msg)
          BY <1>1, <1>4, <2>5, <2>6, <4>3 DEF IsRedelivery, PeerInv
        <5>3. pkt.qos = published[pkt.msg]
          BY <1>1, <1>4, <2>5, <2>6 DEF QueueInv, Published
        <5>4. \A i \in DOMAIN delivered : delivered[i] = pkt.msg => published[pkt.msg] = 1
          BY <1>5, <1>14, <5>2, <5>3 DEF Seen
        <5>5. Len(delivered) \in Nat /\ DOMAIN delivered = 1 .. Len(delivered)
          BY <1>1 DEF LogFacts
        <5>6. ASSUME NEW i \in DOMAIN delivered'
              PROVE  \/ i \in DOMAIN delivered /\ delivered'[i] = delivered[i]
                     \/ i = Len(delivered) + 1 /\ delivered'[i] = pkt.msg
          BY <5>1, <5>5
        <5> QED BY <1>2, <4>1, <5>4, <5>6
      <4> QED BY <4>2, <4>3
    <3>2. \A j \in DOMAIN delivered' : delivered'[j] <= Handled'
      <4>1. \A j \in DOMAIN delivered' : Seen(delivered[j])'
        BY DEF Seen
      <4>2. \A m : Seen(m) => m <= Handled
        BY <1>1 DEF PeerInv, Seen
      <4>3. Handled' = Handled /\ pkt.msg <= Handled
        BY <1>1, <1>2, <1>4, <2>5, <2>6 DEF Handled, Published, QueueInv
      <4> QED BY <1>9, <4>1, <4>2, <4>3
    <3>3. ASSUME NEW k \in DOMAIN store'.queue, store'.queue[k].type = "PUBLISH",
                 store'.queue[k].packet_id \in qos2_packet_ids'
          PROVE  Seen(store.queue[k].msg)'
      <4>1. store' = store
        BY <1>2
      <4>2. CASE store.queue[k].packet_id = pkt.packet_id
        BY <2>5, <2>7, <2>8, <3>3, <4>1, <4>2
      <4>3. CASE store.queue[k].packet_id # pkt.packet_id
        <5>1. Seen(store.queue[k].msg)
          BY <1>1, <1>4, <3>3, <4>1, <4>3 DEF PeerInv
        <5> QED BY <1>9, <4>1, <5>1
      <4> QED BY <4>2, <4>3
    <3>4. ASSUME NEW k \in DOMAIN store'.queue, store'.queue[k].type = "PUBLISH", store'.queue[k].qos = 2,
                 store'.queue[k].packet_id \notin qos2_packet_ids'
          PROVE  ~ Seen(store.queue[k].msg)'
      <4>1. store' = store
        BY <1>2
      <4>2. ~ Seen(store.queue[k].msg)
        BY <1>1, <1>4, <3>4, <4>1 DEF PeerInv
      <4>3. k # k0
        BY <1>4, <2>5, <3>4, <4>1
      <4>4. store.queue[k].msg # pkt.msg
        <5>1. k < k0 \/ k0 < k
          BY <1>1, <2>6, <3>4, <4>1, <4>3 DEF QueueFacts
        <5>2. store.queue[k].msg < pkt.msg \/ pkt.msg < store.queue[k].msg
          BY <1>1, <1>4, <2>5, <2>6, <3>4, <4>1, <5>1 DEF QueueInv
        <5>3. store.queue[k].msg \in Int
          BY <1>1, <3>4, <4>1, Packets DEF QueueFacts
        <5> QED BY <1>5, <5>2, <5>3
      <4> QED BY <1>9, <4>1, <4>2, <4>4
    <3>5. \A k \in DOMAIN store'.queue : store'.queue[k].packet_id \in qos2_packet_ids' => store'.queue[k].qos # 1
      BY <1>1, <1>2, <1>4, <1>14, <2>5, <2>7 DEF PeerInv
    <3>6. ASSUME NEW i \in DOMAIN toBroker'
          PROVE  /\ toBroker'[i].type = "PUBCOMP" => toBroker'[i].packet_id \notin qos2_packet_ids'
                 /\ toBroker'[i].type # "PUBCOMP" =>
                      \A k \in DOMAIN store'.queue :
                        store'.queue[k].packet_id = toBroker'[i].packet_id => Seen(store.queue[k].msg)'
      <4>1. store' = store
        BY <1>2
      <4>2. CASE i = Len(toBroker) + 1 /\ toBroker'[i] = ack
        BY <2>1, <2>5, <2>7, <2>8, <4>1, <4>2
      <4>3. CASE i \in DOMAIN toBroker /\ toBroker'[i] = toBroker[i]
        <5>1. toBroker[i].type = "PUBCOMP" => toBroker[i].packet_id \notin qos2_packet_ids
          BY <1>1, <4>3 DEF PeerInv
        <5>2. toBroker[i].type # "PUBCOMP" =>
                \A k \in DOMAIN store.queue :
                  store.queue[k].packet_id = toBroker[i].packet_id => Seen(store.queue[k].msg)
          BY <1>1, <4>3 DEF PeerInv
        <5>3. \A m : Seen(m) => Seen(m)'
          BY <1>9
        <5> QED BY <1>4, <2>9, <4>1, <4>3, <5>1, <5>2, <5>3
      <4> QED BY <2>4, <4>2, <4>3
    <3> QED BY <3>1, <3>2, <3>3, <3>4, <3>5, <3>6 DEF PeerInv
  <2> QED BY <1>10, <1>11, <1>12, <2>11, <2>12, <2>13
<1> QED BY <1>5, <1>13, <1>14

\* A PUBREL makes the peer forget an id that it acknowledges once more.
LEMMA PeerReceivesPubrelQos ==
  ASSUME QosInv, PeerReceivesPubrel
  PROVE  TaskInv' /\ QueueInv' /\ FlightInv' /\ Qos0Inv' /\ PeerInv' /\ NoOrphanIds' /\ NothingLost'
<1>1. /\ TaskInv /\ QueueInv /\ FlightInv /\ Qos0Inv /\ PeerInv /\ NoOrphanIds /\ NothingLost
      /\ QueueFacts /\ WireFacts /\ LogFacts
  BY TypeFacts DEF QosInv
<1>2. /\ UNCHANGED <<store, conn, next_packet_id, broadcast_tasks, published, delivered>>
      /\ toPeer # <<>> /\ toPeer' = Tail(toPeer)
  BY DEF PeerReceivesPubrel, session
<1>3. PICK pkt \in Packet : pkt = toPeer[1] /\ pkt = Head(toPeer)
  BY <1>1, <1>2, TailFacts DEF WireFacts
<1> DEFINE ack == Ack("PUBCOMP", pkt.packet_id)
<1>4. /\ pkt.type = "PUBREL" /\ toBroker' = Append(toBroker, ack)
      /\ qos2_packet_ids' = qos2_packet_ids \ {pkt.packet_id}
  BY <1>3 DEF PeerReceivesPubrel, AfterPubrel
<1>5. pkt.packet_id \in Id /\ Kept(pkt)
  BY <1>4, Packets DEF Kept
<1>6. ack \in Acks /\ ack.packet_id = pkt.packet_id /\ ack.type = "PUBCOMP"
  BY <1>5 DEF Ack, Acks
<1> HIDE DEF ack
<1>7. /\ Len(toPeer) >= 1 /\ DOMAIN toPeer' = 1 .. Len(toPeer) - 1
      /\ \A i \in 1 .. Len(toPeer) - 1 : toPeer'[i] = toPeer[i + 1]
  BY <1>1, <1>2, TailFacts DEF WireFacts
<1>8. ASSUME NEW i \in DOMAIN toPeer'
      PROVE  i + 1 \in DOMAIN toPeer /\ toPeer'[i] = toPeer[i + 1] /\ i + 1 # 1 /\ i \in Int
  BY <1>1, <1>7 DEF WireFacts
<1>9. 1 \in DOMAIN toPeer
  BY <1>1, <1>7 DEF WireFacts
<1>10. /\ DOMAIN toBroker' = 1 .. Len(toBroker) + 1 /\ toBroker'[Len(toBroker) + 1] = ack
       /\ \A i \in 1 .. Len(toBroker) : toBroker'[i] = toBroker[i]
  BY <1>1, <1>4, <1>6, AppendFacts DEF WireFacts
<1>11. ASSUME NEW i \in DOMAIN toBroker'
       PROVE  \/ i = Len(toBroker) + 1 /\ toBroker'[i] = ack
              \/ i \in DOMAIN toBroker /\ toBroker'[i] = toBroker[i]
  BY <1>1, <1>10 DEF WireFacts
<1>12. PICK k0 \in 1 .. store.inflight : store.queue[k0] = pkt
  BY <1>1, <1>3, <1>5, <1>9 DEF FlightInv, InWindow
<1>13. k0 \in DOMAIN store.queue
  BY <1>1, <1>12 DEF QueueFacts
<1>14. \A k \in DOMAIN store.queue : store.queue[k].packet_id = pkt.packet_id => k = k0
  BY <1>1, <1>12, <1>13 DEF QueueInv
<1>15. \A j \in DOMAIN toBroker : toBroker[j].packet_id # pkt.packet_id
  BY <1>1, <1>3, <1>5, <1>9 DEF FlightInv
<1>16. \A i \in DOMAIN toPeer' : Kept(toPeer'[i]) => toPeer'[i].packet_id # pkt.packet_id
  BY <1>1, <1>3, <1>5, <1>8, <1>9 DEF FlightInv
<1>17. \A m : Seen(m)' <=> Seen(m)
  BY <1>2 DEF Seen
<1>18. TaskInv' /\ QueueInv' /\ NothingLost'
  BY <1>1, <1>2 DEF TaskInv, QueueInv, NothingLost, Handled, Published
<1>19. NoOrphanIds'
  BY <1>1, <1>2, <1>4 DEF NoOrphanIds
<1>20. Qos0Inv'
  <2>1. \A i \in DOMAIN toPeer' : ~ Kept(toPeer'[i]) => Published(toPeer[i])' /\ ~ Seen(toPeer[i].msg)'
    BY <1>1, <1>2, <1>8, <1>17 DEF Qos0Inv, Published, Handled
  <2>2. ASSUME NEW i \in DOMAIN toPeer', NEW j \in DOMAIN toPeer', ~ Kept(toPeer'[i]), ~ Kept(toPeer'[j]),
               toPeer'[i].msg = toPeer'[j].msg
        PROVE  i = j
    <3>1. i + 1 = j + 1
      BY <1>1, <1>8, <2>2 DEF Qos0Inv
    <3> QED BY <1>8, <3>1
  <2> QED BY <2>1, <2>2 DEF Qos0Inv
<1>21. FlightInv'
  <2>1. conn' = "up"
    BY <1>1, <1>2 DEF FlightInv
  <2>2. \A i \in DOMAIN toPeer' : Kept(toPeer'[i]) => InWindow(toPeer[i])'
    BY <1>1, <1>2, <1>8 DEF FlightInv, InWindow
  <2>3. \A i, j \in DOMAIN toPeer' : Kept(toPeer'[i]) /\ Kept(toPeer'[j])
           /\ toPeer'[i].packet_id = toPeer'[j].packet_id => i = j
    <3> SUFFICES ASSUME NEW i \in DOMAIN toPeer', NEW j \in DOMAIN toPeer', Kept(toPeer'[i]), Kept(toPeer'[j]),
                        toPeer'[i].packet_id = toPeer'[j].packet_id
                 PROVE  i = j
      OBVIOUS
    <3>1. i + 1 = j + 1
      BY <1>1, <1>8 DEF FlightInv
    <3> QED BY <1>8, <3>1
  <2>4. \A i \in DOMAIN toPeer', j \in DOMAIN toBroker' :
           Kept(toPeer'[i]) => toPeer'[i].packet_id # toBroker'[j].packet_id
    BY <1>1, <1>6, <1>8, <1>11, <1>16 DEF FlightInv
  <2>5. \A i, j \in DOMAIN toBroker' : toBroker'[i].packet_id = toBroker'[j].packet_id => i = j
    BY <1>1, <1>6, <1>11, <1>15 DEF FlightInv
  <2>6. Answers(ack, store.queue[k0])
    BY <1>4, <1>6, <1>12 DEF Answers
  <2>7. \A i \in DOMAIN toBroker' : \E k \in 1 .. store'.inflight : Answers(toBroker'[i], store'.queue[k])
    BY <1>1, <1>2, <1>11, <1>12, <2>6 DEF FlightInv
  <2> QED BY <2>1, <2>2, <2>3, <2>4, <2>5, <2>7 DEF FlightInv
<1>22. PeerInv'
  <2>1. ASSUME NEW k \in DOMAIN store'.queue, store'.queue[k].type = "PUBLISH", store'.queue[k].qos = 2,
               store'.queue[k].packet_id \notin qos2_packet_ids'
        PROVE  ~ Seen(store.queue[k].msg)'
    <3>1. store' = store
      BY <1>2
    <3>2. store.queue[k].packet_id # pkt.packet_id
      BY <1>4, <1>12, <1>14, <2>1, <3>1
    <3>3. ~ Seen(store.queue[k].msg)
      BY <1>1, <1>4, <2>1, <3>1, <3>2 DEF PeerInv
    <3> QED BY <1>17, <3>1, <3>3
  <2>2. ASSUME NEW i \in DOMAIN toBroker'
        PROVE  /\ toBroker'[i].type = "PUBCOMP" => toBroker'[i].packet_id \notin qos2_packet_ids'
               /\ toBroker'[i].type # "PUBCOMP" =>
                    \A k \in DOMAIN store'.queue :
                      store'.queue[k].packet_id = toBroker'[i].packet_id => Seen(store.queue[k].msg)'
    <3>1. CASE i = Len(toBroker) + 1 /\ toBroker'[i] = ack
      BY <1>4, <1>6, <3>1
    <3>2. CASE i \in DOMAIN toBroker /\ toBroker'[i] = toBroker[i]
      <4>1. toBroker[i].type = "PUBCOMP" => toBroker[i].packet_id \notin qos2_packet_ids
        BY <1>1, <3>2 DEF PeerInv
      <4>2. toBroker[i].type # "PUBCOMP" =>
              \A k \in DOMAIN store.queue :
                store.queue[k].packet_id = toBroker[i].packet_id => Seen(store.queue[k].msg)
        BY <1>1, <3>2 DEF PeerInv
      <4> QED BY <1>2, <1>4, <1>17, <3>2, <4>1, <4>2
    <3> QED BY <1>11, <3>1, <3>2
  <2>3. \A k \in DOMAIN store'.queue :
          /\ store'.queue[k].type = "PUBLISH" /\ store'.queue[k].packet_id \in qos2_packet_ids' => Seen(store.queue[k].msg)'
          /\ store'.queue[k].packet_id \in qos2_packet_ids' => store'.queue[k].qos # 1
    BY <1>1, <1>2, <1>4, <1>17 DEF PeerInv
  <2>4. /\ \A j \in DOMAIN delivered' : delivered'[j] <= Handled'
        /\ \A i, j \in DOMAIN delivered' : delivered'[i] = delivered'[j] /\ i # j => published'[delivered'[i]] = 1
    BY <1>1, <1>2 DEF PeerInv, Handled
  <2> QED BY <2>1, <2>2, <2>3, <2>4 DEF PeerInv
<1> QED BY <1>18, <1>19, <1>20, <1>21, <1>22
-----------------------------------------------------------------------------
(* The session's IO thread: broadcasts.                                    *)

\* Giving out an id makes all others one older; the oldest id is the next one.
LEMMA AgeStep ==
  ASSUME NEW n \in Id, NEW id \in Id
  PROVE  /\ AgeAt(n, n) = IdSpace
         /\ AgeAt(NextId(n), n) = 1
         /\ id # n => AgeAt(NextId(n), id) = AgeAt(n, id) + 1
         /\ AgeAt(n, id) \in Int
<1>1. /\ IdSpace \in Nat /\ IdSpace >= 2 /\ n \in Int /\ id \in Int
      /\ n >= 0 /\ id >= 0 /\ n < IdSpace /\ id < IdSpace
  BY ConstantFacts DEF Id
<1> QED BY <1>1 DEF AgeAt, NextId

\* Storing a packet: it is in the window if it may be sent now, and then it is the last.
LEMMA StoreEffect ==
  ASSUME NEW st \in Stores, WellFormed(st), NEW pkt \in Packet
  PROVE  LET r == StoreMessage(st, pkt) IN
         /\ r.queue = Append(st.queue, pkt)
         /\ r.inflight = IF SendNow(st) THEN st.inflight + 1 ELSE st.inflight
         /\ SendNow(st) => Len(st.queue) = st.inflight
<1>1. /\ st.queue \in Seq(Packet) /\ st.pending \in Nat /\ st.inflight \in Nat
      /\ Len(st.queue) \in Nat /\ inflight_window_size \in Nat
  BY WindowAssumption DEF Stores
<1>2. CASE SendNow(st)
  BY <1>1, <1>2 DEF StoreMessage, WellFormed, SendNow
<1>3. CASE ~ SendNow(st)
  BY <1>1, <1>3 DEF StoreMessage
<1> QED BY <1>2, <1>3

\* What handling a broadcast does, the packet being the one made of it.
BroadcastOf(task, pkt) ==
  /\ task.msg = Handled + 1 /\ task.qos = published[Handled + 1] /\ task = broadcast_tasks[1]
  /\ pkt.type = "PUBLISH" /\ pkt.qos = task.qos /\ pkt.msg = task.msg
  /\ task.qos = 0 => UNCHANGED <<next_packet_id, store>>
  /\ task.qos > 0 => /\ pkt.packet_id = next_packet_id
                     /\ next_packet_id' = NextId(next_packet_id)
                     /\ store'.queue = Append(store.queue, pkt)
                     /\ store'.inflight = IF SendNow(store) THEN store.inflight + 1
                                                        ELSE store.inflight
                     /\ SendNow(store) => Len(store.queue) = store.inflight
  /\ \/ toPeer' = toPeer
     \/ toPeer' = Append(toPeer, pkt) /\ (task.qos = 0 \/ SendNow(store)) /\ conn = "up"

\* Handling a broadcast takes the first task and makes one packet of it.
LEMMA BroadcastEffect ==
  ASSUME QosInv, HandleBroadcast
  PROVE  \E task \in BroadcastTask, pkt \in Packet : BroadcastOf(task, pkt)
<1>1. TypeOK /\ WellFormed(store) /\ store \in Stores /\ TaskInv /\ LogFacts /\ WireFacts
  BY TypeFacts DEF QosInv, Inv, TypeOK, WindowInv, Stores
<1>2. broadcast_tasks # <<>>
  BY DEF HandleBroadcast
<1>3. PICK task \in BroadcastTask : task = broadcast_tasks[1] /\ task = Head(broadcast_tasks)
  BY <1>1, <1>2, TailFacts DEF LogFacts
<1>4. task.msg = Handled + 1 /\ task.qos = published[Handled + 1]
  <2>1. 1 \in DOMAIN broadcast_tasks
    BY <1>1, <1>2, TailFacts DEF LogFacts
  <2> QED BY <1>1, <1>3, <2>1 DEF TaskInv
<1>5. task.qos \in 0 .. 2 /\ task.msg \in Msg
  BY DEF BroadcastTask
<1> DEFINE p == Publish(IF task.qos > 0 THEN next_packet_id ELSE 0, task.qos, task.msg)
<1>6. p \in Packet
  <2>1. next_packet_id \in Id
    BY <1>1 DEF TypeOK
  <2>2. (IF task.qos > 0 THEN next_packet_id ELSE 0) \in Id
    BY <2>1, ConstantFacts
  <2> QED BY <1>5, <2>2, ConstantFacts
<1>7. /\ p.type = "PUBLISH" /\ p.qos = task.qos /\ p.msg = task.msg
      /\ task.qos > 0 => p.packet_id = next_packet_id
  BY DEF Publish
<1>8. /\ task.qos = 0 => UNCHANGED <<next_packet_id, store>>
      /\ task.qos > 0 => next_packet_id' = NextId(next_packet_id) /\ store' = StoreMessage(store, p)
      /\ toPeer' = IF (task.qos = 0 \/ SendNow(store)) /\ ~ task.is_session_closed THEN Send(<<p>>) ELSE toPeer
  <2>1. task.qos = 0 => ~ (task.qos > 0)
    BY <1>5
  <2> QED BY <1>3, <2>1 DEF HandleBroadcast
<1> HIDE DEF p
<1>9. task.qos > 0 => /\ store'.queue = Append(store.queue, p)
                      /\ store'.inflight = IF SendNow(store) THEN store.inflight + 1 ELSE store.inflight
                      /\ SendNow(store) => Len(store.queue) = store.inflight
  BY <1>1, <1>6, <1>8, StoreEffect
<1>10. \/ toPeer' = toPeer
       \/ toPeer' = Append(toPeer, p) /\ (task.qos = 0 \/ SendNow(store)) /\ conn = "up"
  <2>1. Append(toPeer, p) = toPeer \o <<p>>
    BY <1>1, <1>6, AppendIsConcat DEF WireFacts
  <2>2. toPeer' = toPeer \/ (toPeer' = Send(<<p>>) /\ (task.qos = 0 \/ SendNow(store)))
    BY <1>8, Zenon
  <2>3. Send(<<p>>) = toPeer \/ (Send(<<p>>) = toPeer \o <<p>> /\ conn = "up")
    BY DEF Send
  <2> QED BY <2>1, <2>2, <2>3, Zenon
<1> QED BY <1>3, <1>4, <1>6, <1>7, <1>8, <1>9, <1>10 DEF BroadcastOf

\* The packet of a broadcast has an id of its own, and a message newer than all others.
LEMMA HandleBroadcastQos ==
  ASSUME next_packet_id' # next_packet_id => FreeId, QosInv, HandleBroadcast
  PROVE  TaskInv' /\ QueueInv' /\ FlightInv' /\ Qos0Inv' /\ PeerInv' /\ NoOrphanIds' /\ NothingLost'
<1>1. /\ TaskInv /\ QueueInv /\ FlightInv /\ Qos0Inv /\ PeerInv /\ NoOrphanIds /\ NothingLost
      /\ QueueFacts /\ WireFacts /\ LogFacts
  BY TypeFacts DEF QosInv
<1>2. /\ UNCHANGED <<conn, toBroker, qos2_packet_ids, delivered, published>>
      /\ broadcast_tasks # <<>> /\ broadcast_tasks' = Tail(broadcast_tasks)
  BY DEF HandleBroadcast, peer
<1>3. PICK task \in BroadcastTask, pkt \in Packet : BroadcastOf(task, pkt)
  BY BroadcastEffect
<1>4. /\ Len(broadcast_tasks) >= 1 /\ Len(broadcast_tasks') = Len(broadcast_tasks) - 1
      /\ DOMAIN broadcast_tasks' = 1 .. Len(broadcast_tasks) - 1
      /\ \A i \in 1 .. Len(broadcast_tasks) - 1 : broadcast_tasks'[i] = broadcast_tasks[i + 1]
  BY <1>1, <1>2, TailFacts DEF LogFacts
<1>5. /\ Handled' = Handled + 1 /\ Handled \in Nat /\ Handled + 1 <= Len(published) /\ Handled < MaxMsgs
      /\ MaxMsgs \in Nat
  BY <1>1, <1>2, <1>4, DeliveryAssumption DEF Handled, LogFacts, TaskInv
<1>6. /\ pkt.qos \in Int /\ pkt.qos >= 0 /\ pkt.qos <= 2 /\ pkt.msg \in Int
      /\ pkt.msg = Handled + 1 /\ pkt.qos = published[Handled + 1]
  BY <1>3, Packets DEF BroadcastOf
<1>7. \A m : Seen(m)' <=> Seen(m)
  BY <1>2 DEF Seen
<1>8. ~ Seen(pkt.msg)
  BY <1>1, <1>5, <1>6, DeliveryAssumption DEF PeerInv, Seen, LogFacts, Msg
<1>9. \A p \in Packet : Published(p) => Published(p)'
  BY <1>2, <1>5, Packets DEF Published
<1>10. Published(pkt)'
  BY <1>2, <1>5, <1>6 DEF Published
<1>11. TaskInv'
  <2>1. ASSUME NEW i \in DOMAIN broadcast_tasks'
        PROVE  broadcast_tasks'[i].msg = Handled' + i /\ broadcast_tasks'[i].qos = published'[Handled' + i]
    <3>1. i + 1 \in DOMAIN broadcast_tasks /\ broadcast_tasks'[i] = broadcast_tasks[i + 1] /\ i \in Int
      BY <1>1, <1>4 DEF LogFacts
    <3>2. Handled + (i + 1) = Handled' + i
      BY <1>5, <3>1
    <3> QED BY <1>1, <1>2, <3>1, <3>2 DEF TaskInv
  <2>2. Len(broadcast_tasks') <= Len(published') /\ Len(published') <= MaxMsgs
    BY <1>1, <1>2, <1>4 DEF TaskInv, LogFacts
  <2> QED BY <2>1, <2>2 DEF TaskInv
\* What happens to the packets under way, whatever their QoS.
<1>12. \A i \in DOMAIN toPeer' : \/ i \in DOMAIN toPeer /\ toPeer'[i] = toPeer[i]
                                \/ /\ i = Len(toPeer) + 1 /\ toPeer'[i] = pkt /\ i \notin DOMAIN toPeer
                                   /\ task.qos = 0 \/ SendNow(store)
                                   /\ conn = "up"
  <2>1. CASE toPeer' = toPeer
    BY <2>1
  <2>2. CASE toPeer' = Append(toPeer, pkt) /\ (task.qos = 0 \/ SendNow(store)) /\ conn = "up"
    <3>1. /\ DOMAIN toPeer' = 1 .. Len(toPeer) + 1 /\ toPeer'[Len(toPeer) + 1] = pkt
          /\ \A i \in 1 .. Len(toPeer) : toPeer'[i] = toPeer[i]
      BY <1>1, <2>2, AppendFacts DEF WireFacts
    <3> QED BY <1>1, <2>2, <3>1 DEF WireFacts
  <2> QED BY <1>3, <2>1, <2>2 DEF BroadcastOf
<1>13. conn' # "up" => toPeer' = <<>> /\ toBroker' = <<>>
  BY <1>1, <1>2, <1>3 DEF FlightInv, BroadcastOf
<1>14. Qos0Inv'
  <2>1. \A i \in DOMAIN toPeer : ~ Kept(toPeer[i]) => toPeer[i].msg # pkt.msg
    BY <1>1, <1>5, <1>6 DEF Qos0Inv, Published
  <2>2. \A i \in DOMAIN toPeer' : ~ Kept(toPeer'[i]) => Published(toPeer[i])' /\ ~ Seen(toPeer[i].msg)'
    <3> SUFFICES ASSUME NEW i \in DOMAIN toPeer', ~ Kept(toPeer'[i])
                 PROVE  Published(toPeer[i])' /\ ~ Seen(toPeer[i].msg)'
      OBVIOUS
    <3>1. CASE i \in DOMAIN toPeer /\ toPeer'[i] = toPeer[i]
      <4>1. PICK p \in Packet : p = toPeer[i] /\ p = toPeer'[i]
        BY <1>1, <3>1 DEF WireFacts
      <4>2. Published(p) /\ ~ Seen(p.msg)
        BY <1>1, <3>1, <4>1 DEF Qos0Inv
      <4>3. Published(p)' /\ ~ Seen(p.msg)'
        BY <1>7, <1>9, <4>2
      <4> QED BY <4>1, <4>3 DEF Published, Seen
    <3>2. CASE toPeer'[i] = pkt
      BY <1>7, <1>8, <1>10, <3>2 DEF Published, Seen
    <3> QED BY <1>12, <3>1, <3>2
  <2>3. \A i, j \in DOMAIN toPeer' : ~ Kept(toPeer'[i]) /\ ~ Kept(toPeer'[j])
           /\ toPeer'[i].msg = toPeer'[j].msg => i = j
    BY <1>1, <1>12, <2>1 DEF Qos0Inv
  <2> QED BY <2>2, <2>3 DEF Qos0Inv
<1>15. NothingLost'
  <2> SUFFICES ASSUME NEW m \in DOMAIN published', published'[m] > 0
               PROVE  \/ \E i \in DOMAIN broadcast_tasks' : broadcast_tasks'[i].msg = m
                      \/ \E i \in DOMAIN store'.queue : store'.queue[i].msg = m
                      \/ m \in Range(delivered')
    BY DEF NothingLost
  <2>1. CASE \E i \in DOMAIN broadcast_tasks : broadcast_tasks[i].msg = m
    <3>1. PICK i \in DOMAIN broadcast_tasks : broadcast_tasks[i].msg = m
      BY <2>1
    <3>2. CASE i = 1
      <4>1. m = Handled + 1 /\ task.qos > 0
        BY <1>2, <1>3, <3>1, <3>2 DEF BroadcastOf
      <4>2. store'.queue = Append(store.queue, pkt)
        BY <1>3, <4>1 DEF BroadcastOf
      <4>3. Len(store.queue) + 1 \in DOMAIN store'.queue /\ store'.queue[Len(store.queue) + 1] = pkt
        BY <1>1, <4>2, AppendFacts DEF QueueFacts
      <4> QED BY <1>6, <4>1, <4>3
    <3>3. CASE i # 1
      <4>1. i - 1 \in DOMAIN broadcast_tasks' /\ broadcast_tasks'[i - 1] = broadcast_tasks[i]
        BY <1>1, <1>4, <3>1, <3>3 DEF LogFacts
      <4> QED BY <3>1, <4>1
    <3> QED BY <3>2, <3>3
  <2>2. CASE \E i \in DOMAIN store.queue : store.queue[i].msg = m
    <3>1. PICK i \in DOMAIN store.queue : store.queue[i].msg = m
      BY <2>2
    <3>2. i \in DOMAIN store'.queue /\ store'.queue[i] = store.queue[i]
      <4>1. CASE task.qos = 0
        BY <1>3, <3>1, <4>1 DEF BroadcastOf
      <4>2. CASE task.qos > 0
        <5>1. store'.queue = Append(store.queue, pkt)
          BY <1>3, <4>2 DEF BroadcastOf
        <5> QED BY <1>1, <3>1, <5>1, AppendFacts DEF QueueFacts
      <4> QED BY <1>3, <1>6, <4>1, <4>2 DEF BroadcastOf
    <3> QED BY <3>1, <3>2
  <2>3. CASE m \in Range(delivered)
    BY <1>2, <2>3
  <2> QED BY <1>1, <1>2, <2>1, <2>2, <2>3 DEF NothingLost
<1>16. \A j \in DOMAIN delivered' : delivered'[j] <= Handled'
  BY <1>1, <1>2, <1>5, DeliveryAssumption DEF PeerInv, LogFacts, Msg
<1>17. CASE task.qos = 0
  <2>1. store' = store /\ next_packet_id' = next_packet_id /\ ~ Kept(pkt)
    BY <1>3, <1>17 DEF Kept, BroadcastOf
  <2>2. QueueInv'
    <3>1. \A i \in DOMAIN store.queue : Published(store.queue[i]) => Published(store.queue[i])'
      BY <1>1, <1>9, <2>1 DEF QueueFacts
    <3> QED BY <1>1, <2>1, <3>1 DEF QueueInv
  <2>3. FlightInv'
    <3>1. \A i \in DOMAIN toPeer' : Kept(toPeer'[i]) => i \in DOMAIN toPeer /\ toPeer'[i] = toPeer[i]
      BY <1>12, <2>1
    <3>2. \A i \in DOMAIN toPeer' : Kept(toPeer'[i]) => InWindow(toPeer[i])'
      BY <1>1, <2>1, <3>1 DEF FlightInv, InWindow
    <3> QED BY <1>1, <1>2, <1>13, <2>1, <3>1, <3>2 DEF FlightInv
  <2>4. PeerInv'
    BY <1>1, <1>2, <1>7, <1>16, <2>1 DEF PeerInv
  <2>5. NoOrphanIds'
    BY <1>1, <1>2, <2>1 DEF NoOrphanIds
  <2> QED BY <1>11, <1>14, <1>15, <2>2, <2>3, <2>4, <2>5
<1>18. CASE task.qos > 0
  <2>1. /\ pkt.packet_id = next_packet_id /\ next_packet_id' = NextId(next_packet_id)
        /\ store'.queue = Append(store.queue, pkt)
        /\ store'.inflight = IF SendNow(store) THEN store.inflight + 1 ELSE store.inflight
        /\ SendNow(store) => Len(store.queue) = store.inflight
    BY <1>3, <1>18 DEF BroadcastOf
  <2>2. Kept(pkt) /\ pkt.qos > 0
    BY <1>3, <1>18 DEF Kept, BroadcastOf
  <2>3. /\ DOMAIN store'.queue = 1 .. Len(store.queue) + 1 /\ store'.queue[Len(store.queue) + 1] = pkt
        /\ \A i \in 1 .. Len(store.queue) : store'.queue[i] = store.queue[i]
    BY <1>1, <2>1, AppendFacts DEF QueueFacts
  <2>4. ASSUME NEW i \in DOMAIN store'.queue
        PROVE  \/ i = Len(store.queue) + 1 /\ store'.queue[i] = pkt
               \/ i \in DOMAIN store.queue /\ store'.queue[i] = store.queue[i] /\ i < Len(store.queue) + 1
    BY <1>1, <2>3 DEF QueueFacts
  <2>5. next_packet_id \in Id
    BY DEF QosInv, Inv, TypeOK
  <2>6. \A i \in DOMAIN store.queue : store.queue[i].packet_id \in Id /\ store.queue[i].packet_id # next_packet_id
    <3>1. NextId(next_packet_id) # next_packet_id
      BY <2>5, DeliveryAssumption DEF Id, NextId
    <3>2. FreeId
      BY <2>1, <3>1
    <3> QED BY <1>1, <3>2, Packets DEF QueueFacts, FreeId
  <2>7. QueueInv'
    <3>1. \A i, j \in DOMAIN store'.queue : store'.queue[i].packet_id = store'.queue[j].packet_id => i = j
      BY <1>1, <2>1, <2>4, <2>6 DEF QueueInv
    <3>2. ASSUME NEW i \in DOMAIN store'.queue, store'.queue[i].type = "PUBLISH"
          PROVE  store'.queue[i].qos > 0 /\ Published(store.queue[i])'
      <4>1. CASE store'.queue[i] = pkt
        BY <1>10, <2>2, <4>1 DEF Published
      <4>2. CASE i \in DOMAIN store.queue /\ store'.queue[i] = store.queue[i]
        <5>1. PICK p \in Packet : p = store.queue[i] /\ p = store'.queue[i]
          BY <1>1, <4>2 DEF QueueFacts
        <5>2. p.qos > 0 /\ Published(p)
          BY <1>1, <3>2, <4>2, <5>1 DEF QueueInv
        <5>3. Published(p)'
          BY <1>9, <5>2
        <5> QED BY <5>1, <5>2, <5>3 DEF Published
      <4> QED BY <2>4, <4>1, <4>2
    <3>3. ASSUME NEW i \in DOMAIN store'.queue, NEW j \in DOMAIN store'.queue, i < j,
                 store'.queue[i].type = "PUBLISH", store'.queue[j].type = "PUBLISH"
          PROVE  store'.queue[i].msg < store'.queue[j].msg
      <4>1. i \in DOMAIN store.queue /\ store'.queue[i] = store.queue[i]
        BY <1>1, <2>3, <3>3 DEF QueueFacts
      <4>2. CASE store'.queue[j] = pkt
        <5>1. store.queue[i].msg <= Handled /\ store.queue[i].msg \in Int
          BY <1>1, <3>3, <4>1, Packets DEF QueueInv, Published, QueueFacts
        <5> QED BY <1>5, <1>6, <4>1, <4>2, <5>1
      <4>3. CASE j \in DOMAIN store.queue /\ store'.queue[j] = store.queue[j]
        BY <1>1, <3>3, <4>1, <4>3 DEF QueueInv
      <4> QED BY <2>4, <4>2, <4>3
    <3> QED BY <3>1, <3>2, <3>3 DEF QueueInv
  <2>8. \A k \in 1 .. store.inflight :
           k \in 1 .. store'.inflight /\ store'.queue[k] = store.queue[k] /\ k \in DOMAIN store.queue
    BY <1>1, <2>1, <2>3 DEF QueueFacts
  <2>9. \A j \in DOMAIN toBroker : toBroker[j].packet_id # pkt.packet_id
    BY <1>1, <2>1, <2>6, <2>8 DEF FlightInv, Answers
  <2>10. \A i \in DOMAIN toPeer : Kept(toPeer[i]) => toPeer[i].packet_id # pkt.packet_id
    BY <1>1, <2>1, <2>6, <2>8 DEF FlightInv, InWindow
  <2>11. FlightInv'
    <3>1. ASSUME NEW i \in DOMAIN toPeer', Kept(toPeer'[i])
          PROVE  \E k \in 1 .. store'.inflight : store'.queue[k] = toPeer'[i]
      <4>1. CASE i \in DOMAIN toPeer /\ toPeer'[i] = toPeer[i]
        <5>1. PICK k \in 1 .. store.inflight : store.queue[k] = toPeer[i]
          BY <1>1, <3>1, <4>1 DEF FlightInv, InWindow
        <5> QED BY <2>8, <4>1, <5>1
      <4>2. CASE toPeer'[i] = pkt /\ SendNow(store)
        <5>1. store'.inflight = Len(store.queue) + 1 /\ Len(store.queue) + 1 \in 1 .. store'.inflight
          BY <1>1, <2>1, <4>2 DEF QueueFacts
        <5> QED BY <2>3, <4>2, <5>1
      <4>3. task.qos # 0
        BY <1>18
      <4> QED BY <1>12, <4>1, <4>2, <4>3
    <3>2. \A i \in DOMAIN toBroker' : \E k \in 1 .. store'.inflight : Answers(toBroker'[i], store'.queue[k])
      <4> SUFFICES ASSUME NEW i \in DOMAIN toBroker
                   PROVE  \E k \in 1 .. store'.inflight : Answers(toBroker[i], store'.queue[k])
        BY <1>2
      <4>1. PICK k \in 1 .. store.inflight : Answers(toBroker[i], store.queue[k])
        BY <1>1 DEF FlightInv
      <4> QED BY <2>8, <4>1
    <3>3. \A i, j \in DOMAIN toPeer' : Kept(toPeer'[i]) /\ Kept(toPeer'[j])
             /\ toPeer'[i].packet_id = toPeer'[j].packet_id => i = j
      BY <1>1, <1>12, <2>10 DEF FlightInv
    <3>4. \A i \in DOMAIN toPeer', j \in DOMAIN toBroker' :
             Kept(toPeer'[i]) => toPeer'[i].packet_id # toBroker'[j].packet_id
      BY <1>1, <1>2, <1>12, <2>9 DEF FlightInv
    <3>5. \A i, j \in DOMAIN toBroker' : toBroker'[i].packet_id = toBroker'[j].packet_id => i = j
      BY <1>1, <1>2 DEF FlightInv
    <3> QED BY <1>13, <3>1, <3>2, <3>3, <3>4, <3>5 DEF FlightInv, InWindow
  <2>12. pkt.packet_id \notin qos2_packet_ids
    BY <1>1, <2>1, <2>6 DEF NoOrphanIds
  <2>13. NoOrphanIds'
    <3> SUFFICES ASSUME NEW id \in qos2_packet_ids
                 PROVE  \E i \in DOMAIN store'.queue : store'.queue[i].packet_id = id
      BY <1>2 DEF NoOrphanIds
    <3>1. PICK i \in DOMAIN store.queue : store.queue[i].packet_id = id
      BY <1>1 DEF NoOrphanIds
    <3>2. i \in DOMAIN store'.queue /\ store'.queue[i] = store.queue[i]
      BY <1>1, <2>3 DEF QueueFacts
    <3> QED BY <3>1, <3>2
  <2>14. PeerInv'
    <3>1. ASSUME NEW k \in DOMAIN store'.queue
          PROVE  /\ store'.queue[k].type = "PUBLISH" /\ store'.queue[k].packet_id \in qos2_packet_ids
                      => Seen(store.queue[k].msg)'
                 /\ store'.queue[k].type = "PUBLISH" /\ store'.queue[k].qos = 2
                      /\ store'.queue[k].packet_id \notin qos2_packet_ids => ~ Seen(store.queue[k].msg)'
                 /\ store'.queue[k].packet_id \in qos2_packet_ids => store'.queue[k].qos # 1
      <4>1. CASE store'.queue[k] = pkt
        BY <1>7, <1>8, <2>12, <4>1 DEF Seen
      <4>2. CASE k \in DOMAIN store.queue /\ store'.queue[k] = store.queue[k]
        <5>1. PICK p : p = store.queue[k] /\ p = store'.queue[k]
          BY <4>2
        <5>2. /\ p.type = "PUBLISH" /\ p.packet_id \in qos2_packet_ids => Seen(p.msg)
              /\ p.type = "PUBLISH" /\ p.qos = 2 /\ p.packet_id \notin qos2_packet_ids => ~ Seen(p.msg)
              /\ p.packet_id \in qos2_packet_ids => p.qos # 1
          BY <1>1, <4>2, <5>1 DEF PeerInv
        <5>3. Seen(store.queue[k].msg)' <=> Seen(p.msg)
          BY <1>7, <5>1 DEF Seen
        <5> QED BY <5>1, <5>2, <5>3
      <4> QED BY <2>4, <4>1, <4>2
    <3>2. ASSUME NEW i \in DOMAIN toBroker
          PROVE  /\ toBroker[i].type = "PUBCOMP" => toBroker[i].packet_id \notin qos2_packet_ids
                 /\ toBroker[i].type # "PUBCOMP" =>
                      \A k \in DOMAIN store'.queue :
                        store'.queue[k].packet_id = toBroker[i].packet_id => Seen(store.queue[k].msg)'
      <4>1. toBroker[i].type = "PUBCOMP" => toBroker[i].packet_id \notin qos2_packet_ids
        BY <1>1 DEF PeerInv
      <4>2. ASSUME toBroker[i].type # "PUBCOMP", NEW k \in DOMAIN store'.queue,
                   store'.queue[k].packet_id = toBroker[i].packet_id
            PROVE  Seen(store.queue[k].msg)'
        <5>1. k \in DOMAIN store.queue /\ store'.queue[k] = store.queue[k]
          BY <2>4, <2>9, <4>2
        <5>2. Seen(store.queue[k].msg)
          BY <1>1, <4>2, <5>1 DEF PeerInv
        <5> QED BY <1>7, <5>1, <5>2 DEF Seen
      <4> QED BY <4>1, <4>2
    <3>3. \A i, j \in DOMAIN delivered' : delivered'[i] = delivered'[j] /\ i # j => published'[delivered'[i]] = 1
      BY <1>1, <1>2 DEF PeerInv
    <3> QED BY <1>2, <1>16, <3>1, <3>2, <3>3 DEF PeerInv
  <2> QED BY <1>11, <1>14, <1>15, <2>7, <2>11, <2>13, <2>14
<1>19. task.qos = 0 \/ task.qos > 0
  BY <1>3, <1>6 DEF BroadcastOf
<1> QED BY <1>17, <1>18, <1>19
-----------------------------------------------------------------------------
(* Acknowledgements.                                                       *)

\* Where the packet that is at place i after node k was unlinked came from.
From(k, i) == IF i < k THEN i ELSE i + 1

\* The elements of a list without its node k.
LEMMA RemoveAtElements ==
  ASSUME NEW s \in Seq(Packet), NEW k \in 1 .. Len(s)
  PROVE  \A i \in 1 .. Len(s) - 1 : RemoveAt(s, k)[i] = s[From(k, i)]
<1>1. Len(s) \in Nat /\ k \in Nat /\ k >= 1 /\ k <= Len(s) /\ \A i \in 1 .. Len(s) : s[i] \in Packet
  BY LenProperties, ElementOfSeq
<1>2. /\ SubSeq(s, 1, k - 1) \in Seq(Packet) /\ Len(SubSeq(s, 1, k - 1)) = k - 1
      /\ \A i \in 1 .. k - 1 : SubSeq(s, 1, k - 1)[i] = s[i]
  <2>1. \A i \in 1 .. k - 1 : s[i] \in Packet
    BY <1>1
  <2>2. 1 \in Int /\ k - 1 \in Int
    BY <1>1
  <2> QED BY <1>1, <2>1, <2>2, SubSeqProperties
<1>3. /\ SubSeq(s, k + 1, Len(s)) \in Seq(Packet) /\ Len(SubSeq(s, k + 1, Len(s))) = Len(s) - k
      /\ \A i \in 1 .. Len(s) - k : SubSeq(s, k + 1, Len(s))[i] = s[k + i]
  <2>1. \A i \in k + 1 .. Len(s) : s[i] \in Packet
    BY <1>1
  <2>2. k + 1 \in Int /\ Len(s) \in Int
    BY <1>1
  <2> QED BY <1>1, <2>1, <2>2, SubSeqProperties
<1>4. PICK a \in Seq(Packet), b \in Seq(Packet) :
        a = SubSeq(s, 1, k - 1) /\ b = SubSeq(s, k + 1, Len(s))
  BY <1>2, <1>3
<1>5. \A i \in 1 .. Len(a) + Len(b) : (a \o b)[i] = IF i <= Len(a) THEN a[i] ELSE b[i - Len(a)]
  BY ConcatProperties
<1>6. RemoveAt(s, k) = a \o b
  BY <1>4 DEF RemoveAt
<1>7. Len(a) = k - 1 /\ \A i \in 1 .. k - 1 : a[i] = s[i]
  BY <1>2, <1>4, Zenon
<1>8. Len(b) = Len(s) - k /\ \A i \in 1 .. Len(s) - k : b[i] = s[k + i]
  BY <1>3, <1>4, Zenon
<1> SUFFICES ASSUME NEW i \in 1 .. Len(s) - 1 PROVE (a \o b)[i] = s[From(k, i)]
  BY <1>6
<1>9. i \in 1 .. Len(a) + Len(b)
  BY <1>1, <1>7, <1>8
<1>10. CASE i < k
  BY <1>1, <1>5, <1>7, <1>9, <1>10 DEF From
<1>11. CASE i >= k
  <2>1. ~ (i <= Len(a)) /\ i - Len(a) \in 1 .. Len(s) - k /\ k + (i - Len(a)) = i + 1 /\ From(k, i) = i + 1
    BY <1>1, <1>7, <1>11 DEF From
  <2>2. (a \o b)[i] = b[i - Len(a)]
    BY <1>5, <1>9, <2>1
  <2>3. b[i - Len(a)] = s[k + (i - Len(a))]
    BY <1>8, <2>1
  <2> QED BY <2>1, <2>2, <2>3, Zenon
<1>12. i < k \/ i >= k
  BY <1>1
<1> QED BY <1>10, <1>11, <1>12, Zenon

\* Unlinking a packet in flight, and letting the first pending one into the window.
LEMMA ShiftEffect ==
  ASSUME NEW st \in Stores, WellFormed(st), NEW k \in 1 .. Len(st.queue), k <= st.inflight
  PROVE  LET r == Shift(st, k) IN
         /\ Len(r.queue) = Len(st.queue) - 1
         /\ \A i \in 1 .. Len(st.queue) - 1 : r.queue[i] = st.queue[From(k, i)]
         /\ st.pending = 0 => Len(st.queue) = st.inflight /\ r.inflight = st.inflight - 1 /\ SendNow(r)
         /\ st.pending # 0 => /\ st.pending = st.inflight + 1 /\ Len(st.queue) > st.inflight
                              /\ r.inflight = st.inflight /\ ~ SendNow(r)
<1> DEFINE q == RemoveAt(st.queue, k)
<1>1. /\ st.queue \in Seq(Packet) /\ st.pending \in Nat /\ st.inflight \in Nat
      /\ Len(st.queue) \in Nat
      /\ inflight_window_size \in Nat
  BY WindowAssumption DEF Stores
<1>2. Len(q) = Len(st.queue) - 1 /\ \A i \in 1 .. Len(st.queue) - 1 : q[i] = st.queue[From(k, i)]
  BY <1>1, RemoveAtProperties, RemoveAtElements
<1> HIDE DEF q
<1>3. CASE st.pending = 0
  <2>1. Shift(st, k) = [queue |-> q, pending |-> 0, inflight |-> st.inflight - 1]
    BY <1>1, <1>3 DEF Shift, q
  <2>2. Len(st.queue) = st.inflight /\ st.inflight <= inflight_window_size
    BY <1>1, <1>3 DEF WellFormed
  <2>3. SendNow(Shift(st, k))
    BY <1>1, <2>1, <2>2 DEF SendNow
  <2> QED BY <1>2, <1>3, <2>1, <2>2, <2>3
<1>4. CASE st.pending # 0
  <2>1. st.pending = st.inflight + 1 /\ Len(st.queue) > st.inflight /\ st.inflight = inflight_window_size
    BY <1>1, <1>4 DEF WellFormed
  <2>2. st.pending > k /\ st.pending - 1 = st.inflight /\ st.inflight # 0
    BY <1>1, <2>1
  <2>3. Shift(st, k) = [queue |-> q,
                        pending |-> IF st.inflight < Len(q) THEN st.inflight + 1 ELSE 0,
                        inflight |-> st.inflight]
    BY <2>2 DEF Shift, q
  <2>4. ~ SendNow(Shift(st, k))
    BY <1>1, <2>1, <2>3 DEF SendNow
  <2> QED BY <1>2, <1>4, <2>1, <2>3, <2>4
<1> QED BY <1>3, <1>4

\* What an acknowledgement of the packet at place k leaves behind.
AckOf(k) ==
  LET ack == toBroker[1]
      q == store.queue
      r == store'.queue
      rel == ack.type = "PUBREC"
  IN /\ Answers(ack, q[k])
     /\ Len(r) = IF rel THEN Len(q) ELSE Len(q) - 1
     /\ \A i \in 1 .. Len(q) - 1 : r[i] = q[From(k, i)]
     /\ rel => r[Len(q)] = Pubrel(ack.packet_id)
     /\ store'.inflight = IF Len(q) > store.inflight \/ rel THEN store.inflight ELSE store.inflight - 1
     /\ toPeer' = IF Len(q) > store.inflight \/ rel THEN Append(toPeer, r[store.inflight]) ELSE toPeer

\* An acknowledgement finds exactly the packet it answers.
LEMMA AckEffect ==
  ASSUME QosInv, ReceiveAck
  PROVE  \E k \in 1 .. store.inflight : AckOf(k)
<1>1. /\ TypeOK /\ WellFormed(store) /\ store \in Stores /\ QueueInv /\ FlightInv
      /\ QueueFacts /\ WireFacts
  BY TypeFacts DEF QosInv, Inv, TypeOK, WindowInv, Stores
<1>2. toBroker # <<>>
  BY DEF ReceiveAck
<1>3. PICK ack \in Acks : ack = toBroker[1] /\ ack = Head(toBroker)
  BY <1>1, <1>2, TailFacts DEF WireFacts
<1>4. 1 \in DOMAIN toBroker /\ conn = "up"
  BY <1>1, <1>2, TailFacts DEF WireFacts, FlightInv
<1>5. PICK k \in 1 .. store.inflight : Answers(ack, store.queue[k])
  BY <1>1, <1>3, <1>4 DEF FlightInv
<1>6. /\ k \in 1 .. Len(store.queue) /\ k <= store.inflight /\ k \in Nat
      /\ store.queue[k] \in Packet /\ store.pending \in Nat
  BY <1>1, <1>5 DEF QueueFacts, TypeOK
<1> DEFINE n == Len(store.queue)
           acked == Shift(store, k)
           next == IF store.pending = 0 THEN <<>> ELSE <<store.queue[store.pending]>>
\* The acknowledged packet is the only one the search can find.
<1>7. ASSUME NEW type, NEW qos, store.queue[k].type = type, type = "PUBLISH" => store.queue[k].qos = qos
      PROVE  /\ Acknowledge(store, ack.packet_id, type, qos) = acked
             /\ NextToSend(store, ack.packet_id, type, qos) = next
  <2>1. k \in Acknowledged(store, ack.packet_id, type, qos)
    BY <1>5, <1>6, <1>7 DEF Acknowledged, Answers
  <2>2. \A j \in Acknowledged(store, ack.packet_id, type, qos) : j = k
    BY <1>1, <1>5, <1>6 DEF Acknowledged, Answers, QueueInv, QueueFacts
  <2>3. Acknowledged(store, ack.packet_id, type, qos) = {k}
    BY <2>1, <2>2
  <2>4. FirstOf({k}) = k
    BY <1>6 DEF FirstOf
  <2> QED BY <2>3, <2>4 DEF Acknowledge, NextToSend
<1>8. /\ Len(acked.queue) = n - 1
      /\ \A i \in 1 .. n - 1 : acked.queue[i] = store.queue[From(k, i)]
      /\ store.pending = 0 => n = store.inflight /\ acked.inflight = store.inflight - 1 /\ SendNow(acked)
      /\ store.pending # 0 => /\ store.pending = store.inflight + 1 /\ n > store.inflight
                              /\ acked.inflight = store.inflight /\ ~ SendNow(acked)
  BY <1>1, <1>6, ShiftEffect
<1>9. acked \in Stores /\ WellFormed(acked)
  BY <1>1, <1>6, ShiftWellFormed
<1> HIDE DEF acked
<1>10. store.pending = 0 <=> ~ (n > store.inflight)
  BY <1>1, <1>8 DEF QueueFacts
<1>11. n > store.inflight => /\ next = <<acked.queue[store.inflight]>> /\ store.inflight \in 1 .. n - 1
                             /\ acked.queue[store.inflight] \in Packet
  <2> SUFFICES ASSUME n > store.inflight
               PROVE  /\ next = <<acked.queue[store.inflight]>> /\ store.inflight \in 1 .. n - 1
                      /\ acked.queue[store.inflight] \in Packet
    OBVIOUS
  <2>1. store.pending # 0 /\ store.pending = store.inflight + 1
    BY <1>8, <1>10
  <2>2. /\ store.inflight \in 1 .. n - 1 /\ From(k, store.inflight) = store.inflight + 1
        /\ store.inflight + 1 \in 1 .. n
    BY <1>1, <1>5, <1>6 DEF QueueFacts, From
  <2>3. acked.queue[store.inflight] = store.queue[store.inflight + 1]
    BY <1>8, <2>2
  <2> QED BY <1>1, <2>1, <2>2, <2>3 DEF QueueFacts
<1>12. n <= store.inflight => next = <<>>
  BY <1>1, <1>10 DEF QueueFacts
<1>13. \A p \in Packet : toPeer \o <<p>> = Append(toPeer, p)
  BY <1>1, AppendIsConcat DEF WireFacts
<1>14. toPeer \o <<>> = toPeer
  BY <1>1, ConcatEmptySeq DEF WireFacts
<1>15. \A s : Send(s) = toPeer \o s
  BY <1>4 DEF Send
<1> HIDE DEF next
<1>16. ASSUME NEW type, NEW qos, HandleAck(ack, type, qos), ack.type # "PUBREC",
              store.queue[k].type = type, type = "PUBLISH" => store.queue[k].qos = qos
       PROVE  AckOf(k)
  <2>1. store' = acked /\ toPeer' = toPeer \o next
    BY <1>7, <1>15, <1>16 DEF HandleAck
  <2>2. CASE n > store.inflight
    <3>1. store.pending # 0
      BY <1>10, <2>2
    <3>2. acked.inflight = store.inflight
      BY <1>8, <3>1
    <3>3. toPeer' = Append(toPeer, acked.queue[store.inflight])
      BY <1>11, <1>13, <2>1, <2>2
    <3> QED BY <1>3, <1>5, <1>8, <1>16, <2>1, <2>2, <3>2, <3>3 DEF AckOf
  <2>3. CASE ~ (n > store.inflight)
    <3>1. store.pending = 0
      BY <1>10, <2>3
    <3>2. acked.inflight = store.inflight - 1
      BY <1>8, <3>1
    <3>3. next = <<>>
      BY <1>1, <1>12, <2>3 DEF QueueFacts
    <3>4. toPeer' = toPeer
      BY <1>14, <2>1, <3>3
    <3> QED BY <1>3, <1>5, <1>8, <1>16, <2>1, <2>3, <3>2, <3>4 DEF AckOf
  <2> QED BY <2>2, <2>3
<1>17. ASSUME ack.type = "PUBREC", HandlePubrec(ack), store.queue[k].type = "PUBLISH", store.queue[k].qos = 2
       PROVE  AckOf(k)
  <2> DEFINE pubrel == Pubrel(ack.packet_id)
             rel == IF SendNow(acked) THEN <<pubrel>> ELSE <<>>
  <2>1. /\ Acknowledge(store, ack.packet_id, "PUBLISH", 2) = acked
        /\ NextToSend(store, ack.packet_id, "PUBLISH", 2) = next
    BY <1>7, <1>17
  <2>2. store' = StoreMessage(acked, pubrel) /\ toPeer' = toPeer \o (next \o rel)
    BY <1>15, <1>17, <2>1 DEF HandlePubrec
  <2>3. pubrel \in Packet
    BY ConstantFacts DEF Acks
  <2> HIDE DEF pubrel
  <2>4. /\ store'.queue = Append(acked.queue, pubrel)
        /\ store'.inflight = IF SendNow(acked) THEN acked.inflight + 1 ELSE acked.inflight
    BY <1>9, <2>2, <2>3, StoreEffect
  <2>5. acked.queue \in Seq(Packet) /\ Len(acked.queue) \in Nat
    BY <1>9, LenProperties DEF Stores
  <2>6. /\ Len(store'.queue) = n /\ store'.queue[n] = pubrel
        /\ \A i \in 1 .. n - 1 : store'.queue[i] = acked.queue[i]
    <3>1. /\ Len(store'.queue) = Len(acked.queue) + 1 /\ store'.queue[Len(acked.queue) + 1] = pubrel
          /\ \A i \in 1 .. Len(acked.queue) : store'.queue[i] = acked.queue[i]
      BY <2>3, <2>4, <2>5, AppendFacts
    <3>2. Len(acked.queue) + 1 = n
      BY <1>1, <1>8 DEF QueueFacts
    <3> QED BY <1>8, <3>1, <3>2
  <2>7. \A i \in 1 .. n - 1 : store'.queue[i] = store.queue[From(k, i)]
    BY <1>8, <2>6
  <2>8. store'.inflight = store.inflight
    BY <1>1, <1>8, <2>4 DEF QueueFacts
  <2>9. toPeer' = Append(toPeer, store'.queue[store.inflight])
    <3>1. CASE n > store.inflight
      <4>1. rel = <<>> /\ next = <<acked.queue[store.inflight]>> /\ store.inflight \in 1 .. n - 1
            /\ acked.queue[store.inflight] \in Packet
        BY <1>8, <1>10, <1>11, <3>1
      <4> HIDE DEF rel
      <4>2. next \o rel = <<acked.queue[store.inflight]>>
        BY <4>1
      <4> QED BY <1>13, <2>2, <2>6, <4>1, <4>2
    <3>2. CASE ~ (n > store.inflight)
      <4>1. rel = <<pubrel>> /\ next = <<>> /\ n = store.inflight
        BY <1>1, <1>8, <1>10, <1>12, <3>2 DEF QueueFacts
      <4> HIDE DEF rel
      <4>2. next \o rel = <<pubrel>>
        BY <4>1
      <4> QED BY <1>13, <2>2, <2>3, <2>6, <4>1, <4>2
    <3> QED BY <3>1, <3>2
  <2> QED BY <1>3, <1>5, <1>17, <2>6, <2>7, <2>8, <2>9 DEF AckOf, pubrel
<1>18. AckOf(k)
  <2>1. CASE ack.type = "PUBACK"
    <3>1. HandleAck(ack, "PUBLISH", 1) /\ store.queue[k].type = "PUBLISH" /\ store.queue[k].qos = 1
      BY <1>3, <1>5, <2>1 DEF ReceiveAck, Answers
    <3> QED BY <1>16, <2>1, <3>1
  <2>2. CASE ack.type = "PUBREC"
    <3>1. HandlePubrec(ack) /\ store.queue[k].type = "PUBLISH" /\ store.queue[k].qos = 2
      BY <1>3, <1>5, <2>2 DEF ReceiveAck, Answers
    <3> QED BY <1>17, <2>2, <3>1
  <2>3. CASE ack.type = "PUBCOMP"
    <3>1. HandleAck(ack, "PUBREL", -1) /\ store.queue[k].type = "PUBREL"
      BY <1>3, <1>5, <2>3 DEF ReceiveAck, Answers
    <3> QED BY <1>16, <2>3, <3>1
  <2> QED BY <2>1, <2>2, <2>3 DEF Acks
<1> QED BY <1>5, <1>18

\* Where a packet goes when node k before or after it is unlinked.
To(k, j) == IF j < k THEN j ELSE j - 1

\* An acknowledged packet leaves the queue, and a PUBREL takes the place of its PUBLISH.
LEMMA ReceiveAckQos ==
  ASSUME QosInv, Inv', ReceiveAck
  PROVE  TaskInv' /\ QueueInv' /\ FlightInv' /\ Qos0Inv' /\ PeerInv' /\ NoOrphanIds' /\ NothingLost'
<1>1. /\ TaskInv /\ QueueInv /\ FlightInv /\ Qos0Inv /\ PeerInv /\ NoOrphanIds /\ NothingLost
      /\ QueueFacts /\ WireFacts /\ LogFacts
  BY TypeFacts DEF QosInv
<1>2. /\ UNCHANGED <<conn, next_packet_id, broadcast_tasks, qos2_packet_ids, delivered, published>>
      /\ toBroker # <<>> /\ toBroker' = Tail(toBroker)
  BY DEF ReceiveAck, peer
<1>3. PICK k \in 1 .. store.inflight : AckOf(k)
  BY AckEffect
<1> DEFINE q == store.queue
           r == store'.queue
           n == Len(q)
           L == store.inflight
           ack == toBroker[1]
<1>4. /\ Len(toBroker) >= 1 /\ 1 \in DOMAIN toBroker /\ DOMAIN toBroker' = 1 .. Len(toBroker) - 1
      /\ \A i \in DOMAIN toBroker' : toBroker'[i] = toBroker[i + 1] /\ i + 1 \in DOMAIN toBroker /\ i + 1 # 1
  BY <1>1, <1>2, TailFacts DEF WireFacts
<1>5. conn = "up" /\ ack \in Acks /\ ack.type \in {"PUBACK", "PUBREC", "PUBCOMP"} /\ ack.packet_id \in Id
  BY <1>1, <1>2, <1>4 DEF FlightInv, WireFacts, Acks
<1>6. n \in Nat /\ L \in Nat /\ k \in Nat /\ k >= 1 /\ k <= L /\ L <= n /\ k \in DOMAIN q /\ q[k] \in Packet
  BY <1>1, <1>3 DEF QueueFacts
<1>7. /\ Answers(ack, q[k])
      /\ Len(r) = IF ack.type = "PUBREC" THEN n ELSE n - 1
      /\ \A i \in 1 .. n - 1 : r[i] = q[From(k, i)]
      /\ ack.type = "PUBREC" => r[n] = Pubrel(ack.packet_id)
      /\ store'.inflight = IF n > L \/ ack.type = "PUBREC" THEN L ELSE L - 1
      /\ toPeer' = IF n > L \/ ack.type = "PUBREC" THEN Append(toPeer, r[L]) ELSE toPeer
  BY <1>3 DEF AckOf
<1>8. r \in Seq(Packet) /\ DOMAIN r = 1 .. Len(r) /\ \A i \in DOMAIN r : r[i] \in Packet
  <2>1. r \in Seq(Packet)
    BY DEF Inv, TypeOK
  <2> QED BY <2>1, SeqFacts
<1>9. q[k].packet_id = ack.packet_id /\ \A j \in DOMAIN q : q[j].packet_id = ack.packet_id => j = k
  BY <1>1, <1>6, <1>7 DEF Answers, QueueInv
<1>10. /\ Pubrel(ack.packet_id).packet_id = ack.packet_id /\ Pubrel(ack.packet_id).type = "PUBREL"
       /\ Pubrel(ack.packet_id).qos = 0 /\ Pubrel(ack.packet_id).msg = 0
  BY DEF Pubrel
\* Where the packets in the queue come from, and where they have gone.
<1>11. \A i \in 1 .. n - 1 : From(k, i) \in DOMAIN q /\ From(k, i) # k /\ i \in Int /\ From(k, i) \in Int
  BY <1>1, <1>6 DEF From, QueueFacts
<1>12. ASSUME NEW i \in DOMAIN r
       PROVE  \/ i \in 1 .. n - 1 /\ r[i] = q[From(k, i)]
              \/ i = n /\ ack.type = "PUBREC" /\ r[i] = Pubrel(ack.packet_id)
  BY <1>6, <1>7, <1>8
<1>13. ASSUME NEW j \in DOMAIN q, j # k
       PROVE  To(k, j) \in DOMAIN r /\ r[To(k, j)] = q[j] /\ (j <= L => To(k, j) \in 1 .. store'.inflight)
  <2>1. j \in 1 .. n /\ To(k, j) \in 1 .. n - 1 /\ From(k, To(k, j)) = j
    BY <1>1, <1>6, <1>13 DEF To, From, QueueFacts
  <2>2. To(k, j) \in DOMAIN r
    BY <1>6, <1>7, <1>8, <2>1
  <2>3. j <= L => To(k, j) \in 1 .. store'.inflight
    BY <1>6, <1>7, <1>13, <2>1 DEF To
  <2> QED BY <1>7, <2>1, <2>2, <2>3
<1>14. \A i, j \in 1 .. n - 1 : i < j => From(k, i) < From(k, j)
  BY <1>6 DEF From
<1>15. \A m : Seen(m)' <=> Seen(m)
  BY <1>2 DEF Seen
<1>16. Handled' = Handled /\ \A p : Published(p) <=> (p.msg <= Handled' /\ p.qos = published'[p.msg])
  BY <1>2 DEF Published, Handled
\* The packet that may be sent, and what is on the way besides it.
<1>17. \A i \in DOMAIN toPeer' : \/ i \in DOMAIN toPeer /\ toPeer'[i] = toPeer[i]
                                 \/ /\ i = Len(toPeer) + 1 /\ i \notin DOMAIN toPeer /\ toPeer'[i] = r[L]
                                    /\ n > L \/ ack.type = "PUBREC"
  <2>1. CASE ~ (n > L \/ ack.type = "PUBREC")
    BY <1>7, <2>1
  <2>2. CASE n > L \/ ack.type = "PUBREC"
    <3>1. toPeer' = Append(toPeer, r[L])
      BY <1>7, <2>2
    <3>2. r[L] \in Packet
      BY <1>6, <1>7, <1>8, <2>2
    <3>3. /\ DOMAIN toPeer' = 1 .. Len(toPeer) + 1 /\ toPeer'[Len(toPeer) + 1] = r[L]
          /\ \A i \in 1 .. Len(toPeer) : toPeer'[i] = toPeer[i]
      BY <1>1, <3>1, <3>2, AppendFacts DEF WireFacts
    <3> QED BY <1>1, <2>2, <3>3 DEF WireFacts
  <2> QED BY <2>1, <2>2
<1>18. ASSUME n > L \/ ack.type = "PUBREC"
       PROVE  /\ Kept(r[L]) /\ L \in 1 .. store'.inflight
              /\ \A i \in DOMAIN toPeer : Kept(toPeer[i]) => toPeer[i].packet_id # r[L].packet_id
              /\ \A i \in DOMAIN toBroker' : toBroker'[i].packet_id # r[L].packet_id
  <2>1. L \in 1 .. store'.inflight
    BY <1>6, <1>7, <1>18
  <2>2. CASE n > L
    <3>1. L \in 1 .. n - 1 /\ From(k, L) = L + 1 /\ L + 1 \in DOMAIN q
      BY <1>1, <1>6, <2>2 DEF From, QueueFacts
    <3>2. r[L] = q[L + 1] /\ q[L + 1] \in Packet
      BY <1>1, <1>7, <3>1 DEF QueueFacts
    <3>3. Kept(q[L + 1])
      BY <1>1, <3>1, <3>2, Packets DEF QueueInv, Kept
    <3>4. \A j \in 1 .. L : j \in DOMAIN q /\ q[j].packet_id # q[L + 1].packet_id
      <4>1. \A j \in 1 .. L : j \in DOMAIN q /\ j # L + 1
        BY <1>1, <1>6 DEF QueueFacts
      <4> QED BY <1>1, <3>1, <4>1 DEF QueueInv
    <3>5. \A i \in DOMAIN toPeer : Kept(toPeer[i]) => toPeer[i].packet_id # q[L + 1].packet_id
      BY <1>1, <3>4 DEF FlightInv, InWindow
    <3>6. \A i \in DOMAIN toBroker : toBroker[i].packet_id # q[L + 1].packet_id
      BY <1>1, <3>4 DEF FlightInv, Answers
    <3> QED BY <1>4, <2>1, <3>2, <3>3, <3>5, <3>6
  <2>3. CASE ~ (n > L)
    <3>1. n = L /\ ack.type = "PUBREC"
      BY <1>6, <1>18, <2>3
    <3>2. r[L] = Pubrel(ack.packet_id)
      BY <1>7, <3>1
    <3>3. Kept(r[L]) /\ r[L].packet_id = ack.packet_id
      BY <1>10, <3>2 DEF Kept
    <3>4. \A i \in DOMAIN toPeer : Kept(toPeer[i]) => toPeer[i].packet_id # ack.packet_id
      BY <1>1, <1>4 DEF FlightInv
    <3>5. \A i \in DOMAIN toBroker' : toBroker'[i].packet_id # ack.packet_id
      BY <1>1, <1>4 DEF FlightInv
    <3> QED BY <2>1, <3>3, <3>4, <3>5
  <2> QED BY <2>2, <2>3
<1> HIDE DEF q, r, n, L, ack
<1>19. TaskInv'
  BY <1>1, <1>2, <1>16 DEF TaskInv
<1>20. QueueInv'
  <2>1. ASSUME NEW i \in DOMAIN r, NEW j \in DOMAIN r, r[i].packet_id = r[j].packet_id
        PROVE  i = j
    <3>1. CASE i \in 1 .. n - 1 /\ r[i] = q[From(k, i)] /\ j \in 1 .. n - 1 /\ r[j] = q[From(k, j)]
      <4>1. From(k, i) = From(k, j)
        BY <1>1, <1>11, <2>1, <3>1 DEF QueueInv, q
      <4> QED BY <1>11, <1>14, <3>1, <4>1
    <3>2. ASSUME NEW a \in 1 .. n - 1, NEW b \in DOMAIN r, r[a] = q[From(k, a)],
                 r[b] = Pubrel(ack.packet_id), r[a].packet_id = r[b].packet_id
          PROVE  FALSE
      BY <1>9, <1>10, <1>11, <3>2
    <3> QED BY <1>12, <2>1, <3>1, <3>2
  <2>2. ASSUME NEW i \in DOMAIN r, r[i].type = "PUBLISH"
        PROVE  i \in 1 .. n - 1 /\ r[i] = q[From(k, i)] /\ r[i].qos > 0 /\ Published(r[i])
    <3>1. i \in 1 .. n - 1 /\ r[i] = q[From(k, i)]
      BY <1>10, <1>12, <2>2
    <3> QED BY <1>1, <1>11, <2>2, <3>1 DEF QueueInv, q
  <2>3. ASSUME NEW i \in DOMAIN r, NEW j \in DOMAIN r, i < j, r[i].type = "PUBLISH", r[j].type = "PUBLISH"
        PROVE  r[i].msg < r[j].msg
    <3>1. From(k, i) < From(k, j) /\ From(k, i) \in DOMAIN q /\ From(k, j) \in DOMAIN q
      BY <1>11, <1>14, <2>2, <2>3
    <3> QED BY <1>1, <2>2, <2>3, <3>1 DEF QueueInv, q
  <2>4. \A i \in DOMAIN r : r[i].type = "PUBLISH" => r[i].qos > 0 /\ Published(store.queue[i])'
    BY <1>16, <2>2 DEF Published, r
  <2> QED BY <2>1, <2>3, <2>4 DEF QueueInv, r
<1>21. FlightInv'
  <2>1. ASSUME NEW i \in DOMAIN toPeer', Kept(toPeer'[i])
        PROVE  \E j \in 1 .. store'.inflight : r[j] = toPeer'[i]
    <3>1. CASE i \in DOMAIN toPeer /\ toPeer'[i] = toPeer[i]
      <4>1. PICK j \in 1 .. L : q[j] = toPeer[i]
        BY <1>1, <2>1, <3>1 DEF FlightInv, InWindow, q, L
      <4>2. j \in DOMAIN q /\ j <= L /\ j # k
        <5>1. j \in DOMAIN q /\ j <= L
          BY <1>1, <1>6 DEF QueueFacts, q, L
        <5>2. toPeer[i].packet_id # ack.packet_id
          BY <1>1, <1>4, <2>1, <3>1 DEF FlightInv, ack
        <5> QED BY <1>9, <4>1, <5>1, <5>2
      <4> QED BY <1>13, <3>1, <4>1, <4>2
    <3>2. CASE toPeer'[i] = r[L] /\ (n > L \/ ack.type = "PUBREC")
      BY <1>18, <3>2
    <3> QED BY <1>17, <3>1, <3>2
  <2>2. ASSUME NEW i \in DOMAIN toBroker'
        PROVE  \E j \in 1 .. store'.inflight : Answers(toBroker'[i], r[j])
    <3>1. PICK j \in 1 .. L : Answers(toBroker[i + 1], q[j])
      BY <1>1, <1>4 DEF FlightInv, q, L
    <3>2. j \in DOMAIN q /\ j <= L
      BY <1>1, <1>6 DEF QueueFacts, q, L
    <3>3. toBroker[i + 1].packet_id # ack.packet_id
      BY <1>1, <1>4 DEF FlightInv, ack
    <3>4. j # k
      BY <1>9, <3>1, <3>3 DEF Answers
    <3> QED BY <1>4, <1>13, <3>1, <3>2, <3>4
  <2>3. \A i, j \in DOMAIN toPeer' : Kept(toPeer'[i]) /\ Kept(toPeer'[j])
             /\ toPeer'[i].packet_id = toPeer'[j].packet_id => i = j
    BY <1>1, <1>17, <1>18 DEF FlightInv
  <2>4. \A i, j \in DOMAIN toBroker' : toBroker'[i].packet_id = toBroker'[j].packet_id => i = j
    <3> SUFFICES ASSUME NEW i \in DOMAIN toBroker', NEW j \in DOMAIN toBroker',
                        toBroker'[i].packet_id = toBroker'[j].packet_id
                 PROVE  i = j
      OBVIOUS
    <3>1. i + 1 = j + 1
      BY <1>1, <1>4 DEF FlightInv
    <3>2. i \in Int /\ j \in Int
      BY <1>4
    <3> QED BY <3>1, <3>2
  <2>5. \A i \in DOMAIN toPeer', j \in DOMAIN toBroker' :
             Kept(toPeer'[i]) => toPeer'[i].packet_id # toBroker'[j].packet_id
    BY <1>1, <1>4, <1>17, <1>18 DEF FlightInv
  <2> QED BY <1>2, <1>5, <2>1, <2>2, <2>3, <2>4, <2>5 DEF FlightInv, InWindow, r
<1>22. Qos0Inv'
  <2>1. \A i \in DOMAIN toPeer' : ~ Kept(toPeer'[i]) => i \in DOMAIN toPeer /\ toPeer'[i] = toPeer[i]
    BY <1>17, <1>18
  <2>2. \A i \in DOMAIN toPeer' : ~ Kept(toPeer'[i]) => Published(toPeer[i])' /\ ~ Seen(toPeer[i].msg)'
    BY <1>1, <1>2, <1>16, <2>1 DEF Qos0Inv, Published, Seen
  <2> QED BY <1>1, <2>1, <2>2 DEF Qos0Inv
<1>23. PeerInv'
  <2>1. ASSUME NEW i \in DOMAIN r
        PROVE  /\ r[i].type = "PUBLISH" /\ r[i].packet_id \in qos2_packet_ids => Seen(r[i].msg)
               /\ r[i].type = "PUBLISH" /\ r[i].qos = 2 /\ r[i].packet_id \notin qos2_packet_ids
                    => ~ Seen(r[i].msg)
               /\ r[i].packet_id \in qos2_packet_ids => r[i].qos # 1
    <3>1. CASE i \in 1 .. n - 1 /\ r[i] = q[From(k, i)]
      BY <1>1, <1>11, <3>1 DEF PeerInv, q
    <3>2. CASE r[i] = Pubrel(ack.packet_id)
      BY <1>10, <3>2
    <3> QED BY <1>12, <3>1, <3>2
  <2>2. ASSUME NEW i \in DOMAIN toBroker'
        PROVE  /\ toBroker'[i].type = "PUBCOMP" => toBroker'[i].packet_id \notin qos2_packet_ids
               /\ toBroker'[i].type # "PUBCOMP" =>
                    \A j \in DOMAIN r : r[j].packet_id = toBroker'[i].packet_id => Seen(r[j].msg)
    <3>1. toBroker'[i] = toBroker[i + 1] /\ i + 1 \in DOMAIN toBroker /\ toBroker[i + 1].packet_id # ack.packet_id
      BY <1>1, <1>4 DEF FlightInv, ack
    <3>2. ASSUME toBroker'[i].type # "PUBCOMP", NEW j \in DOMAIN r, r[j].packet_id = toBroker'[i].packet_id
          PROVE  Seen(r[j].msg)
      <4>1. r[j] = q[From(k, j)] /\ j \in 1 .. n - 1
        BY <1>10, <1>12, <3>1, <3>2
      <4> QED BY <1>1, <1>11, <3>1, <3>2, <4>1 DEF PeerInv, q
    <3>3. toBroker'[i].type = "PUBCOMP" => toBroker'[i].packet_id \notin qos2_packet_ids
      BY <1>1, <3>1 DEF PeerInv
    <3> QED BY <3>2, <3>3
  <2>3. \A j \in DOMAIN r : Seen(store.queue[j].msg)' <=> Seen(r[j].msg)
    BY <1>2 DEF Seen, r
  <2>4. /\ \A j \in DOMAIN delivered' : delivered'[j] <= Handled'
        /\ \A i, j \in DOMAIN delivered' : delivered'[i] = delivered'[j] /\ i # j => published'[delivered'[i]] = 1
    BY <1>1, <1>2, <1>16 DEF PeerInv
  <2> QED BY <1>2, <2>1, <2>2, <2>3, <2>4 DEF PeerInv, r
<1>24. NoOrphanIds'
  <2> SUFFICES ASSUME NEW id \in qos2_packet_ids
               PROVE  \E i \in DOMAIN r : r[i].packet_id = id
    BY <1>2 DEF NoOrphanIds, r
  <2>1. PICK j \in DOMAIN q : q[j].packet_id = id
    BY <1>1 DEF NoOrphanIds, q
  <2>2. CASE j # k
    BY <1>13, <2>1, <2>2
  <2>3. CASE j = k
    <3>1. ack.type # "PUBCOMP"
      BY <1>1, <1>4, <1>9, <2>1, <2>3 DEF PeerInv, ack
    <3>2. ack.type # "PUBACK"
      BY <1>1, <1>6, <1>7, <2>1, <2>3 DEF PeerInv, Answers, q
    <3>3. ack.type = "PUBREC"
      BY <1>5, <3>1, <3>2
    <3>4. n \in DOMAIN r /\ r[n] = Pubrel(ack.packet_id)
      BY <1>6, <1>7, <1>8, <3>3
    <3> QED BY <1>9, <1>10, <2>1, <2>3, <3>4
  <2> QED BY <2>2, <2>3
<1>25. NothingLost'
  <2> SUFFICES ASSUME NEW m \in DOMAIN published, published[m] > 0
               PROVE  \/ \E i \in DOMAIN broadcast_tasks : broadcast_tasks[i].msg = m
                      \/ \E i \in DOMAIN r : r[i].msg = m
                      \/ m \in Range(delivered)
    BY <1>2 DEF NothingLost, r
  <2>1. ASSUME NEW j \in DOMAIN q, q[j].msg = m
        PROVE  (\E i \in DOMAIN r : r[i].msg = m) \/ m \in Range(delivered)
    <3>1. CASE j # k
      BY <1>13, <2>1, <3>1
    <3>2. CASE j = k
      <4>1. ack.type # "PUBCOMP"
        <5>1. m # 0
          BY <1>1 DEF LogFacts
        <5>2. q[k].type = "PUBREL" => q[k].msg = 0
          BY <1>6, Packets
        <5> QED BY <1>7, <2>1, <3>2, <5>1, <5>2 DEF Answers
      <4>2. Seen(q[k].msg)
        BY <1>1, <1>4, <1>6, <1>9, <4>1 DEF PeerInv, q, ack
      <4> QED BY <2>1, <3>2, <4>2 DEF Seen, Range
    <3> QED BY <3>1, <3>2
  <2> QED BY <1>1, <2>1 DEF NothingLost, q
<1> QED BY <1>19, <1>20, <1>21, <1>22, <1>23, <1>24, <1>25

-----------------------------------------------------------------------------
(* The theorems.                                                           *)

\* Every step preserves the invariant.
LEMMA NextQos ==
  ASSUME next_packet_id' # next_packet_id => FreeId, QosInv, [Next]_vars
  PROVE  QosInv'
<1>1. Inv'
  BY NextInv DEF QosInv
<1> DEFINE Rest == TaskInv' /\ QueueInv' /\ FlightInv' /\ Qos0Inv' /\ PeerInv' /\ NoOrphanIds' /\ NothingLost'
<1> SUFFICES Rest
  BY <1>1 DEF QosInv
<1>2. ASSUME NEW qos \in Qos, Broadcast(qos) PROVE Rest
  BY <1>2, BroadcastQos
<1>3. CASE CloseSession
  BY <1>3, ConnectionQos DEF CloseSession, network, peer
<1>4. CASE ResumeSession
  BY <1>4, ConnectionQos DEF ResumeSession, network, peer
<1>5. CASE ConnectComplete
  BY <1>5, ConnectQos
<1>6. CASE HandleBroadcast
  BY <1>6, HandleBroadcastQos
<1>7. CASE ReceiveAck
  BY <1>1, <1>7, ReceiveAckQos
<1>8. CASE PeerReceivesPublish
  BY <1>8, PeerReceivesPublishQos
<1>9. CASE PeerReceivesPubrel
  BY <1>9, PeerReceivesPubrelQos
<1>10. CASE Drop
  BY <1>10, ConnectionQos DEF Drop, peer
<1>11. CASE UNCHANGED vars
  BY <1>11, ConnectionQos DEF vars
<1> QED BY <1>2, <1>3, <1>4, <1>5, <1>6, <1>7, <1>8, <1>9, <1>10, <1>11 DEF Next, System

\* The invariant behind the guarantees of QoS delivery: an acknowledgement on its
\* way always finds the packet it is about, and only that packet
\* (mqtt_session.c:211-292, mqtt_msg_store.c:35-66).
THEOREM QosInvariance == FreeIdSpec => []QosInv
<1>1. QosInv /\ [FreeIdNext]_vars => QosInv'
  <2>1. CASE vars' = vars
    BY <2>1, NextQos DEF vars
  <2>2. CASE FreeIdNext
    BY <2>2, NextQos DEF FreeIdNext
  <2> QED BY <2>1, <2>2
<1> QED BY <1>1, InitQos, PTL DEF FreeIdSpec

\* No QoS 1 or 2 message is lost, whatever connections break: it waits for the IO
\* thread, is in the sending queue, or has been handed on (mqtt_session.c:30-40, 260-292).
THEOREM NoMessageLost == FreeIdSpec => []NothingLost
<1>1. QosInv => NothingLost
  BY DEF QosInv
<1> QED BY <1>1, QosInvariance, PTL

\* The peer never remembers a QoS 2 id that nothing will make it forget
\* (mqtt_session.c:211-235).
THEOREM NoIdForgotten == FreeIdSpec => []NoOrphanIds
<1>1. QosInv => NoOrphanIds
  BY DEF QosInv
<1> QED BY <1>1, QosInvariance, PTL

\* A message of QoS 0 or 2 is handed on at most once (mqtt_session.c:183-196, 231-235).
THEOREM HandedOnAtMostOnce == FreeIdSpec => []AtMostOnce
<1>1. QosInv => AtMostOnce
  <2> SUFFICES ASSUME QosInv, NEW m \in DOMAIN published, published[m] \in {0, 2}
               PROVE  Cardinality({i \in DOMAIN delivered : delivered[i] = m}) <= 1
    BY DEF AtMostOnce, Deliveries
  <2> DEFINE D == {i \in DOMAIN delivered : delivered[i] = m}
  <2>1. \A i, j \in DOMAIN delivered : delivered[i] = delivered[j] /\ i # j => published[delivered[i]] = 1
    BY DEF QosInv, PeerInv
  <2>2. \A i, j \in D : i = j
    BY <2>1
  <2>3. CASE D = {}
    BY <2>3, FS_EmptySet
  <2>4. CASE D # {}
    <3>1. PICK i \in D : D = {i}
      BY <2>2, <2>4
    <3>2. Cardinality(D) = 1
      BY <3>1, FS_Singleton
    <3> QED BY <3>2
  <2> QED BY <2>3, <2>4
<1> QED BY <1>1, QosInvariance, PTL

\* "for qos2 message, check if it is a redelivery": what the peer discards it has
\* handed on before (mqtt_session.c:183-196).
THEOREM OnlyRedeliveriesDiscarded == FreeIdSpec => []DiscardsOnlyRedeliveries
<1>1. QosInv => DiscardsOnlyRedeliveries
  <2> SUFFICES ASSUME QosInv, toPeer # <<>>, Head(toPeer).type = "PUBLISH", IsRedelivery(Head(toPeer))
               PROVE  Head(toPeer).msg \in Range(delivered)
    BY DEF DiscardsOnlyRedeliveries
  <2>1. QueueFacts /\ WireFacts /\ FlightInv /\ PeerInv
    BY TypeFacts DEF QosInv
  <2>2. Head(toPeer) = toPeer[1] /\ 1 \in DOMAIN toPeer
    BY <2>1, TailFacts DEF WireFacts
  <2>3. Kept(toPeer[1]) /\ toPeer[1].packet_id \in qos2_packet_ids
    BY <2>2 DEF IsRedelivery, Kept
  <2>4. PICK k \in 1 .. store.inflight : store.queue[k] = toPeer[1]
    BY <2>1, <2>2, <2>3 DEF FlightInv, InWindow
  <2>5. Seen(toPeer[1].msg)
    BY <2>1, <2>2, <2>3, <2>4 DEF PeerInv, QueueFacts
  <2> QED BY <2>2, <2>5 DEF Seen, Range
<1> QED BY <1>1, QosInvariance, PTL

-----------------------------------------------------------------------------
(* Order.                                                                  *)

\* Receiving a PUBLISH, with a window of one packet: the packet is the first of the
\* queue, so what was broadcast before it has left the queue, and was handed on.
LEMMA PublishInOrder ==
  ASSUME QosInv, inflight_window_size = 1, PeerReceivesPublish,
         NEW m \in Int, m >= 1, m < Head(toPeer).msg, published[Head(toPeer).msg] > 0, published[m] > 0
  PROVE  Seen(m)
<1>1. /\ TaskInv /\ QueueInv /\ FlightInv /\ Qos0Inv /\ PeerInv /\ NothingLost
      /\ QueueFacts /\ WireFacts /\ LogFacts
  BY TypeFacts DEF QosInv
<1>2. toPeer # <<>> /\ Head(toPeer).type = "PUBLISH"
  BY DEF PeerReceivesPublish
<1>3. PICK p \in Packet : p = Head(toPeer) /\ p = toPeer[1]
  BY <1>1, <1>2, TailFacts DEF WireFacts
<1>4. 1 \in DOMAIN toPeer
  BY <1>1, <1>2, TailFacts DEF WireFacts
<1>5. p.type = "PUBLISH" /\ p.msg \in Int /\ p.qos \in Int /\ p.qos >= 0
  BY <1>2, <1>3, Packets
<1>6. Kept(p)
  <2> SUFFICES ASSUME ~ Kept(p) PROVE FALSE
    OBVIOUS
  <2>1. p.qos = published[p.msg]
    BY <1>1, <1>3, <1>4 DEF Qos0Inv, Published
  <2>2. published[p.msg] > 0
    BY <1>3
  <2> QED BY <2>1, <2>2 DEF Kept
<1>7. store.inflight <= 1
  BY DEF QosInv, Inv, WindowInv, WellFormed
<1>8. PICK k \in 1 .. store.inflight : store.queue[k] = p
  BY <1>1, <1>3, <1>4, <1>6 DEF FlightInv, InWindow
<1>9. k = 1 /\ 1 \in DOMAIN store.queue /\ store.queue[1] = p
  BY <1>1, <1>7, <1>8 DEF QueueFacts
<1>10. p.msg <= Handled /\ Handled \in Int /\ m < p.msg
  BY <1>1, <1>3, <1>5, <1>9 DEF QueueInv, Published, LogFacts
<1>11. m \in DOMAIN published
  BY <1>1, <1>10, <1>5 DEF LogFacts, Handled
<1>12. ~ \E i \in DOMAIN broadcast_tasks : broadcast_tasks[i].msg = m
  <2> SUFFICES ASSUME NEW i \in DOMAIN broadcast_tasks, broadcast_tasks[i].msg = m PROVE FALSE
    OBVIOUS
  <2>1. m = Handled + i /\ i \in Int /\ i >= 1
    BY <1>1 DEF TaskInv, LogFacts
  <2> QED BY <1>5, <1>10, <2>1
<1>13. ~ \E i \in DOMAIN store.queue : store.queue[i].msg = m
  <2> SUFFICES ASSUME NEW i \in DOMAIN store.queue, store.queue[i].msg = m PROVE FALSE
    OBVIOUS
  <2>1. store.queue[i] \in Packet /\ i \in Int /\ i >= 1
    BY <1>1 DEF QueueFacts
  <2>2. store.queue[i].type = "PUBLISH"
    BY <2>1, Packets
  <2>3. i # 1
    BY <1>5, <1>9, <1>10
  <2>4. p.msg < m
    BY <1>1, <1>5, <1>9, <2>1, <2>2, <2>3 DEF QueueInv
  <2> QED BY <1>5, <1>10, <2>4
<1>14. m \in Range(delivered)
  BY <1>1, <1>11, <1>12, <1>13 DEF NothingLost
<1> QED BY <1>14 DEF Range, Seen

\* Every step preserves the order of first copies.
LEMMA NextOrder ==
  ASSUME QosInv, inflight_window_size = 1, FirstCopiesInOrder, [Next]_vars
  PROVE  FirstCopiesInOrder'
<1>1. LogFacts /\ WireFacts /\ PeerInv /\ TaskInv
  BY TypeFacts DEF QosInv
<1>2. \A j \in DOMAIN delivered : /\ delivered[j] \in Int /\ delivered[j] >= 1 /\ delivered[j] <= Handled
                                  /\ delivered[j] <= Len(published)
  BY <1>1, DeliveryAssumption DEF LogFacts, Msg, PeerInv, TaskInv, Handled
<1>3. ASSUME NEW qos \in Qos, Broadcast(qos) PROVE FirstCopiesInOrder'
  <2>1. delivered' = delivered /\ published' = Append(published, qos) /\ qos \in 0 .. 2
    BY <1>3, DeliveryAssumption DEF Broadcast, peer
  <2>2. \A i \in 1 .. Len(published) : published'[i] = published[i]
    BY <1>1, <2>1, AppendFacts DEF LogFacts
  <2> SUFFICES ASSUME NEW j \in DOMAIN delivered, published'[delivered[j]] > 0,
                      NEW m \in 1 .. delivered[j] - 1, published'[m] > 0
               PROVE  \E i \in 1 .. j - 1 : delivered[i] = m
    <3>1. delivered' = delivered
      BY <2>1
    <3> QED BY <3>1 DEF FirstCopiesInOrder
  <2>3. delivered[j] \in 1 .. Len(published) /\ m \in 1 .. Len(published)
    BY <1>1, <1>2 DEF LogFacts
  <2>4. published[delivered[j]] > 0 /\ published[m] > 0
    BY <2>2, <2>3
  <2> QED BY <2>4 DEF FirstCopiesInOrder
<1>4. ASSUME UNCHANGED <<delivered, published>> PROVE FirstCopiesInOrder'
  BY <1>4 DEF FirstCopiesInOrder
<1>5. CASE PeerReceivesPublish
  <2>1. published' = published /\ (delivered' = delivered \/ delivered' = Append(delivered, Head(toPeer).msg))
    BY <1>5 DEF PeerReceivesPublish
  <2>2. CASE delivered' = delivered
    BY <1>4, <2>1, <2>2
  <2>3. CASE delivered' = Append(delivered, Head(toPeer).msg)
    <3>1. Head(toPeer) \in Packet /\ Head(toPeer).type = "PUBLISH"
      BY <1>1, <1>5, TailFacts DEF WireFacts, PeerReceivesPublish
    <3>2. Head(toPeer).msg \in Msg /\ Head(toPeer).msg \in Int
      BY <3>1, Packets
    <3>3. /\ DOMAIN delivered' = 1 .. Len(delivered) + 1 /\ delivered'[Len(delivered) + 1] = Head(toPeer).msg
          /\ \A i \in 1 .. Len(delivered) : delivered'[i] = delivered[i]
      BY <1>1, <2>3, <3>2, AppendFacts DEF LogFacts
    <3> SUFFICES ASSUME NEW j \in DOMAIN delivered', published[delivered'[j]] > 0,
                        NEW m \in 1 .. delivered'[j] - 1, published[m] > 0
                 PROVE  \E i \in 1 .. j - 1 : delivered'[i] = m
      BY <2>1 DEF FirstCopiesInOrder
    <3>4. CASE j \in DOMAIN delivered
      <4>1. delivered'[j] = delivered[j]
        BY <1>1, <3>3, <3>4 DEF LogFacts
      <4>2. PICK i \in 1 .. j - 1 : delivered[i] = m
        BY <3>4, <4>1 DEF FirstCopiesInOrder
      <4>3. delivered'[i] = delivered[i]
        BY <1>1, <3>3, <3>4 DEF LogFacts
      <4> QED BY <4>2, <4>3
    <3>5. CASE j \notin DOMAIN delivered
      <4>1. j = Len(delivered) + 1 /\ delivered'[j] = Head(toPeer).msg
        BY <1>1, <3>3, <3>5 DEF LogFacts
      <4>2. m \in Int /\ m >= 1 /\ m < Head(toPeer).msg
        BY <3>2, <4>1
      <4>3. PICK i \in DOMAIN delivered : delivered[i] = m
        BY <1>5, <4>1, <4>2, PublishInOrder DEF Seen
      <4>4. i \in 1 .. j - 1 /\ delivered'[i] = delivered[i]
        BY <1>1, <3>3, <4>1 DEF LogFacts
      <4> QED BY <4>3, <4>4
    <3> QED BY <3>4, <3>5
  <2> QED BY <2>1, <2>2, <2>3
<1>6. CASE CloseSession \/ ResumeSession \/ Drop \/ ConnectComplete \/ HandleBroadcast \/ ReceiveAck
           \/ PeerReceivesPubrel
  BY <1>4, <1>6 DEF CloseSession, ResumeSession, Drop, ConnectComplete, HandleBroadcast, ReceiveAck,
                    PeerReceivesPubrel, peer
<1>7. CASE UNCHANGED vars
  BY <1>4, <1>7 DEF vars
<1> QED BY <1>3, <1>5, <1>6, <1>7 DEF Next, System

\* With a window of one packet, the default, the first copies of QoS 1 and 2 messages
\* arrive in the order in which they were broadcast, through any number of lost
\* connections (mqtt_session.c:42-56).
THEOREM FirstCopiesArriveInOrder ==
  ASSUME inflight_window_size = 1
  PROVE  FreeIdSpec => []FirstCopiesInOrder
<1>1. Init => FirstCopiesInOrder
  BY DEF Init, FirstCopiesInOrder
<1>2. QosInv /\ FirstCopiesInOrder /\ [FreeIdNext]_vars => FirstCopiesInOrder'
  BY NextOrder DEF FreeIdNext
<1>3. FreeIdSpec => []QosInv
  BY QosInvariance
<1> QED BY <1>1, <1>2, <1>3, PTL DEF FreeIdSpec

-----------------------------------------------------------------------------
(* Ids.                                                                    *)

\* The next id is the oldest, and no packet is that old.
LEMMA AgeFree ==
  ASSUME EnoughIds, QosInv, AgeInv
  PROVE  FreeId
<1>1. QueueFacts /\ LogFacts /\ TaskInv /\ next_packet_id \in Id
  BY TypeFacts DEF QosInv, Inv, TypeOK
<1>2. Handled <= MaxMsgs /\ MaxMsgs \in Nat /\ Handled \in Int
  BY <1>1, DeliveryAssumption DEF TaskInv, LogFacts, Handled
<1> SUFFICES ASSUME NEW i \in DOMAIN store.queue, store.queue[i].packet_id = next_packet_id
             PROVE  FALSE
  BY DEF FreeId
<1>3. AgeAt(next_packet_id, next_packet_id) <= Handled
  BY DEF AgeInv, Age
<1>4. AgeAt(next_packet_id, next_packet_id) = IdSpace /\ IdSpace \in Nat
  BY <1>1, AgeStep, ConstantFacts
<1> QED BY <1>2, <1>3, <1>4 DEF EnoughIds

\* A packet's id is no older than the number of messages handled.
LEMMA NextAge ==
  ASSUME EnoughIds, QosInv, AgeInv, [Next]_vars
  PROVE  AgeInv'
<1>1. QueueFacts /\ LogFacts /\ WireFacts /\ TaskInv /\ next_packet_id \in Id /\ FreeId
  BY TypeFacts, AgeFree DEF QosInv, Inv, TypeOK
<1>2. \A i \in DOMAIN store.queue : store.queue[i].packet_id \in Id /\ store.queue[i].packet_id # next_packet_id
  BY <1>1, Packets DEF QueueFacts, FreeId
<1>3. ASSUME UNCHANGED <<store, next_packet_id>>, Handled' = Handled
      PROVE  AgeInv'
  BY <1>3 DEF AgeInv, Age
<1>4. ASSUME NEW qos \in Qos, Broadcast(qos) PROVE AgeInv'
  <2>1. published' = Append(published, qos) /\ Len(published') = Len(published) + 1
    BY <1>1, <1>4, AppendFacts, DeliveryAssumption DEF Broadcast, LogFacts
  <2>2. Len(broadcast_tasks') = Len(broadcast_tasks) + 1
    BY <1>1, <1>4 DEF Broadcast, LogFacts
  <2>3. Handled' = Handled
    BY <1>1, <2>1, <2>2 DEF Handled, LogFacts
  <2> QED BY <1>3, <1>4, <2>3 DEF Broadcast, session
<1>5. CASE HandleBroadcast
  <2>1. PICK task \in BroadcastTask, pkt \in Packet : BroadcastOf(task, pkt)
    BY <1>5, BroadcastEffect
  <2>2. Handled' = Handled + 1 /\ Handled \in Int /\ Handled >= 0
    <3>1. broadcast_tasks # <<>> /\ broadcast_tasks' = Tail(broadcast_tasks) /\ published' = published
      BY <1>5 DEF HandleBroadcast
    <3>2. Len(broadcast_tasks') = Len(broadcast_tasks) - 1
      BY <1>1, <3>1, TailFacts DEF LogFacts
    <3> QED BY <1>1, <3>1, <3>2 DEF Handled, LogFacts, TaskInv
  <2>3. \A i \in DOMAIN store.queue :
           /\ AgeAt(next_packet_id, store.queue[i].packet_id) \in Int
           /\ AgeAt(next_packet_id, store.queue[i].packet_id) <= Handled
    BY <1>1, <1>2, AgeStep DEF AgeInv, Age
  <2>4. CASE task.qos = 0
    <3>1. store' = store /\ next_packet_id' = next_packet_id
      BY <2>1, <2>4 DEF BroadcastOf
    <3> QED BY <2>2, <2>3, <3>1 DEF AgeInv, Age
  <2>5. CASE task.qos > 0
    <3>1. /\ pkt.packet_id = next_packet_id /\ next_packet_id' = NextId(next_packet_id)
          /\ store'.queue = Append(store.queue, pkt)
      BY <2>1, <2>5 DEF BroadcastOf
    <3> SUFFICES ASSUME NEW i \in DOMAIN store'.queue
                 PROVE  AgeAt(next_packet_id', store'.queue[i].packet_id) <= Handled + 1
      BY <2>2 DEF AgeInv, Age
    <3>2. \/ store'.queue[i] = pkt
          \/ i \in DOMAIN store.queue /\ store'.queue[i] = store.queue[i]
      BY <1>1, <3>1, AppendFacts DEF QueueFacts
    <3>3. CASE store'.queue[i] = pkt
      BY <1>1, <2>2, <3>1, <3>3, AgeStep
    <3>4. CASE i \in DOMAIN store.queue /\ store'.queue[i] = store.queue[i]
      <4>1. AgeAt(next_packet_id', store.queue[i].packet_id) = AgeAt(next_packet_id, store.queue[i].packet_id) + 1
        BY <1>1, <1>2, <3>1, <3>4, AgeStep
      <4> QED BY <2>2, <2>3, <3>4, <4>1
    <3> QED BY <3>2, <3>3, <3>4
  <2>6. task.qos = 0 \/ task.qos > 0
    BY DEF BroadcastTask
  <2> QED BY <2>4, <2>5, <2>6
<1>6. CASE ReceiveAck
  <2>1. PICK k \in 1 .. store.inflight : AckOf(k)
    BY <1>6, AckEffect
  <2>2. UNCHANGED <<next_packet_id, broadcast_tasks, published>>
    BY <1>6 DEF ReceiveAck
  <2>3. store'.queue \in Seq(Packet)
    BY NextInv DEF QosInv, Inv, TypeOK
  <2>4. DOMAIN store'.queue = 1 .. Len(store'.queue)
    BY <2>3, SeqFacts
  <2>5. /\ k \in DOMAIN store.queue /\ k \in Nat /\ k >= 1 /\ k <= Len(store.queue) /\ Len(store.queue) \in Nat
    BY <1>1 DEF QueueFacts
  <2>6. ASSUME NEW i \in DOMAIN store'.queue
        PROVE  \E j \in DOMAIN store.queue : store'.queue[i].packet_id = store.queue[j].packet_id
    <3>1. CASE i \in 1 .. Len(store.queue) - 1
      <4>1. store'.queue[i] = store.queue[From(k, i)]
        BY <2>1, <3>1 DEF AckOf
      <4>2. From(k, i) \in DOMAIN store.queue
        BY <1>1, <2>5, <3>1 DEF From, QueueFacts
      <4> QED BY <4>1, <4>2
    <3>2. CASE i \notin 1 .. Len(store.queue) - 1
      <4>1. toBroker[1].type = "PUBREC" /\ i = Len(store.queue)
        BY <2>1, <2>4, <2>5, <3>2 DEF AckOf
      <4>2. store'.queue[i].packet_id = toBroker[1].packet_id
        BY <2>1, <4>1 DEF AckOf, Pubrel
      <4>3. toBroker[1].packet_id = store.queue[k].packet_id
        BY <2>1 DEF AckOf, Answers
      <4> QED BY <2>5, <4>2, <4>3
    <3> QED BY <3>1, <3>2
  <2>7. Handled' = Handled
    BY <2>2 DEF Handled
  <2> QED BY <2>2, <2>6, <2>7 DEF AgeInv, Age
<1>7. CASE CloseSession \/ ResumeSession \/ Drop \/ ConnectComplete \/ PeerReceivesPublish \/ PeerReceivesPubrel
  BY <1>3, <1>7 DEF CloseSession, ResumeSession, Drop, ConnectComplete, PeerReceivesPublish,
                    PeerReceivesPubrel, session, Handled
<1>8. CASE UNCHANGED vars
  BY <1>3, <1>8 DEF vars, Handled
<1> QED BY <1>4, <1>5, <1>6, <1>7, <1>8 DEF Next, System

\* Every execution is one of FreeIdSpec when there are fewer messages than packet
\* ids: 65536 in the code (mqtt_session.c:277).
THEOREM IdsSuffice ==
  ASSUME EnoughIds
  PROVE  Spec => FreeIdSpec
<1>1. Init => QosInv /\ AgeInv
  <2> SUFFICES ASSUME Init PROVE AgeInv
    BY InitQos
  <2>1. DOMAIN store.queue = {}
    BY DEF Init, EmptyStore
  <2> QED BY <2>1 DEF AgeInv
<1>2. QosInv /\ AgeInv /\ [Next]_vars => (QosInv /\ AgeInv)'
  BY AgeFree, NextAge, NextQos
<1>3. QosInv /\ AgeInv /\ [Next]_vars => [FreeIdNext]_vars
  BY AgeFree DEF FreeIdNext
<1> QED BY <1>1, <1>2, <1>3, PTL DEF Spec, FreeIdSpec
=============================================================================
