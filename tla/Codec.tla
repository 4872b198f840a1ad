-------------------------------- MODULE Codec --------------------------------
(***************************************************************************)
(* The receiving side of a connection: read_cb_ fills in_buffer with what  *)
(* has arrived, and decode_tcp_message_ of the connection's codec hands on *)
(* the packets in it.  A packet may be split anywhere by the network, so   *)
(* the decoder keeps what it has read of one in parsing_ctx.  Both codecs  *)
(* are here: the one of MQTT (codec/mqtt_proto_codec.c) and the one with a *)
(* fixed header, of the cluster and the console (codec/mqtt_codec.c).      *)
(*                                                                         *)
(* The sender is this repository's (send_*_packet), or a peer that encodes *)
(* in the same way.  One record stands for a packet of any type: id is its *)
(* packet id or keep-alive time, fields are its strings, codes its single  *)
(* bytes.  Half is 128, so that a byte is a number below 2 * Half.         *)
(***************************************************************************)
EXTENDS Buffer

CONSTANTS Half,         \* 128
          Pkts,         \* Pkts[codec]: the packets a peer may send
          MaxPackets    \* bound: packets sent on the connection

VARIABLES codec,        \* "SERVER", "CLIENT" (tmq_mqtt_codec_t) or "LEN_BASED"
          ssl,          \* conn->ssl # NULL
          tcp,          \* conn->state
          conn_state,   \* conn->context->conn_state
          parsing_ctx,
          in_buffer,
          decoding,     \* decode_tcp_message_ is running
          wire,         \* bytes sent and not read yet
          sent,         \* history: the packets sent
          consumed,     \* history: number of bytes taken out of in_buffer
          handed        \* history: the packets handed on

vars == <<codec, ssl, tcp, conn_state, parsing_ctx, in_buffer, decoding, wire, sent,
          consumed, handed>>

PacketTypes ==
  <<"CONNECT", "CONNACK", "PUBLISH", "PUBACK", "PUBREC", "PUBREL", "PUBCOMP", "SUBSCRIBE",
    "SUBACK", "UNSUBSCRIBE", "UNSUBACK", "PINGREQ", "PINGRESP", "DISCONNECT">>

TypeNo(type) == CHOOSE i \in DOMAIN PacketTypes : PacketTypes[i] = type

Bit(flags, v) == (flags \div v) % 2 = 1
PublishQos(flags) == (flags \div 2) % 4

-----------------------------------------------------------------------------
(* Encoding.                                                               *)

Uint16(n) == <<(n \div (2 * Half)) % (2 * Half), n % (2 * Half)>>

Str(s) == Uint16(Len(s)) \o s

Strs(fields) == FlattenSeq([i \in DOMAIN fields |-> Str(fields[i])])

\* make_fixed_header; it fails when the length takes more than four bytes.
LengthBytes(n) ==
  LET k == Min({j \in 1 .. 10 : n < Half ^ j})
  IN [i \in 1 .. k |-> ((n \div (Half ^ (i - 1))) % Half) + (IF i < k THEN Half ELSE 0)]

TotalLen(fields) == Len(FlattenSeq(fields))

\* The remain_length that send_connect_packet and its siblings compute.
RemainLen(p) ==
  CASE p.type = "CONNECT" -> 10 + TotalLen(p.fields) + 2 * Len(p.fields)
    [] p.type = "PUBLISH" ->
         2 + TotalLen(p.fields) + (IF PublishQos(p.flags) = 0 THEN 0 ELSE 2)
    [] p.type = "SUBSCRIBE" -> 2 + TotalLen(p.fields) + 3 * Len(p.fields)
    [] p.type = "UNSUBSCRIBE" -> 2 + TotalLen(p.fields) + 2 * Len(p.fields)
    [] p.type = "SUBACK" -> 2 + Len(p.codes)
    [] p.type \in {"PINGREQ", "PINGRESP", "DISCONNECT"} -> 0
    [] OTHER -> 2

ProtocolName == <<77, 81, 84, 84>>

\* What they write behind the fixed header.
ConnectBody(p) == Str(ProtocolName) \o p.codes \o Uint16(p.id) \o Strs(p.fields)

\* pack_publish_packet.
PublishBody(p) ==
  Str(p.fields[1]) \o (IF PublishQos(p.flags) > 0 THEN Uint16(p.id) ELSE <<>>) \o p.fields[2]

SubscribeBody(p) ==
  Uint16(p.id) \o FlattenSeq([i \in DOMAIN p.fields |-> Append(Str(p.fields[i]), p.codes[i])])

BodyBytes(p) ==
  CASE p.type = "CONNECT" -> ConnectBody(p)
    [] p.type = "CONNACK" -> p.codes
    [] p.type = "PUBLISH" -> PublishBody(p)
    [] p.type = "SUBSCRIBE" -> SubscribeBody(p)
    [] p.type = "UNSUBSCRIBE" -> Uint16(p.id) \o Strs(p.fields)
    [] p.type = "SUBACK" -> Uint16(p.id) \o p.codes
    [] p.type \in {"PINGREQ", "PINGRESP", "DISCONNECT"} -> <<>>
    [] OTHER -> Uint16(p.id)

MqttBytes(p) ==
  <<(16 * TypeNo(p.type)) + p.flags>> \o LengthBytes(RemainLen(p)) \o BodyBytes(p)

\* send_route_sync_del_message, send_publish_tun_message, send_add_user_message.
\* Strings end with a byte 0 there.
LenBasedPayload(p) ==
  CASE p.type = "CLUSTER_TUN_PUBLISH" -> MqttBytes([p EXCEPT !.type = "PUBLISH"])
    [] OTHER -> FlattenSeq([i \in DOMAIN p.fields |-> Append(p.fields[i], 0)])

LenBasedTypes == <<"CLUSTER_ROUTE_SYNC", "CLUSTER_TUN_PUBLISH", "ADD_USER">>

LenBasedBytes(p) ==
  LET payload == LenBasedPayload(p)
  IN <<CHOOSE i \in DOMAIN LenBasedTypes : LenBasedTypes[i] = p.type>>
       \o Uint16(Len(payload)) \o payload

\* The MQTT senders give up a packet for which make_fixed_header fails.
CanBeSent(p) == codec = "LEN_BASED" \/ Len(LengthBytes(RemainLen(p))) <= 4

Encode(p) == IF codec = "LEN_BASED" THEN LenBasedBytes(p) ELSE MqttBytes(p)

-----------------------------------------------------------------------------
(* Decoding a body.  A parser returns the packet, the number of bytes it   *)
(* has taken, and its status.                                              *)

Uint16At(s, i) == (s[i] * 2 * Half) + s[i + 1]

\* tmq_buffer_read of n bytes, from position i on: those that are there.
BytesAt(s, i, n) == SubSeq(s, i, Min({i + n - 1, Len(s)}))

\* k strings, one behind the other, from position i on: tmq_buffer_read16 and
\* tmq_buffer_read by turns.
StrsAt(s, i, k) ==
  LET ReadOne(acc, j) ==
        LET str == BytesAt(s, acc.at + 2, Uint16At(s, acc.at))
        IN [at |-> acc.at + 2 + Len(str), strs |-> Append(acc.strs, str)]
  IN FoldLeft(ReadOne, [at |-> i, strs |-> <<>>], [j \in 1 .. k |-> j])

\* The loop of parse_subscribe_packet and parse_unsubscribe_packet over the
\* filters; a QoS byte follows each of a SUBSCRIBE.
FiltersAt(s, i, end, qos_bytes) ==
  LET from[a \in 1 .. end + 1] ==
        IF a > end THEN <<>>
        ELSE LET n == Uint16At(s, a)
             IN <<[filter |-> SubSeq(s, a + 2, a + 1 + n),
                   qos |-> IF qos_bytes = 1 THEN s[a + 2 + n] ELSE 0]>>
                  \o from[a + 2 + n + qos_bytes]
  IN from[i]

Parsed(status, used, type, flags, id, fields, codes) ==
  [status |-> status, used |-> used,
   pkt |-> [type |-> type, flags |-> flags, id |-> id, fields |-> fields, codes |-> codes]]

\* parse_connect_packet.  The answer it sends to a level or an id it refuses is
\* followed by the end of the connection.
ParseConnect(s, flags) ==
  LET level == s[7]
      cf == s[8]
      num == 1 + (IF Bit(cf, 4) THEN 2 ELSE 0) + (IF Bit(cf, 128) THEN 1 ELSE 0)
               + (IF Bit(cf, 64) THEN 1 ELSE 0)
      got == StrsAt(s, 11, num)
      refused == \/ Uint16At(s, 1) # 4 \/ SubSeq(s, 3, 6) # ProtocolName
                 \/ level # 4
                 \/ Bit(cf, 1)
                 \/ ~ Bit(cf, 4) /\ (cf \div 8) % 4 # 0
                 \/ (cf \div 8) % 4 > 2
                 \/ Uint16At(s, 11) = 0 /\ ~ Bit(cf, 2)
  IN IF refused THEN Parsed("PROTOCOL_ERROR", 0, "CONNECT", flags, 0, <<>>, <<>>)
     ELSE Parsed("DECODE_OK", got.at - 1, "CONNECT", flags, Uint16At(s, 9), got.strs,
                 <<level, cf>>)

\* The packet id, of two bytes, that a PUBLISH above QoS 0 has.
\* Mutant: only one of QoS 1 is thought to have it.
IdLenQos1(flags) == IF PublishQos(flags) = 1 THEN 2 ELSE 0
IdLen(flags) == IF PublishQos(flags) # 0 THEN 2 ELSE 0

\* parse_publish_packet: the payload is what the length leaves.  The packet is
\* refused when the id does not fit into the length.  A topic that does not fit
\* is not noticed, because len - 2 - topic_name_len is unsigned: the payload is
\* then all that is readable.
ParsePublish(s, flags, len) ==
  LET topic == StrsAt(s, 1, 1)
      id_len == IdLen(flags)
      rest == len - 2 - Uint16At(s, 1)
      end == IF rest < 0 THEN Len(s) ELSE len
      id == IF id_len = 2 THEN Uint16At(s, topic.at) ELSE 0
  IN IF rest >= 0 /\ rest < id_len
     THEN Parsed("BAD_PACKET_FORMAT", topic.at - 1 + id_len, "PUBLISH", flags, id,
                 topic.strs, <<>>)
     ELSE Parsed("DECODE_OK", end, "PUBLISH", flags, id,
                 <<topic.strs[1], SubSeq(s, topic.at + id_len, end)>>, <<>>)

\* parse_subscribe_packet, parse_unsubscribe_packet.
ParseFilters(s, type, flags, len) ==
  LET got == FiltersAt(s, 3, len, IF type = "SUBSCRIBE" THEN 1 ELSE 0)
      qos == [i \in DOMAIN got |-> got[i].qos]
  IN Parsed(IF \E i \in DOMAIN qos : qos[i] > 2 THEN "PROTOCOL_ERROR" ELSE "DECODE_OK",
            len, type, flags, Uint16At(s, 1), [i \in DOMAIN got |-> got[i].filter],
            IF type = "SUBSCRIBE" THEN qos ELSE <<>>)

\* parse_conn_ack_packet.
ParseConnack(s, flags) == Parsed("DECODE_OK", 2, "CONNACK", flags, 0, <<>>, SubSeq(s, 1, 2))

\* parse_suback_packet: the return codes are what the length leaves.
ParseSuback(s, flags, len) ==
  Parsed("DECODE_OK", len, "SUBACK", flags, Uint16At(s, 1), <<>>, SubSeq(s, 3, len))

\* The packets only one side accepts (codec->type).
Unexpected(type) ==
  \/ codec = "CLIENT" /\ type \in {"CONNECT", "SUBSCRIBE", "UNSUBSCRIBE", "PINGREQ",
                                   "DISCONNECT"}
  \/ codec = "SERVER" /\ type \in {"CONNACK", "SUBACK", "UNSUBACK", "PINGRESP"}

\* packet_parsers[type], applied to the readable bytes s.
ParseBody(type, flags, s, len) ==
  IF Unexpected(type) THEN Parsed("UNEXPECTED_PACKET", 0, type, flags, 0, <<>>, <<>>)
  ELSE
  CASE type = "CONNECT" -> ParseConnect(s, flags)
    [] type = "PUBLISH" -> ParsePublish(s, flags, len)
    [] type \in {"SUBSCRIBE", "UNSUBSCRIBE"} -> ParseFilters(s, type, flags, len)
    [] type = "CONNACK" -> ParseConnack(s, flags)
    [] type = "SUBACK" -> ParseSuback(s, flags, len)
    [] type \in {"PINGREQ", "PINGRESP", "DISCONNECT"} ->
         Parsed("DECODE_OK", 0, type, flags, 0, <<>>, <<>>)
    [] OTHER -> Parsed("DECODE_OK", 2, type, flags, Uint16At(s, 1), <<>>, <<>>)

\* The payload of the fixed-header codec.  A tunnelled PUBLISH is decoded by the
\* MQTT codec, on a context of its own.
ParsePayload(type, s, len) ==
  IF type = "CLUSTER_TUN_PUBLISH"
  THEN LET k == Min({i \in 2 .. len : ~ Bit(s[i], Half)})
           n == FoldLeft(LAMBDA sum, i : sum + ((s[i + 1] % Half) * (Half ^ (i - 1))), 0,
                         [i \in 1 .. k - 1 |-> i])
           inner == ParsePublish(SubSeq(s, k + 1, Len(s)), s[1] % 16, n)
       IN [inner EXCEPT !.used = @ + k, !.pkt.type = type]
  ELSE LET zeros == {i \in 1 .. len : s[i] = 0}
           first == Min(zeros)
       IN Parsed("DECODE_OK", len, type, 0, 0,
                 IF type = "ADD_USER"
                 THEN <<SubSeq(s, 1, first - 1), SubSeq(s, first + 1, len - 1)>>
                 ELSE <<SubSeq(s, 1, first - 1)>>, <<>>)

-----------------------------------------------------------------------------
(* The connection.                                                         *)

\* new_tcp_connection_handler, tcp_conn_established_cb.
Init ==
  /\ codec \in DOMAIN Pkts /\ ssl \in IF codec = "SERVER" THEN BOOLEAN ELSE {FALSE}
  /\ tcp = "CONNECTED" /\ conn_state = "NO_SESSION"
  /\ parsing_ctx = [state |-> IF codec = "LEN_BASED" THEN "PARSING_HEADER"
                                                     ELSE "PARSING_FIXED_HEADER",
                    type |-> "CONNECT", flags |-> 0, remain_length |-> 0, multiplier |-> 1]
  /\ in_buffer = EmptyBuffer
  /\ decoding = FALSE
  /\ wire = <<>> /\ sent = <<>> /\ consumed = 0 /\ handed = <<>>

\* The peer sends a packet.
Send(p) ==
  /\ Len(sent) < MaxPackets
  /\ tcp = "CONNECTED" /\ ~ decoding
  /\ CanBeSent(p)
  /\ sent' = Append(sent, p)
  /\ wire' = wire \o Encode(p)
  /\ UNCHANGED <<codec, ssl, tcp, conn_state, parsing_ctx, in_buffer, decoding, consumed,
                 handed>>

\* read_cb_ with n bytes arrived, up to the call of the decoder.
Read(n) ==
  /\ tcp = "CONNECTED" /\ ~ decoding
  /\ n <= Len(wire) /\ n <= MaxRead
  /\ in_buffer' = IF ssl THEN BufferAppend(in_buffer, SubSeq(wire, 1, n))
                         ELSE BufferReadFd(in_buffer, SubSeq(wire, 1, n))
  /\ wire' = SubSeq(wire, n + 1, Len(wire))
  /\ decoding' = TRUE
  /\ UNCHANGED <<codec, ssl, tcp, conn_state, parsing_ctx, sent, consumed, handed>>

\* tmq_buffer_read of n bytes.
Take(n) ==
  /\ in_buffer' = BufferRemove(in_buffer, n)
  /\ consumed' = consumed + n

\* The decoder returns, after tmq_tcp_conn_force_close or for want of data.
ForceClose ==
  /\ tcp' = "DISCONNECTED"
  /\ decoding' = FALSE
  /\ UNCHANGED <<codec, ssl, wire, sent, handed, conn_state>>

\* validate_flags.
FlagsStatus(type, flags) ==
  CASE type = "PUBLISH" -> "DECODE_OK"
    [] type \in {"PUBREL", "SUBSCRIBE", "UNSUBSCRIBE"} ->
         IF flags = 2 THEN "DECODE_OK" ELSE "BAD_PACKET_FORMAT"
    [] OTHER -> IF flags = 0 THEN "DECODE_OK" ELSE "PROTOCOL_ERROR"

\* The test behind the fixed header.
FirstPacketOK(type) == conn_state # "NO_SESSION" \/ type \in {"CONNECT", "CONNACK"}

\* PARSING_FIXED_HEADER.  A PROTOCOL_ERROR of the flags closes the connection
\* only if nothing more is readable: the status is overwritten otherwise.
ParseFixedHeader ==
  /\ decoding /\ parsing_ctx.state = "PARSING_FIXED_HEADER"
  /\ LET byte == BufferPeek(in_buffer, 1)[1]
         no == (byte \div 16) % 16
         flags == byte % 16
         last == in_buffer.readable_bytes = 1
     IN /\ Take(1)
        /\ \/ /\ \/ no \notin DOMAIN PacketTypes
                 \/ /\ no \in DOMAIN PacketTypes
                    /\ \/ FlagsStatus(PacketTypes[no], flags) = "BAD_PACKET_FORMAT"
                       \/ ~ FirstPacketOK(PacketTypes[no])
                       \/ FlagsStatus(PacketTypes[no], flags) = "PROTOCOL_ERROR" /\ last
              /\ ForceClose
              /\ UNCHANGED parsing_ctx
           \/ /\ no \in DOMAIN PacketTypes
              /\ FlagsStatus(PacketTypes[no], flags) # "BAD_PACKET_FORMAT"
              /\ FirstPacketOK(PacketTypes[no])
              /\ ~ (FlagsStatus(PacketTypes[no], flags) = "PROTOCOL_ERROR" /\ last)
              /\ parsing_ctx' = [state |-> "PARSING_REMAIN_LENGTH", type |-> PacketTypes[no],
                                 flags |-> flags, remain_length |-> 0, multiplier |-> 1]
              /\ decoding' = ~ last
              /\ UNCHANGED <<codec, ssl, tcp, conn_state, wire, sent, handed>>

\* One round of parse_remain_length.
AddLengthByte(ctx, byte) ==
  [ctx EXCEPT !.remain_length = @ + ((byte % Half) * ctx.multiplier),
              !.multiplier = @ * Half,
              !.state = IF Bit(byte, Half) THEN @ ELSE "PARSING_BODY"]

ParseRemainLength ==
  /\ decoding /\ parsing_ctx.state = "PARSING_REMAIN_LENGTH"
  /\ LET byte == BufferPeek(in_buffer, 1)[1] IN
     /\ Take(1)
     /\ IF parsing_ctx.multiplier > Half ^ 3
        THEN ForceClose /\ UNCHANGED parsing_ctx
        ELSE /\ parsing_ctx' = AddLengthByte(parsing_ctx, byte)
             /\ decoding' = ~ (Bit(byte, Half) /\ in_buffer.readable_bytes = 1)
             /\ UNCHANGED <<codec, ssl, tcp, conn_state, wire, sent, handed>>

\* What a parser does to conn_state: a CONNECT starts a session, a CONNACK that
\* accepts is the client's, a DISCONNECT ends it.
StateAfter(pkt) ==
  CASE pkt.type = "CONNECT" -> "STARTING_SESSION"
    [] pkt.type = "CONNACK" /\ pkt.codes[2] = 0 -> "IN_SESSION"
    [] pkt.type = "DISCONNECT" -> "NO_SESSION"
    [] OTHER -> conn_state

\* The loop goes on while it is at a header and something is readable.  Mutant:
\* one packet per call.
OnePacketOnly(left) == FALSE
GoOn(left) == left > 0

\* A body is complete: it is parsed and handed on, or refused.
HandOn(got, header) ==
  IF got.status # "DECODE_OK"
  THEN Take(got.used) /\ ForceClose /\ UNCHANGED parsing_ctx
  ELSE /\ Take(got.used)
       /\ handed' = Append(handed, got.pkt)
       /\ conn_state' = StateAfter(got.pkt)
       /\ parsing_ctx' = [parsing_ctx EXCEPT !.state = header]
       /\ decoding' = GoOn(in_buffer.readable_bytes - got.used)
       /\ UNCHANGED <<codec, ssl, tcp, wire, sent>>

\* PARSING_BODY, PARSING_PAYLOAD: not all of it has arrived.
Incomplete == in_buffer.readable_bytes < parsing_ctx.remain_length

NeedMoreData ==
  /\ decoding
  /\ \/ parsing_ctx.state \in {"PARSING_BODY", "PARSING_PAYLOAD"} /\ Incomplete
     \/ parsing_ctx.state = "PARSING_HEADER" /\ in_buffer.readable_bytes < 3
  /\ decoding' = FALSE
  /\ UNCHANGED <<codec, ssl, tcp, conn_state, parsing_ctx, in_buffer, wire, sent, consumed,
                 handed>>

ParsePacket ==
  /\ decoding /\ parsing_ctx.state = "PARSING_BODY" /\ ~ Incomplete
  /\ HandOn(ParseBody(parsing_ctx.type, parsing_ctx.flags, Contents(in_buffer),
                      parsing_ctx.remain_length), "PARSING_FIXED_HEADER")

\* decode_tcp_message_ of mqtt_codec.c.
ParseHeader ==
  /\ decoding /\ parsing_ctx.state = "PARSING_HEADER" /\ in_buffer.readable_bytes >= 3
  /\ LET s == BufferPeek(in_buffer, 3) IN
     parsing_ctx' = [parsing_ctx EXCEPT !.state = "PARSING_PAYLOAD",
                                        !.type = LenBasedTypes[s[1]],
                                        !.remain_length = Uint16At(s, 2)]
  /\ Take(3)
  /\ UNCHANGED <<codec, ssl, tcp, conn_state, decoding, wire, sent, handed>>

ParseMessage ==
  /\ decoding /\ parsing_ctx.state = "PARSING_PAYLOAD" /\ ~ Incomplete
  /\ HandOn(ParsePayload(parsing_ctx.type, Contents(in_buffer), parsing_ctx.remain_length),
            "PARSING_HEADER")

\* connect_complete_handler accepts the session (see module Sessions).
SessionStarted ==
  /\ ~ decoding /\ conn_state = "STARTING_SESSION" /\ tcp = "CONNECTED"
  /\ conn_state' = "IN_SESSION"
  /\ UNCHANGED <<codec, ssl, tcp, parsing_ctx, in_buffer, decoding, wire, sent, consumed,
                 handed>>

Next ==
  \/ \E p \in Pkts[codec] : Send(p)
  \/ \E n \in 1 .. Len(wire) : Read(n)
  \/ ParseFixedHeader \/ ParseRemainLength \/ NeedMoreData \/ ParsePacket
  \/ ParseHeader \/ ParseMessage
  \/ SessionStarted

Spec == Init /\ [][Next]_vars

-----------------------------------------------------------------------------
(* Properties.                                                             *)

\* However the network splits the stream and however the buffer lays it out in
\* chunks, the packets handed on are those sent, field by field, in their order
\* (decode_tcp_message_, codec/mqtt_proto_codec.c:399-452, mqtt_codec.c:17-40).
HandedAsSent == IsPrefix(handed, sent)

\* When the decoder returns on an open connection, all packets that have arrived
\* completely have been handed on: none waits in the buffer for the next read
\* (the loop's condition, codec/mqtt_proto_codec.c:451).
NothingStuck ==
  ~ decoding /\ tcp = "CONNECTED" =>
    LET arrived == consumed + in_buffer.readable_bytes
        BytesUpTo(k) == Len(FlattenSeq([i \in 1 .. k |-> Encode(sent[i])]))
    IN \A k \in 1 .. Len(sent) : BytesUpTo(k) <= arrived => Len(handed) >= k

=============================================================================
