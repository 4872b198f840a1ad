------------------------------- MODULE IoLoop -------------------------------
(***************************************************************************)
(* An IO thread: its event loop (ev/mqtt_event.c), its mailboxes           *)
(* (mqtt/mqtt_io_context.c) and the output, the close and the reference    *)
(* counts of its TCP connections (net/mqtt_tcp_conn.c).  Input is module   *)
(* Codec's: here a decoder only answers, starts a session or closes.  A    *)
(* connection is one of MQTT, plain or over TLS, or one of the console (a  *)
(* local socket, AF_LOCAL), whose decoder starts operations on users.  A   *)
(* client's connection is one of the kind "mqtt" that gets no mails.       *)
(*                                                                         *)
(* One round of the loop takes the events of epoll_wait, lists the active  *)
(* handlers and calls them one after the other.  A callback may unregister *)
(* any handler, also one still in the list; what it was tied to is only    *)
(* released at the end of the round.                                       *)
(*                                                                         *)
(* Bytes written to a connection are numbered, so the n-th is the number   *)
(* n.  The peer, the sockets, epoll and TLS are external.                  *)
(***************************************************************************)
EXTENDS Buffer, Integers, FiniteSets

CONSTANTS Conns,
          Kinds,      \* of the connections that are accepted
          MaxBytes,   \* bound: below it the decoder answers or starts an operation
          MaxMails,   \* bound: packets sent through the mailbox
          MaxTicks    \* bound: runs of mqtt_keepalive (broker) and shutdowns (client)

VARIABLES conn,       \* conn[c]: tmq_tcp_conn_t and what the kernel knows of it
          peer,       \* peer[c]: "open", "closed" (it has sent FIN) or "reset"
          avail,      \* avail[c]: bytes of the peer wait to be read
          mailbox,    \* mailbox[b]: the mails under the lock
          owed,       \* owed[b]: pushes between their unlock and their notify
          pipe,       \* pipe[b]: the wakeup pipe is readable
          swapping,   \* the mailbox whose pipe is read and whose mails are not taken
          mails,      \* the mails mail_callback still has to handle
          reported,   \* active_handlers, by descriptor: those epoll listed later
          active,     \* the rest of those of the descriptor being worked off
          in_round,   \* between epoll_wait and the next one
          quota       \* what the bounds still allow

loopVars == <<conn, peer, avail, mailbox, owed, pipe, swapping, mails, reported, active,
              in_round, quota>>

Boxes == {"pending_tcp_connections", "packet_sending_tasks"}
None == "none"

\* Connections are neither mailboxes nor the timer.
ASSUME ConnsAssumption == Conns \cap (Boxes \cup {"timer_fd"}) = {}
ASSUME KindsAssumption == Kinds \subseteq {"mqtt", "mqtts", "console"}

\* held: by the session, or by an operation on a user in the thread pool; in_map:
\* by tcp_conns (for a console also after a later one has taken its place there:
\* they have the same name, and the count stays as it is).
NoConn == [state |-> "NONE", kind |-> "mqtt", handlers |-> <<>>, removing |-> 0,
           in_map |-> FALSE, held |-> FALSE, ref_cnt |-> 0, is_writing |-> FALSE,
           out |-> EmptyBuffer, sock |-> <<>>, written |-> 0, shut |-> FALSE]

-----------------------------------------------------------------------------
(* The operations of a connection, as functions of its record.             *)

\* release_ref, n times.
Release(k, n) ==
  [k EXCEPT !.ref_cnt = @ - n, !.state = IF k.ref_cnt = n THEN "FREED" ELSE @]

\* tmq_handler_register: newest first, and the tied object is shared.
Register(k, h) == [k EXCEPT !.handlers = <<h>> \o @, !.ref_cnt = @ + 1]

\* tmq_handler_is_registered.
Has(k, h) == \E i \in DOMAIN k.handlers : k.handlers[i] = h

\* tmq_handler_unregister.
Unregister(k, h) ==
  IF Has(k, h)
  THEN [k EXCEPT !.handlers = RemoveFirst(@, h), !.removing = @ + 1]
  ELSE k

\* tmq_tcp_conn_new and new_tcp_connection_handler.
NewConn(kind) ==
  LET new == [NoConn EXCEPT !.state = IF kind = "mqtts" THEN "SSL_HANDSHAKING" ELSE "CONNECTED",
                            !.kind = kind, !.in_map = TRUE, !.ref_cnt = 1]
  IN Register(Register(new, "read"), "error")

\* conn_close_ with tcp_conn_close_callback, which new_tcp_connection_handler does
\* not set for a console: tcp_conns keeps that connection.
\* Mutant: the handlers are released at once, not at the end of the round.
CloseReleasesAll(k) ==
  IF k.state = "DISCONNECTED" THEN k
  ELSE Release([k EXCEPT !.state = "DISCONNECTED", !.handlers = <<>>, !.in_map = FALSE],
               1 + Len(k.handlers))
ConnClose(k) ==
  IF k.state = "DISCONNECTED" THEN k
  ELSE LET un == Unregister(Unregister(Unregister(k, "read"), "error"), "write")
       IN IF k.kind = "console" THEN [un EXCEPT !.state = "DISCONNECTED"]
          ELSE Release([un EXCEPT !.state = "DISCONNECTED", !.in_map = FALSE], 1)

\* What the kernel did not take goes to the buffer, and the handler is registered
\* unless something is being written already.
Buffered(k, bytes) ==
  IF bytes = <<>> THEN k
  ELSE LET b == [k EXCEPT !.out = BufferAppend(@, bytes), !.is_writing = TRUE]
       IN IF k.is_writing THEN b ELSE Register(b, "write")

\* Mutant of TryNow: the kernel is tried although older bytes are buffered.
AlwaysTry(k) == TRUE
TryNow(k) == ~ k.is_writing

\* tmq_tcp_conn_write of n bytes: the results it may have.
ConnWrite(k, n, reset) ==
  LET bytes == [i \in 1 .. n |-> k.written + i]
      all == [k EXCEPT !.written = @ + n]
      Took(w) == Buffered([all EXCEPT !.sock = @ \o SubSeq(bytes, 1, w)],
                          SubSeq(bytes, w + 1, n))
  IN IF k.state = "DISCONNECTED" THEN {k}
     ELSE IF TryNow(k)
     THEN {Took(w) : w \in 0 .. n} \cup (IF reset THEN {ConnClose(k)} ELSE {})
     ELSE {Buffered(all, bytes)}

\* tmq_send_any_packet: whether the context is still in a session is not modelled,
\* so the packet may also be dropped.  PacketLen is the shortest packet.
PacketLen == 2
SendAnyPacket(k, reset) ==
  {k} \cup (IF k.state = "CONNECTED" THEN ConnWrite(k, PacketLen, reset) ELSE {})

\* tmq_tcp_conn_shutdown.
Shutdown(k) ==
  IF k.state = "DISCONNECTED" THEN k
  ELSE IF k.is_writing THEN [k EXCEPT !.state = "DISCONNECTING"]
  ELSE [k EXCEPT !.shut = TRUE]

\* A read gives end of file or an error.
\* Mutant: end of file is not told from "no data yet".
OverOnReset(c) == peer[c] = "reset"
Over(c) == peer[c] = "reset" \/ (peer[c] = "closed" /\ ~ avail[c])

\* ssl_handshake: done, it wants to write, it wants to read, or it failed.
Handshake(k, over) ==
  IF over THEN {ConnClose(k)}
  ELSE {Unregister([k EXCEPT !.state = "CONNECTED"], "write"),
        IF Has(k, "write") THEN k ELSE Register(k, "write"),
        k, ConnClose(k)}

\* write_cb_, when the kernel takes w bytes of the buffer (tmq_buffer_write_fd).
Flush(k, w) ==
  LET out == BufferRemove(k.out, w)
      done == [Unregister(k, "write") EXCEPT !.is_writing = FALSE, !.out = out]
      part == [k EXCEPT !.out = out]
      sent == BufferPeek(k.out, w)
      next == IF out.readable_bytes > 0 THEN part
              ELSE IF k.state = "DISCONNECTING" THEN Shutdown(done) ELSE done
  IN [next EXCEPT !.sock = @ \o sent]

WriteCb(k, c) ==
  IF k.state = "SSL_HANDSHAKING" THEN Handshake(k, Over(c))
  ELSE IF ~ k.is_writing \/ k.state = "DISCONNECTED" THEN {k}
  ELSE IF peer[c] = "reset" THEN {ConnClose([k EXCEPT !.is_writing = FALSE])}
  ELSE {Flush(k, w) : w \in 1 .. k.out.readable_bytes}

\* What the decoder does with the bytes.  That of MQTT answers with a byte, starts
\* a session (its tmq_session_t holds the connection), finds the packet wrong, or
\* waits for more.  That of the console waits or starts an operation (add_user).
Decode(k) ==
  LET holding == IF k.held THEN {} ELSE {[k EXCEPT !.held = TRUE, !.ref_cnt = @ + 1]}
      more == k.written < MaxBytes
  IN IF k.kind = "console" THEN {k} \cup (IF more THEN holding ELSE {})
     ELSE {k, ConnClose(k)} \cup holding
            \cup (IF more THEN ConnWrite(k, 1, FALSE) ELSE {})

\* read_cb_: end of file and errors close.
ReadCb(k, c) ==
  CASE k.state = "SSL_HANDSHAKING" -> Handshake(k, Over(c))
    [] k.state = "CONNECTED" /\ Over(c) -> {ConnClose(k)}
    [] k.state = "CONNECTED" /\ ~ Over(c) -> Decode(k)
    [] OTHER -> {k}

\* close_cb_.
CloseCb(k, events) ==
  IF "ERR" \in events \/ ("HUP" \in events /\ "IN" \notin events) THEN {ConnClose(k)} ELSE {k}

-----------------------------------------------------------------------------
Init ==
  /\ conn = [c \in Conns |-> NoConn]
  /\ peer = [c \in Conns |-> "open"] /\ avail = [c \in Conns |-> FALSE]
  /\ mailbox = [b \in Boxes |-> <<>>]
  /\ owed = [b \in Boxes |-> 0] /\ pipe = [b \in Boxes |-> FALSE]
  /\ swapping = None /\ mails = <<>>
  /\ reported = {} /\ active = <<>> /\ in_round = FALSE
  /\ quota = [mails |-> MaxMails, ticks |-> MaxTicks]

(* The peer.                                                               *)

PeerSends(c) ==
  /\ conn[c].state \notin {"NONE", "FREED"} /\ peer[c] = "open" /\ ~ avail[c]
  /\ avail' = [avail EXCEPT ![c] = TRUE]
  /\ UNCHANGED <<conn, peer, mailbox, owed, pipe, swapping, mails, active, in_round,
                 quota, reported>>

PeerLeaves(c, how) ==
  /\ conn[c].state \notin {"NONE", "FREED"} /\ peer[c] = "open"
  /\ peer' = [peer EXCEPT ![c] = how]
  /\ UNCHANGED <<conn, avail, mailbox, owed, pipe, swapping, mails, active, in_round,
                 quota, reported>>

(* Other threads: tmq_mailbox_push.                                        *)

PushInto(b, c, kind) ==
  /\ mailbox' = [mailbox EXCEPT ![b] = Append(@, [box |-> b, conn |-> c, kind |-> kind])]
  /\ owed' = [owed EXCEPT ![b] = @ + 1]

\* dispatch_new_connection, on the thread of the acceptor.
Accept(c, kind) ==
  /\ conn[c].state = "NONE"
  /\ \A b \in Boxes : \A i \in DOMAIN mailbox[b] : mailbox[b][i].conn # c
  /\ \A i \in DOMAIN mails : mails[i].conn # c
  /\ PushInto("pending_tcp_connections", c, kind)
  /\ UNCHANGED <<conn, peer, avail, pipe, swapping, mails, active, in_round, quota,
                 reported>>

\* The logic thread sends a packet to the session's connection, which it shares.
PushPacket(c) ==
  /\ quota.mails > 0 /\ conn[c].held /\ conn[c].kind # "console"
  /\ quota' = [quota EXCEPT !.mails = @ - 1]
  /\ conn' = [conn EXCEPT ![c].ref_cnt = @ + 1]
  /\ PushInto("packet_sending_tasks", c, "mqtt")
  /\ UNCHANGED <<peer, avail, pipe, swapping, mails, active, in_round, reported>>

\* It closes the session, which releases the connection.
SessionReleases(c) ==
  /\ conn[c].held /\ conn[c].kind # "console"
  /\ conn' = [conn EXCEPT ![c] = Release([@ EXCEPT !.held = FALSE], 1)]
  /\ UNCHANGED <<peer, avail, mailbox, owed, pipe, swapping, mails, active, in_round,
                 quota, reported>>

\* tmq_notifier_notify.  Mutant: the write is left out unless the mailbox was
\* empty before.
NotifyIfFirst(b) ==
  /\ owed[b] > 0
  /\ owed' = [owed EXCEPT ![b] = @ - 1]
  /\ pipe' = [pipe EXCEPT ![b] = @ \/ Len(mailbox[b]) = 1]
  /\ UNCHANGED <<conn, peer, avail, mailbox, swapping, mails, active, in_round, quota,
                 reported>>
Notify(b) ==
  /\ owed[b] > 0
  /\ owed' = [owed EXCEPT ![b] = @ - 1]
  /\ pipe' = [pipe EXCEPT ![b] = TRUE]
  /\ UNCHANGED <<conn, peer, avail, mailbox, swapping, mails, active, in_round, quota,
                 reported>>

(* tmq_event_loop_run.                                                     *)

\* The events of a connection that epoll may report; room in the send buffer
\* (EPOLLOUT) is not modelled further.
ReadyEvents(c) ==
  LET gone == peer[c] # "open"
      reset == peer[c] = "reset"
  IN (IF avail[c] \/ gone THEN {"IN"} ELSE {}) \cup (IF gone THEN {"RDHUP"} ELSE {})
       \cup (IF reset \/ (gone /\ conn[c].shut) THEN {"HUP"} ELSE {})
       \cup (IF reset THEN {"ERR", "OUT"} ELSE {})

HandlerEvents == [read |-> {"IN", "RDHUP"}, error |-> {"ERR", "HUP"}, write |-> {"OUT"}]

\* The handlers of a channel that the events activate: the list without the others.
Activated(c, events) ==
  LET Keep(hs, h) == IF HandlerEvents[h] \cap events = {} THEN RemoveFirst(hs, h) ELSE hs
      hs == Keep(Keep(Keep(conn[c].handlers, "read"), "error"), "write")
  IN [i \in DOMAIN hs |-> [of |-> c, handler |-> hs[i], events |-> events]]

Idle == swapping = None /\ mails = <<>>

\* The descriptors with events; EPOLLOUT is reported when there is room.
Report(writable) ==
  {Activated(c, ReadyEvents(c) \cup (IF writable THEN {"OUT"} ELSE {})) : c \in Conns}
    \cup {<<[of |-> b, handler |-> "wakeup", events |-> {"IN"}]>>
            : b \in {b \in Boxes : pipe[b]}}
    \cup (IF quota.ticks > 0
          THEN {<<[of |-> "timer_fd", handler |-> "timeout", events |-> {"IN"}]>>} ELSE {})

\* epoll_wait returns, and the handlers of the channels become active_handlers.
EpollWait(writable) ==
  /\ ~ in_round
  /\ reported' = Report(writable) \ {<<>>}
  /\ reported' # {}
  /\ in_round' = TRUE
  /\ UNCHANGED <<conn, peer, avail, mailbox, owed, pipe, swapping, mails, active, quota>>

\* epoll lists the descriptors in an order of its own.
NextFd ==
  /\ in_round /\ Idle /\ active = <<>>
  /\ active' \in reported
  /\ reported' = reported \ {active'}
  /\ UNCHANGED <<conn, peer, avail, mailbox, owed, pipe, swapping, mails, in_round, quota>>

\* A handler is called unless it has been cancelled.
Called(e) == e.of \in Conns => Has(conn[e.of], e.handler)

SkipCanceled ==
  /\ in_round /\ Idle /\ active # <<>> /\ ~ Called(Head(active))
  /\ active' = Tail(active)
  /\ UNCHANGED <<conn, peer, avail, mailbox, owed, pipe, swapping, mails, in_round,
                 quota, reported>>

CallConnHandler ==
  /\ in_round /\ Idle /\ active # <<>> /\ Called(Head(active))
  /\ LET e == Head(active)
         c == e.of
     IN /\ c \in Conns
        /\ \E k \in CASE e.handler = "read"  -> ReadCb(conn[c], c)
                      [] e.handler = "write" -> WriteCb(conn[c], c)
                      [] e.handler = "error" -> CloseCb(conn[c], e.events) :
             conn' = [conn EXCEPT ![c] = k]
        /\ avail' = IF e.handler = "read" /\ conn[c].state # "DISCONNECTING"
                    THEN [avail EXCEPT ![c] = FALSE] ELSE avail
  /\ active' = Tail(active)
  /\ UNCHANGED <<peer, mailbox, owed, pipe, swapping, mails, in_round, quota, reported>>

\* The timer: mqtt_keepalive closes the connections whose sessions are silent.
\* (It reads the context of a console as one of MQTT: what lies at conn_state is
\* the parsing state, which is never IN_SESSION.)
CallTimer(silent) ==
  /\ in_round /\ Idle /\ active # <<>> /\ Head(active).of = "timer_fd"
  /\ silent \subseteq {c \in Conns : /\ conn[c].in_map /\ conn[c].held
                                  /\ conn[c].kind # "console"}
  /\ conn' = [c \in Conns |-> IF c \in silent THEN ConnClose(conn[c]) ELSE conn[c]]
  /\ quota' = [quota EXCEPT !.ticks = @ - 1]
  /\ active' = Tail(active)
  /\ UNCHANGED <<peer, avail, mailbox, owed, pipe, swapping, mails, in_round, reported>>

\* The timer of the client library finds the broker silent (ping) and shuts the
\* connection down.
CallShutdown(c) ==
  /\ in_round /\ Idle /\ quota.ticks > 0 /\ conn[c].in_map /\ conn[c].state = "CONNECTED"
  /\ conn[c].kind = "mqtt"
  /\ conn' = [conn EXCEPT ![c] = Shutdown(@)]
  /\ quota' = [quota EXCEPT !.ticks = @ - 1]
  /\ UNCHANGED <<peer, avail, mailbox, owed, pipe, swapping, mails, active, in_round,
                 reported>>

\* tmq_notifier_on_notify empties the pipe, mail_callback then swaps the mailbox.
CallNotifier ==
  /\ in_round /\ Idle /\ active # <<>> /\ Head(active).of \in Boxes
  /\ pipe' = [pipe EXCEPT ![Head(active).of] = FALSE]
  /\ swapping' = Head(active).of
  /\ active' = Tail(active)
  /\ UNCHANGED <<conn, peer, avail, mailbox, owed, mails, in_round, quota, reported>>

SwapMailbox ==
  /\ swapping # None
  /\ mails' = mailbox[swapping]
  /\ mailbox' = [mailbox EXCEPT ![swapping] = <<>>]
  /\ swapping' = None
  /\ UNCHANGED <<conn, peer, avail, owed, pipe, active, in_round, quota, reported>>

\* new_tcp_connection_handler, send_packet_handler.
HandleMail ==
  /\ mails # <<>> /\ swapping = None
  /\ LET m == Head(mails)
         c == m.conn
     IN \/ /\ m.box = "pending_tcp_connections"
           /\ conn' = [conn EXCEPT ![c] = NewConn(m.kind)]
        \/ /\ m.box = "packet_sending_tasks"
           /\ \E k \in SendAnyPacket(conn[c], peer[c] = "reset") :
                conn' = [conn EXCEPT ![c] = Release(k, 1)]
  /\ mails' = Tail(mails)
  /\ UNCHANGED <<peer, avail, mailbox, owed, pipe, swapping, active, in_round, quota,
                 reported>>

\* The receipt of an operation on a user (user_operation_done): a reply of one
\* byte, and the connection is released.
UserOperationDone(c) ==
  /\ in_round /\ Idle /\ conn[c].held /\ conn[c].kind = "console"
  /\ \E k \in ConnWrite([conn[c] EXCEPT !.held = FALSE], 1, peer[c] = "reset") :
       conn' = [conn EXCEPT ![c] = Release(k, 1)]
  /\ UNCHANGED <<peer, avail, mailbox, owed, pipe, swapping, mails, active, in_round,
                 quota, reported>>

\* The end of a round: what the removed handlers were tied to is released.
EndRound ==
  /\ in_round /\ Idle /\ active = <<>> /\ reported = {}
  /\ conn' = [c \in Conns |-> IF conn[c].removing = 0 THEN conn[c]
                              ELSE [Release(conn[c], conn[c].removing) EXCEPT !.removing = 0]]
  /\ in_round' = FALSE
  /\ UNCHANGED <<peer, avail, mailbox, owed, pipe, swapping, mails, active, quota,
                 reported>>

Loop ==
  \/ \E writable \in BOOLEAN : EpollWait(writable)
  \/ NextFd \/ SkipCanceled \/ CallConnHandler \/ CallNotifier
  \/ \E silent \in SUBSET Conns : CallTimer(silent)
  \/ SwapMailbox \/ HandleMail \/ EndRound

Next ==
  \/ \E c \in Conns : \/ PeerSends(c) \/ PushPacket(c) \/ SessionReleases(c)
                    \/ CallShutdown(c) \/ UserOperationDone(c)
  \/ \E c \in Conns, how \in {"closed", "reset"} : PeerLeaves(c, how)
  \/ \E c \in Conns, kind \in Kinds : Accept(c, kind)
  \/ \E b \in Boxes : Notify(b)
  \/ Loop

\* The IO thread goes on, a pusher reaches its notify, and the session of a closed
\* connection is closed (tcp_conn_close_callback has asked for it).
Fairness ==
  /\ WF_loopVars(Loop)
  /\ WF_loopVars(\E b \in Boxes : Notify(b))
  /\ WF_loopVars(\E c \in Conns : conn[c].state = "DISCONNECTED" /\ SessionReleases(c))

Spec == Init /\ [][Next]_loopVars /\ Fairness

-----------------------------------------------------------------------------
(* Properties.                                                             *)

Count(s, x) == Cardinality({i \in DOMAIN s : s[i] = x})

PacketMail(c) == [box |-> "packet_sending_tasks", conn |-> c, kind |-> "mqtt"]

\* The packets on their way to a connection.
MailsFor(c) ==
  Count(mails, PacketMail(c)) + Count(mailbox["packet_sending_tasks"], PacketMail(c))

\* The count of a connection is the number of its holders - registered handlers,
\* handlers removed in this round, tcp_conns, the session, mails on their way -
\* and when it is freed no handler of it is in the list the round still works off
\* (get_ref and release_ref, ev/mqtt_event.c:30-46, 105-109).
ConnsOutliveUse ==
  \A c \in Conns : LET k == conn[c] IN
    /\ k.ref_cnt = Len(k.handlers) + k.removing + (IF k.in_map THEN 1 ELSE 0)
                     + (IF k.held THEN 1 ELSE 0) + MailsFor(c)
    /\ k.state = "FREED" => \A hs \in reported \cup {active} :
                              \A i \in DOMAIN hs : hs[i].of # c

\* What the kernel got and what is buffered are the bytes written, in order and
\* without a gap, and a buffer that is not empty has its handler registered
\* (tmq_tcp_conn_write, write_cb_).
OutputExact ==
  \A c \in Conns : LET k == conn[c] IN
    /\ k.sock \o Contents(k.out) = [i \in 1 .. k.written |-> i]
    /\ k.state \in {"CONNECTED", "DISCONNECTING"} =>
         (k.out.readable_bytes > 0) = k.is_writing /\ k.is_writing = Has(k, "write")

\* A mail in a mailbox always has something on its way that makes the loop look:
\* also when it is pushed while the IO thread empties the pipe and swaps the
\* vector (tmq_mailbox_push, mail_callback).
NoStrandedMail ==
  \A b \in Boxes : mailbox[b] # <<>> => owed[b] > 0 \/ pipe[b] \/ swapping = b

\* A connection whose peer has gone is freed, with two exceptions.  One of a console
\* is closed and never freed (see ClosedConnsFreed).  One that was shut down while
\* output was pending stays DISCONNECTING, also when the output has been flushed and
\* SHUT_WR is done: read_cb_ ignores the peer's FIN in this state, and close_cb_
\* ignores a HUP that comes with IN.  Only a reset closes it.
GoneConnsFreed ==
  \A c \in Conns :
    peer[c] # "open" ~> \/ conn[c].state = "FREED"
                        \/ conn[c].state = "DISCONNECTED" /\ conn[c].kind = "console"
                        \/ conn[c].state = "DISCONNECTING" /\ peer[c] = "closed"

\* A closed connection that neither a session nor an operation holds is freed: what
\* tcp_conns holds is given back by the callback "called when closing a tcp
\* connection" (mqtt_io_context.c:18).
ClosedConnsFreed ==
  \A c \in Conns :
    (conn[c].state = "DISCONNECTED" /\ ~ conn[c].held) ~> (conn[c].state = "FREED")

=============================================================================
