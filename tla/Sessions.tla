------------------------------ MODULE Sessions ------------------------------
(***************************************************************************)
(* How sessions begin and end: the IO threads (mqtt/mqtt_io_context.c and  *)
(* the CONNECT, DISCONNECT and SUBSCRIBE paths of the codec) against the   *)
(* broker's logic thread (mqtt/mqtt_broker.c), with the reference counts   *)
(* of connections and sessions.                                            *)
(*                                                                         *)
(* The two sides exchange messages only: requests, the executor's queue of *)
(* priority 1 (FIFO, see TaskQueues), and the mailboxes of the IO          *)
(* contexts.  Every connection is on an IO context of its own, the least   *)
(* ordered case.  A client sends one CONNECT per connection and waits for  *)
(* the CONNACK before any other packet but DISCONNECT.  There is one topic *)
(* filter, which all publishes and wills match.                            *)
(***************************************************************************)
EXTENDS Integers, Sequences, FiniteSets

CONSTANTS Conns,        \* TCP connections, each accepted at most once
          Clients,      \* client ids
          None,         \* NULL
          Auth,         \* "anonymous", "file" (pwd_conf) or "mysql" (thread pool)
          Clean,        \* the clean-session flags each client may use
          Subscribers,  \* the clients that subscribe
          MaxPackets,   \* bound on the SUBSCRIBE and UNSUBSCRIBE packets per connection
          MaxPublishes  \* bound on the messages published

ASSUME SessionsAssumption ==
  /\ IsFiniteSet(Conns)
  /\ None \notin Conns \cup Clients
  /\ Auth \in {"anonymous", "file", "mysql"}
  /\ Clean \in [Clients -> SUBSET BOOLEAN]
  /\ Subscribers \subseteq Clients
  /\ MaxPackets \in Nat
  /\ MaxPublishes \in Nat

VARIABLES
  tcp,             \* conn->state
  conn_state,      \* conn_ctx->conn_state
  upstream,        \* conn_ctx->upstream.session
  client,          \* the client id of the CONNECT received on a connection
  left,            \* history: a DISCONNECT was received on the connection
  answered,        \* history: a CONNACK was sent on the connection
  num_packets,     \* number of SUBSCRIBEs and UNSUBSCRIBEs received
  ref_cnt,         \* conn->ref_cnt
  validating,      \* CONNECTs whose password the thread pool is validating
  requests,        \* the executor's queue of priority 1
  responses,       \* mqtt_connect_responses
  sending,         \* packet_sending_tasks, as their number per connection
  broadcast_tasks, \* per session
  sessions,        \* broker->sessions
  session,         \* the session objects; one is named after the connection it began on
  session_refs,    \* session->ref_cnt
  tree,            \* the subscribers of the topic filter
  num_published

connVars == <<tcp, conn_state, upstream, client, left, answered, num_packets>>
brokerVars == <<sessions, session, session_refs, tree>>
vars == <<connVars, ref_cnt, validating, requests, responses, sending, broadcast_tasks,
          brokerVars, num_published>>

NewSession == [state |-> "NONE", clean |-> FALSE, will |-> FALSE, conn |-> None,
               client |-> None, subscribed |-> FALSE]

ConnectReq(c, id, clean, will) ==
  [op |-> "CONNECT", conn |-> c, client |-> id, clean |-> clean, will |-> will]
CloseReq(op, s) == [op |-> op, session |-> s]
TopicReq(op, id) == [op |-> op, client |-> id]
Response(c, code, s) == [conn |-> c, code |-> code, session |-> s]

IsClose(req) == req.op \in {"DISCONNECT", "FORCE_CLOSE"}

\* get_ref and release_ref, n at a time.
Adjust(refs, o, n) == [refs EXCEPT ![o] = @ + n]
-----------------------------------------------------------------------------
Init ==
  /\ tcp = [c \in Conns |-> "NEW"]
  /\ conn_state = [c \in Conns |-> "NO_SESSION"]
  /\ upstream = [c \in Conns |-> None]
  /\ client = [c \in Conns |-> None]
  /\ left = [c \in Conns |-> FALSE]
  /\ answered = [c \in Conns |-> FALSE]
  /\ num_packets = [c \in Conns |-> 0]
  /\ ref_cnt = [c \in Conns |-> 0]
  /\ validating = {}
  /\ requests = <<>>
  /\ responses = {}
  /\ sending = [c \in Conns |-> 0]
  /\ broadcast_tasks = [s \in Conns |-> <<>>]
  /\ sessions = [id \in Clients |-> None]
  /\ session = [s \in Conns |-> NewSession]
  /\ session_refs = [s \in Conns |-> 0]
  /\ tree = [id \in Clients |-> None]
  /\ num_published = 0
-----------------------------------------------------------------------------
(* The IO threads. *)

\* new_tcp_connection_handler: held by its two event handlers and tcp_conns.
NewConnection(c) ==
  /\ tcp[c] = "NEW"
  /\ tcp' = [tcp EXCEPT ![c] = "CONNECTED"]
  /\ ref_cnt' = [ref_cnt EXCEPT ![c] = 3]
  /\ UNCHANGED <<conn_state, upstream, client, left, answered, num_packets, validating, requests,
                 responses, sending, broadcast_tasks, brokerVars, num_published>>

\* parse_connect_packet and mqtt_connect.
RecvConnect(c, id, clean, will) ==
  /\ tcp[c] = "CONNECTED"
  /\ conn_state[c] = "NO_SESSION"
  /\ client[c] = None
  /\ client' = [client EXCEPT ![c] = id]
  /\ conn_state' = [conn_state EXCEPT ![c] = "STARTING_SESSION"]
  /\ LET req == ConnectReq(c, id, clean, will) IN
       \/ /\ Auth = "mysql"
          /\ validating' = validating \cup {req}
          /\ ref_cnt' = Adjust(ref_cnt, c, 1)
          /\ UNCHANGED <<requests, answered>>
       \/ /\ Auth \in {"anonymous", "file"}
          /\ requests' = Append(requests, req)
          /\ ref_cnt' = Adjust(ref_cnt, c, 1)
          /\ UNCHANGED <<validating, answered>>
       \/ /\ Auth = "file"          \* NOT_AUTHORIZED
          /\ answered' = [answered EXCEPT ![c] = TRUE]
          /\ UNCHANGED <<validating, requests, ref_cnt>>
  /\ UNCHANGED <<tcp, upstream, left, num_packets, responses, sending, broadcast_tasks,
                 brokerVars, num_published>>

\* validate_password_in_thread_pool, in a thread of the pool.
ValidatePassword(req, valid) ==
  /\ req \in validating
  /\ validating' = validating \ {req}
  /\ IF valid
     THEN /\ requests' = Append(requests, req)
          /\ UNCHANGED responses
     ELSE /\ responses' = responses \cup {Response(req.conn, "NOT_AUTHORIZED", None)}
          /\ UNCHANGED requests
  /\ UNCHANGED <<connVars, ref_cnt, sending, broadcast_tasks, brokerVars, num_published>>

\* parse_disconnect_packet and mqtt_disconnect.
RecvDisconnect(c) ==
  /\ tcp[c] = "CONNECTED"
  /\ conn_state[c] # "NO_SESSION"
  /\ left' = [left EXCEPT ![c] = TRUE]
  /\ conn_state' = [conn_state EXCEPT ![c] = "NO_SESSION"]
  /\ requests' = IF conn_state[c] = "IN_SESSION"
                 THEN Append(requests, CloseReq("DISCONNECT", upstream[c])) ELSE requests
  /\ UNCHANGED <<tcp, upstream, client, answered, num_packets, ref_cnt, validating,
                 responses, sending, broadcast_tasks, brokerVars, num_published>>

\* tmq_session_handle_subscribe and _unsubscribe, mqtt_subscribe and
\* mqtt_unsubscribe: the session's own map is updated by the IO thread.
RecvTopicPacket(c, op) ==
  /\ tcp[c] = "CONNECTED"
  /\ conn_state[c] = "IN_SESSION"
  /\ client[c] \in Subscribers
  /\ num_packets[c] < MaxPackets
  /\ num_packets' = [num_packets EXCEPT ![c] = @ + 1]
  /\ session' = [session EXCEPT ![upstream[c]].subscribed = (op = "SUBSCRIBE")]
  /\ requests' = Append(requests, TopicReq(op, session[upstream[c]].client))
  /\ UNCHANGED <<tcp, conn_state, upstream, client, left, answered, ref_cnt, validating,
                 responses, sending, broadcast_tasks, sessions, session_refs, tree, num_published>>

\* Mutant: closing a connection in session does not tell the broker.
CloseSilently(c) == requests

\* tcp_conn_close_callback's request: a session the client did not leave.
RequestsAfterClose(c) ==
  IF conn_state[c] = "IN_SESSION"
  THEN Append(requests, CloseReq("FORCE_CLOSE", upstream[c])) ELSE requests

\* conn_close_ and tcp_conn_close_callback: the peer closed, an error, or
\* mqtt_keepalive.  The handlers' references go with the end of the dispatch.
Close(c) ==
  /\ tcp[c] = "CONNECTED"
  /\ tcp' = [tcp EXCEPT ![c] = "DISCONNECTED"]
  /\ requests' = RequestsAfterClose(c)
  /\ conn_state' = IF conn_state[c] = "IN_SESSION"
                   THEN [conn_state EXCEPT ![c] = "NO_SESSION"] ELSE conn_state
  /\ ref_cnt' = Adjust(ref_cnt, c, -3)
  /\ UNCHANGED <<upstream, client, left, answered, num_packets, validating,
                 responses, sending, broadcast_tasks, brokerVars, num_published>>

\* The test of connect_complete_handler.  Mutant: a lost connection is
\* not noticed.
LeftOnly(resp) == resp.code = "ACCEPTED" /\ conn_state[resp.conn] = "NO_SESSION"
GoneMeanwhile(resp) ==
  \/ resp.code = "ACCEPTED" /\ conn_state[resp.conn] = "NO_SESSION"
  \/ tcp[resp.conn] # "CONNECTED"

\* How a session is closed whose client is gone meanwhile.  Mutant: as if no
\* DISCONNECT had come.
ForceAlways(c) == "FORCE_CLOSE"
CloseOp(c) == IF conn_state[c] = "NO_SESSION" THEN "DISCONNECT" ELSE "FORCE_CLOSE"

\* connect_complete_handler.
ConnectComplete(resp) ==
  /\ resp \in responses
  /\ responses' = responses \ {resp}
  /\ LET c == resp.conn IN
       /\ IF GoneMeanwhile(resp)
          THEN /\ requests' = Append(requests, CloseReq(CloseOp(c), resp.session))
               /\ UNCHANGED <<conn_state, upstream, answered>>
          ELSE /\ answered' = [answered EXCEPT ![c] = TRUE]
               /\ IF resp.code = "ACCEPTED"
                  THEN /\ upstream' = [upstream EXCEPT ![c] = resp.session]
                       /\ conn_state' = [conn_state EXCEPT ![c] = "IN_SESSION"]
                  ELSE UNCHANGED <<upstream, conn_state>>
               /\ UNCHANGED requests
       /\ ref_cnt' = Adjust(ref_cnt, c, -1)
  /\ UNCHANGED <<tcp, client, left, num_packets, validating, sending, broadcast_tasks,
                 brokerVars, num_published>>

\* send_packet_handler.
SendPacket(c) ==
  /\ sending[c] > 0
  /\ sending' = Adjust(sending, c, -1)
  /\ ref_cnt' = Adjust(ref_cnt, c, -1)
  /\ UNCHANGED <<connVars, validating, requests, responses, broadcast_tasks, brokerVars, num_published>>

\* broadcast_handler, for one of its subscribers: the connection it releases is
\* the one the session has now.
HandleBroadcast(s) ==
  /\ broadcast_tasks[s] # <<>>
  /\ broadcast_tasks' = [broadcast_tasks EXCEPT ![s] = Tail(@)]
  /\ ref_cnt' = IF Head(broadcast_tasks[s]).is_session_closed THEN ref_cnt
                ELSE Adjust(ref_cnt, session[s].conn, -1)
  /\ session_refs' = Adjust(session_refs, s, -1)
  /\ UNCHANGED <<connVars, validating, requests, responses, sending, sessions, session, tree,
                 num_published>>
-----------------------------------------------------------------------------
(* mqtt_broadcast to the subscribers of the filter, in the logic thread. *)

Subscribed == {tree[id] : id \in Clients} \ {None}

\* References taken on connection c and on session s.  Mutant: none on c.
NoConnShares(c) == 0
ConnShares(c) ==
  Cardinality({s \in Subscribed : session[s].state = "OPEN" /\ session[s].conn = c})
SessionShares(s) == IF s \in Subscribed THEN 1 ELSE 0

\* The tasks; conn, the connection shared, is history.
TasksAfterBroadcast ==
  [s \in Conns |->
     IF s \in Subscribed
     THEN Append(broadcast_tasks[s],
            [is_session_closed |-> session[s].state = "CLOSED", conn |-> session[s].conn])
     ELSE broadcast_tasks[s]]

\* handle_publish_req, of priority 0.
Publish ==
  /\ num_published < MaxPublishes
  /\ num_published' = num_published + 1
  /\ broadcast_tasks' = TasksAfterBroadcast
  /\ ref_cnt' = [c \in Conns |-> ref_cnt[c] + ConnShares(c)]
  /\ session_refs' = [s \in Conns |-> session_refs[s] + SessionShares(s)]
  /\ UNCHANGED <<connVars, validating, requests, responses, sending, sessions, session, tree>>
-----------------------------------------------------------------------------
(* The logic thread: handle_session_req and handle_topic_req. *)

\* tmq_session_close releases the session's connection; its on_close,
\* session_close_callback, forgets the session if that is Discarded.  Mutants:
\* only a forced one is; the subscription stays.
DiscardedIfForced(s, force_clean) == force_clean
Discarded(s, force_clean) == session[s].clean \/ force_clean

TreeKept(s, force_clean) == tree
TreeAfterClose(s, force_clean) ==
  IF Discarded(s, force_clean) /\ session[s].subscribed
  THEN [tree EXCEPT ![session[s].client] = None] ELSE tree

SessionRefsAfterClose(refs, s, force_clean) ==
  IF Discarded(s, force_clean) THEN Adjust(refs, s, -1) ELSE refs

\* The will is published unless the client sent a DISCONNECT.
HandleClose(req) ==
  LET s == req.session
      will == req.op = "FORCE_CLOSE" /\ session[s].will
  IN /\ session' = [session EXCEPT ![s].state = "CLOSED"]
     /\ ref_cnt' = Adjust([c \in Conns |-> ref_cnt[c] + IF will THEN ConnShares(c) ELSE 0],
                          session[s].conn, -1)
     /\ session_refs' = SessionRefsAfterClose(
          [x \in Conns |-> session_refs[x] + IF will THEN SessionShares(x) ELSE 0], s, FALSE)
     /\ broadcast_tasks' = IF will THEN TasksAfterBroadcast ELSE broadcast_tasks
     /\ tree' = TreeAfterClose(s, FALSE)
     /\ sessions' = IF Discarded(s, FALSE)
                    THEN [sessions EXCEPT ![session[s].client] = None] ELSE sessions
     /\ UNCHANGED <<responses, sending>>

Respond(c, code, s) == responses' = responses \cup {Response(c, code, s)}

\* start_session: the client id has an open session.  Mutant: no answer.
RejectSilently(req) == UNCHANGED <<responses, session, ref_cnt, session_refs, tree, sessions>>
Reject(req) ==
  /\ Respond(req.conn, "IDENTIFIER_REJECTED", None)
  /\ UNCHANGED <<session, ref_cnt, session_refs, tree, sessions>>

\* tmq_session_new; the new session shares the connection, the map the session.
Opened(req) ==
  [NewSession EXCEPT !.state = "OPEN", !.clean = req.clean, !.will = req.will,
                     !.conn = req.conn, !.client = req.client]

StartNew(req) ==
  /\ session' = [session EXCEPT ![req.conn] = Opened(req)]
  /\ session_refs' = Adjust(session_refs, req.conn, 1)
  /\ ref_cnt' = Adjust(ref_cnt, req.conn, 1)
  /\ sessions' = [sessions EXCEPT ![req.client] = req.conn]
  /\ Respond(req.conn, "ACCEPTED", req.conn)
  /\ UNCHANGED tree

\* A clean session replaces the closed session s: tmq_session_close(s, 1) first.
TakeOver(req, s) ==
  /\ session' = [session EXCEPT ![s].state = "CLOSED", ![req.conn] = Opened(req)]
  /\ session_refs' = Adjust(SessionRefsAfterClose(session_refs, s, TRUE), req.conn, 1)
  /\ ref_cnt' = Adjust(Adjust(ref_cnt, session[s].conn, -1), req.conn, 1)
  /\ sessions' = [sessions EXCEPT ![req.client] = req.conn]
  /\ Respond(req.conn, "ACCEPTED", req.conn)
  /\ tree' = TreeAfterClose(s, TRUE)

\* tmq_session_resume of the closed session s.
Resume(req, s) ==
  /\ session' = [session EXCEPT ![s].state = "OPEN", ![s].conn = req.conn, ![s].will = req.will]
  /\ ref_cnt' = Adjust(ref_cnt, req.conn, 1)
  /\ Respond(req.conn, "ACCEPTED", s)
  /\ UNCHANGED <<session_refs, sessions, tree>>

InUse(s) == s # None /\ session[s].state = "OPEN"

StartSession(req) ==
  LET s == sessions[req.client] IN
  /\ \/ InUse(s) /\ Reject(req)
     \/ ~ InUse(s) /\ s # None /\ req.clean /\ TakeOver(req, s)
     \/ ~ InUse(s) /\ s # None /\ ~ req.clean /\ Resume(req, s)
     \/ s = None /\ StartNew(req)
  /\ UNCHANGED <<broadcast_tasks, sending>>

\* handle_topic_req: the session is looked up by its client id; the
\* SUBACK or UNSUBACK is queued for the session's connection.
HandleTopicReq(req) ==
  LET s == sessions[req.client] IN
  /\ IF InUse(s)
     THEN /\ tree' = [tree EXCEPT ![req.client] = IF req.op = "SUBSCRIBE" THEN s ELSE None]
          /\ sending' = Adjust(sending, session[s].conn, 1)
          /\ ref_cnt' = Adjust(ref_cnt, session[s].conn, 1)
     ELSE UNCHANGED <<tree, sending, ref_cnt>>
  /\ UNCHANGED <<session, session_refs, broadcast_tasks, sessions, responses>>

\* A close request without a session makes the logic thread dereference NULL:
\* it gets no further.
HandleRequest ==
  /\ requests # <<>>
  /\ requests' = Tail(requests)
  /\ LET req == Head(requests) IN
       \/ req.op = "CONNECT" /\ StartSession(req)
       \/ IsClose(req) /\ req.session # None /\ HandleClose(req)
       \/ req.op \in {"SUBSCRIBE", "UNSUBSCRIBE"} /\ HandleTopicReq(req)
  /\ UNCHANGED <<connVars, validating, num_published>>
-----------------------------------------------------------------------------
Environment ==
  \/ \E c \in Conns : NewConnection(c) \/ RecvDisconnect(c) \/ Close(c)
  \/ \E c \in Conns, id \in Clients, will \in BOOLEAN :
       \E clean \in Clean[id] : RecvConnect(c, id, clean, will)
  \/ \E c \in Conns, op \in {"SUBSCRIBE", "UNSUBSCRIBE"} : RecvTopicPacket(c, op)
  \/ Publish

Validate == \E req \in validating, valid \in BOOLEAN : ValidatePassword(req, valid)
Complete == \E resp \in responses : ConnectComplete(resp)
Sending  == \E c \in Conns : SendPacket(c) \/ HandleBroadcast(c)

Next == Environment \/ Validate \/ Complete \/ Sending \/ HandleRequest

Spec == Init /\ [][Next]_vars

\* The threads run; clients are free.
Fairness ==
  WF_vars(Validate) /\ WF_vars(Complete) /\ WF_vars(Sending) /\ WF_vars(HandleRequest)

FairSpec == Spec /\ Fairness
-----------------------------------------------------------------------------
Requests == {requests[i] : i \in DOMAIN requests}
Closes(s) == {i \in DOMAIN requests : IsClose(requests[i]) /\ requests[i].session = s}

Request ==
  [op : {"CONNECT"}, conn : Conns, client : Clients, clean : BOOLEAN, will : BOOLEAN]
    \cup [op : {"DISCONNECT", "FORCE_CLOSE"}, session : Conns \cup {None}]
    \cup [op : {"SUBSCRIBE", "UNSUBSCRIBE"}, client : Clients]

\* Type invariant.
TypeOK ==
  /\ tcp \in [Conns -> {"NEW", "CONNECTED", "DISCONNECTED"}]
  /\ conn_state \in [Conns -> {"NO_SESSION", "STARTING_SESSION", "IN_SESSION"}]
  /\ upstream \in [Conns -> Conns \cup {None}]
  /\ client \in [Conns -> Clients \cup {None}]
  /\ left \in [Conns -> BOOLEAN]
  /\ answered \in [Conns -> BOOLEAN]
  /\ num_packets \in [Conns -> 0 .. MaxPackets]
  /\ ref_cnt \in [Conns -> Int]
  /\ validating \subseteq Request
  /\ requests \in Seq(Request)
  /\ responses \subseteq [conn : Conns, session : Conns \cup {None},
                          code : {"ACCEPTED", "IDENTIFIER_REJECTED", "NOT_AUTHORIZED"}]
  /\ sending \in [Conns -> Nat]
  /\ broadcast_tasks \in [Conns -> Seq([is_session_closed : BOOLEAN, conn : Conns])]
  /\ sessions \in [Clients -> Conns \cup {None}]
  /\ session \in [Conns -> [state : {"NONE", "OPEN", "CLOSED"}, clean : BOOLEAN, will : BOOLEAN,
                            conn : Conns \cup {None}, client : Clients \cup {None},
                            subscribed : BOOLEAN]]
  /\ session_refs \in [Conns -> Nat]
  /\ tree \in [Clients -> Conns \cup {None}]
  /\ num_published \in 0 .. MaxPublishes

\* "if there is a closed session associated with this client id, it must not be
\* a clean-session": the assertion of start_session (mqtt_broker.c:125-129).
ClosedIsPersistent ==
  \A id \in Clients :
    LET s == sessions[id] IN
    s # None /\ session[s].state = "CLOSED" => ~ session[s].clean

\* An open session has exactly one way to end: it is on its way to a
\* connection, or a live connection is in it, or its closing has been
\* requested.  So none stays open for ever without a connection, blocking its
\* client id, none is closed twice, and no two connections share one
\* (mqtt_io_context.c:19-46, 118-161, mqtt_proto_codec.c:376-389).
OneEndDue ==
  \A s \in Conns :
    Cardinality({r \in responses : r.session = s})
      + Cardinality({c \in Conns : /\ tcp[c] = "CONNECTED"
                                   /\ conn_state[c] = "IN_SESSION"
                                   /\ upstream[c] = s})
      + Cardinality(Closes(s))
    = IF session[s].state = "OPEN" THEN 1 ELSE 0

\* "send the will-message if session closed without receiving a disconnect
\* packet", and only then, also when the DISCONNECT or the end of the
\* connection overtakes the session's start (mqtt_broker.c:216-220).
WillUnlessDisconnect ==
  \A req \in Requests : IsClose(req) /\ req.session # None =>
    (req.op = "DISCONNECT" <=> left[session[req.session].conn])

\* No pointer to a session outlives it: neither the broker's map, the topic
\* tree, a connection in session, a request nor a response
\* (mqtt_broker.c:76-88, mqtt_io_context.c:172-194).
NoDanglingSession ==
  LET used == {sessions[id] : id \in Clients} \cup {tree[id] : id \in Clients}
                \cup {upstream[c] : c \in {x \in Conns : conn_state[x] = "IN_SESSION"}}
                \cup {r.session : r \in responses}
                \cup {req.session : req \in {x \in Requests : IsClose(x)}}
                \cup {s \in Conns : broadcast_tasks[s] # <<>>}
  IN \A s \in used \ {None} : session_refs[s] > 0

\* A subscription in the tree belongs to the current session of its client.
SubscriptionsAreCurrent ==
  \A id \in Clients : tree[id] # None => tree[id] = sessions[id]

\* The references to connection c: its two event handlers and tcp_conns; a
\* CONNECT under way; its open session; packets and broadcasts to be sent.
Holders(c) ==
  (IF tcp[c] = "CONNECTED" THEN 3 ELSE 0)
    + Cardinality({req \in validating : req.conn = c})
    + Cardinality({i \in DOMAIN requests : requests[i].op = "CONNECT" /\ requests[i].conn = c})
    + Cardinality({r \in responses : r.conn = c})
    + Cardinality({s \in Conns : session[s].state = "OPEN" /\ session[s].conn = c})
    + sending[c]
    + Cardinality({t \in Conns \X (1 .. MaxPublishes + Cardinality(Conns)) :
                     /\ t[2] \in DOMAIN broadcast_tasks[t[1]]
                     /\ ~ broadcast_tasks[t[1]][t[2]].is_session_closed
                     /\ broadcast_tasks[t[1]][t[2]].conn = c})

\* ref_cnt counts the holders of a connection: it is freed, never too soon,
\* when the last one lets it go (mqtt_event.c:30-46).
RefsExact == \A c \in Conns : ref_cnt[c] = Holders(c)

\* "we need to close the session in the broker": a request to close names the
\* session to be closed (mqtt_io_context.c:124-139).
CloseNamesSession == \A req \in Requests : IsClose(req) => req.session # None

\* Every CONNECT is answered unless its connection ends first, or a close
\* without a session stops the logic thread (mqtt_broker.c:431-492, mqtt_io_context.c:118-161).
EveryConnectAnswered ==
  []CloseNamesSession =>
    \A c \in Conns : conn_state[c] = "STARTING_SESSION"
                       ~> answered[c] \/ left[c] \/ tcp[c] # "CONNECTED"

\* A session whose connection is gone is eventually closed, so that its client
\* can come back, with the same exception (mqtt_io_context.c:19-46, 124-143).
LostSessionsClose ==
  []CloseNamesSession =>
    \A s \in Conns :
      session[s].state = "OPEN" /\ (left[session[s].conn] \/ tcp[session[s].conn] = "DISCONNECTED")
        ~> session[s].state = "CLOSED"
=============================================================================
