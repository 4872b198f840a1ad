--------------------------- MODULE Sessions_proofs ---------------------------
(***************************************************************************)
(* Proofs about Sessions, for every number of connections and clients, for *)
(* each way to check passwords, and for any bound on packets and publishes.*)
(*                                                                         *)
(* What is proved: the type invariant; every open session has exactly one  *)
(* end due (OneEndDue); the will goes out unless a DISCONNECT came         *)
(* (WillUnlessDisconnect); no pointer outlives its session                 *)
(* (NoDanglingSession); the assertion of start_session                     *)
(* (ClosedIsPersistent); subscriptions belong to current sessions          *)
(* (SubscriptionsAreCurrent).                                              *)
(*                                                                         *)
(* All follow from one inductive invariant, IInv.  Its idea: everything    *)
(* that ends a session goes through the session's connection, a connection *)
(* sends one CONNECT and so has at most one answer on its way, and because *)
(* the executor's queue is FIFO, the SUBSCRIBEs of a session are handled   *)
(* before its close, so that the session's own map and the topic tree agree*)
(* when the close is handled.                                              *)
(***************************************************************************)
EXTENDS Sessions, TLAPS, SequenceTheorems, FiniteSetTheorems

(* The records of the state. *)

SessionRec ==
  [state : {"NONE", "OPEN", "CLOSED"}, clean : BOOLEAN, will : BOOLEAN, conn : Conns \cup {None},
   client : Clients \cup {None}, subscribed : BOOLEAN]

ResponseRec ==
  [conn : Conns, session : Conns \cup {None},
   code : {"ACCEPTED", "IDENTIFIER_REJECTED", "NOT_AUTHORIZED"}]

TaskRec == [is_session_closed : BOOLEAN, conn : Conns]
-----------------------------------------------------------------------------
(* The inductive invariant. *)

IsTopic(req) == req.op \in {"SUBSCRIBE", "UNSUBSCRIBE"}
IsConnect(req) == req.op = "CONNECT"

\* Request i closes session s.
Ends(i, s) == IsClose(requests[i]) /\ requests[i].session = s

\* Request i changes the subscription of client id.
TopicOf(i, id) == IsTopic(requests[i]) /\ requests[i].client = id

\* A CONNECT of c, or the answer to it, may be under way: c is not in session,
\* and conn_state tells whether a DISCONNECT has come.
Waiting(c) ==
  /\ client[c] # None
  /\ conn_state[c] # "IN_SESSION"
  /\ conn_state[c] = "NO_SESSION" <=> left[c]

\* c has no session yet: it began none, and none is on it.
Unused(c) ==
  /\ session[c].state = "NONE"
  /\ \A s \in Conns : session[s].state = "OPEN" => session[s].conn # c

\* A connection in session is alive, was not left, and its session is open
\* and its own.
ConnInv ==
  \A c \in Conns :
    /\ tcp[c] = "NEW" => client[c] = None
    /\ client[c] = None =>
         conn_state[c] = "NO_SESSION" /\ ~ left[c] /\ Unused(c)
    /\ conn_state[c] = "IN_SESSION" =>
         /\ tcp[c] = "CONNECTED" /\ ~ left[c]
         /\ upstream[c] \in Conns
         /\ session[upstream[c]].state = "OPEN" /\ session[upstream[c]].conn = c

\* A connection's CONNECT, or the answer to it, is in one place.
PendingInv ==
  /\ \A r \in validating : IsConnect(r) /\ Waiting(r.conn) /\ Unused(r.conn)
  /\ \A i \in DOMAIN requests :
       IsConnect(requests[i]) => Waiting(requests[i].conn) /\ Unused(requests[i].conn)
  /\ \A r \in responses : Waiting(r.conn)
  /\ \A q, r \in validating : q.conn = r.conn => q = r
  /\ \A i, j \in DOMAIN requests :
       IsConnect(requests[i]) /\ IsConnect(requests[j]) /\ requests[i].conn = requests[j].conn
         => i = j
  /\ \A q, r \in responses : q.conn = r.conn => q = r
  /\ \A q \in validating, r \in responses : q.conn # r.conn
  /\ \A i \in DOMAIN requests : IsConnect(requests[i]) =>
       /\ \A q \in validating : q.conn # requests[i].conn
       /\ \A r \in responses : r.conn # requests[i].conn

\* An open session is its client's in the map, and no two are on a connection.
SessionInv ==
  \A s \in Conns :
    /\ session[s].state # "NONE" => session[s].conn \in Conns /\ session[s].client \in Clients
    /\ session[s].state = "OPEN" => sessions[session[s].client] = s
    /\ \A t \in Conns :
         session[s].state = "OPEN" /\ session[t].state = "OPEN" /\ session[s].conn = session[t].conn
           => s = t

\* An accepting answer carries an open session to the session's connection.
ResponseInv ==
  \A r \in responses :
    /\ r.code = "ACCEPTED" <=> r.session # None
    /\ r.session # None => session[r.session].state = "OPEN" /\ session[r.session].conn = r.conn

\* A session to be closed is open, its connection is gone or has left, and
\* nothing else ends it.
CloseInv ==
  \A i \in DOMAIN requests, s \in Conns : Ends(i, s) =>
    /\ session[s].state = "OPEN"
    /\ tcp[session[s].conn] = "DISCONNECTED" \/ conn_state[session[s].conn] = "NO_SESSION"
    /\ requests[i].op = "DISCONNECT" <=> left[session[s].conn]
    /\ \A r \in responses : r.session # s
    /\ \A j \in DOMAIN requests : Ends(j, s) => j = i

\* An open session has an end due.
EndInv ==
  \A s \in Conns : session[s].state = "OPEN" =>
    \/ \E r \in responses : r.session = s
    \/ conn_state[session[s].conn] = "IN_SESSION" /\ upstream[session[s].conn] = s
    \/ \E i \in DOMAIN requests : Ends(i, s)

\* The map holds sessions that began, each under its client's id.
MapInv ==
  \A id \in Clients : sessions[id] # None =>
    LET s == sessions[id] IN
    /\ session[s].client = id /\ session[s].state # "NONE"
    /\ session[s].state = "CLOSED" => ~ session[s].clean

\* The SUBSCRIBEs and UNSUBSCRIBEs of a client come before the close of its
\* session; the last one says what the session's map says; and with none on
\* its way, the tree says so.
TopicsOpen(id) ==
  \A i \in DOMAIN requests : TopicOf(i, id) =>
    /\ sessions[id] # None /\ session[sessions[id]].state = "OPEN"
    /\ \A j \in 1 .. i - 1 : ~ Ends(j, sessions[id])

LastTopic(id) ==
  \A i \in DOMAIN requests :
    TopicOf(i, id) /\ (\A j \in i + 1 .. Len(requests) : ~ TopicOf(j, id)) =>
      (requests[i].op = "SUBSCRIBE" <=> session[sessions[id]].subscribed)

TreeAgrees(id) ==
  sessions[id] # None /\ (\A i \in DOMAIN requests : ~ TopicOf(i, id)) =>
    (tree[id] = sessions[id] <=> session[sessions[id]].subscribed)

TopicInv == \A id \in Clients : TopicsOpen(id) /\ LastTopic(id) /\ TreeAgrees(id)

\* A session is held by the map and by each broadcast to it.
InMap(s) == \E id \in Clients : sessions[id] = s
Held(s) == IF InMap(s) THEN 1 ELSE 0

RefInv ==
  \A s \in Conns :
    /\ session_refs[s] = Len(broadcast_tasks[s]) + Held(s)
    /\ broadcast_tasks[s] # <<>> => session[s].state # "NONE"

IInv ==
  /\ TypeOK
  /\ ConnInv /\ PendingInv /\ SessionInv /\ ResponseInv /\ CloseInv /\ EndInv
  /\ MapInv /\ TopicInv /\ SubscriptionsAreCurrent /\ RefInv

-----------------------------------------------------------------------------
(* Requests and the queue. *)

\* The fields of each kind of request.
LEMMA RequestFields ==
  ASSUME NEW req \in Request
  PROVE  /\ IsConnect(req) => /\ req.conn \in Conns /\ req.client \in Clients
                              /\ req.clean \in BOOLEAN /\ req.will \in BOOLEAN
         /\ IsClose(req) => req.session \in Conns \cup {None}
         /\ IsTopic(req) => req.client \in Clients
         /\ IsConnect(req) \/ IsClose(req) \/ IsTopic(req)
BY DEF Request, IsConnect, IsClose, IsTopic

\* The requests the IO threads make.
LEMMA MadeRequests ==
  /\ \A c \in Conns, id \in Clients, clean, will \in BOOLEAN :
       /\ ConnectReq(c, id, clean, will) \in Request
       /\ ConnectReq(c, id, clean, will).op = "CONNECT"
       /\ ConnectReq(c, id, clean, will).conn = c
       /\ ConnectReq(c, id, clean, will).client = id
  /\ \A op \in {"DISCONNECT", "FORCE_CLOSE"}, s \in Conns \cup {None} :
       /\ CloseReq(op, s) \in Request
       /\ CloseReq(op, s).op = op /\ CloseReq(op, s).session = s
  /\ \A op \in {"SUBSCRIBE", "UNSUBSCRIBE"}, id \in Clients :
       /\ TopicReq(op, id) \in Request
       /\ TopicReq(op, id).op = op /\ TopicReq(op, id).client = id
BY DEF ConnectReq, CloseReq, TopicReq, Request

\* A request put at the end of the queue.
LEMMA QueueAppend ==
  ASSUME NEW q \in Seq(Request), NEW r \in Request
  PROVE  /\ Append(q, r) \in Seq(Request)
         /\ Len(Append(q, r)) = Len(q) + 1
         /\ DOMAIN Append(q, r) = 1 .. Len(q) + 1
         /\ DOMAIN q = 1 .. Len(q)
         /\ \A i \in DOMAIN q : Append(q, r)[i] = q[i]
         /\ Append(q, r)[Len(q) + 1] = r
OBVIOUS

\* A request taken off the front of the queue.
LEMMA QueueTail ==
  ASSUME NEW q \in Seq(Request), q # <<>>
  PROVE  /\ Tail(q) \in Seq(Request) /\ Head(q) \in Request /\ Head(q) = q[1]
         /\ Len(q) \in Nat /\ Len(q) > 0
         /\ Len(Tail(q)) = Len(q) - 1
         /\ DOMAIN Tail(q) = 1 .. Len(q) - 1
         /\ DOMAIN q = 1 .. Len(q)
         /\ \A i \in DOMAIN Tail(q) : Tail(q)[i] = q[i + 1]
OBVIOUS

\* The inductive invariant holds when the broker starts.
LEMMA InitInv == Init => IInv
<1> SUFFICES ASSUME Init PROVE IInv
  OBVIOUS
<1>1. TypeOK
  BY SessionsAssumption DEF Init, TypeOK, NewSession
<1>2. ConnInv /\ PendingInv /\ ResponseInv /\ CloseInv
  BY DEF Init, ConnInv, PendingInv, ResponseInv, CloseInv, Unused, NewSession
<1>3. SessionInv /\ EndInv /\ MapInv /\ TopicInv /\ SubscriptionsAreCurrent
  BY DEF Init, SessionInv, EndInv, MapInv, TopicInv, TopicsOpen, LastTopic, TreeAgrees, SubscriptionsAreCurrent, NewSession
<1>4. RefInv
  BY SessionsAssumption DEF Init, RefInv, Held, InMap
<1> QED BY <1>1, <1>2, <1>3, <1>4 DEF IInv

\* Each part of the invariant depends on a few variables only.
LEMMA Frame ==
  /\ ConnInv /\ UNCHANGED <<tcp, client, conn_state, left, upstream, session>> => ConnInv'
  /\ PendingInv /\ UNCHANGED <<validating, requests, responses, client, conn_state, left, session>>
       => PendingInv'
  /\ SessionInv /\ UNCHANGED <<session, sessions>> => SessionInv'
  /\ ResponseInv /\ UNCHANGED <<responses, session>> => ResponseInv'
  /\ CloseInv /\ UNCHANGED <<requests, session, tcp, conn_state, left, responses>> => CloseInv'
  /\ EndInv /\ UNCHANGED <<session, conn_state, upstream, requests, responses>> => EndInv'
  /\ MapInv /\ UNCHANGED <<sessions, session>> => MapInv'
  /\ TopicInv /\ UNCHANGED <<requests, sessions, session, tree>> => TopicInv'
  /\ SubscriptionsAreCurrent /\ UNCHANGED <<tree, sessions>> => SubscriptionsAreCurrent'
  /\ RefInv /\ UNCHANGED <<session_refs, broadcast_tasks, sessions, session>> => RefInv'
<1>1. ConnInv /\ UNCHANGED <<tcp, client, conn_state, left, upstream, session>> => ConnInv'
  BY DEF ConnInv, Unused
<1>2. PendingInv /\ UNCHANGED <<validating, requests, responses, client, conn_state, left, session>>
       => PendingInv'
  BY DEF PendingInv, Waiting, Unused, IsConnect
<1>3. SessionInv /\ UNCHANGED <<session, sessions>> => SessionInv'
  BY DEF SessionInv
<1>4. ResponseInv /\ UNCHANGED <<responses, session>> => ResponseInv'
  BY DEF ResponseInv
<1>5. CloseInv /\ UNCHANGED <<requests, session, tcp, conn_state, left, responses>> => CloseInv'
  BY DEF CloseInv, Ends, IsClose
<1>6. EndInv /\ UNCHANGED <<session, conn_state, upstream, requests, responses>> => EndInv'
  BY DEF EndInv, Ends, IsClose
<1>7. MapInv /\ UNCHANGED <<sessions, session>> => MapInv'
  BY DEF MapInv
<1>8. TopicInv /\ UNCHANGED <<requests, sessions, session, tree>> => TopicInv'
  BY DEF TopicInv, TopicsOpen, LastTopic, TreeAgrees, TopicOf, Ends, IsTopic, IsClose
<1>9. SubscriptionsAreCurrent /\ UNCHANGED <<tree, sessions>> => SubscriptionsAreCurrent'
  BY DEF SubscriptionsAreCurrent
<1>10. RefInv /\ UNCHANGED <<session_refs, broadcast_tasks, sessions, session>> => RefInv'
  BY DEF RefInv, Held, InMap
<1> QED BY <1>1, <1>2, <1>3, <1>4, <1>5, <1>6, <1>7, <1>8, <1>9, <1>10

\* What the queue, the answers and the thread pool hold, from the type invariant.
LEMMA Fields ==
  ASSUME TypeOK
  PROVE  /\ Len(requests) \in Nat /\ DOMAIN requests = 1 .. Len(requests)
         /\ \A i \in DOMAIN requests :
              /\ requests[i] \in Request
              /\ IsConnect(requests[i]) => requests[i].conn \in Conns /\ requests[i].client \in Clients
              /\ IsClose(requests[i]) => requests[i].session \in Conns \cup {None}
              /\ IsTopic(requests[i]) => requests[i].client \in Clients
         /\ \A r \in responses : r.conn \in Conns /\ r.session \in Conns \cup {None}
         /\ \A r \in validating : r \in Request /\ (IsConnect(r) => r.conn \in Conns)
<1>1. requests \in Seq(Request) /\ validating \subseteq Request
  BY DEF TypeOK
<1>2. /\ Len(requests) \in Nat /\ DOMAIN requests = 1 .. Len(requests)
      /\ \A i \in DOMAIN requests : requests[i] \in Request
  BY <1>1
<1>3. \A r \in responses : r.conn \in Conns /\ r.session \in Conns \cup {None}
  BY DEF TypeOK
<1> QED BY <1>1, <1>2, <1>3, RequestFields

\* A CONNECT or a close at the end of the queue comes after every SUBSCRIBE there.
LEMMA TopicsAppended ==
  ASSUME TypeOK, TopicInv, NEW r \in Request, ~ IsTopic(r), requests' = Append(requests, r),
         UNCHANGED <<sessions, session, tree>>
  PROVE  TopicInv'
<1> SUFFICES ASSUME NEW id \in Clients PROVE TopicsOpen(id)' /\ LastTopic(id)' /\ TreeAgrees(id)'
  BY DEF TopicInv
<1>1. TopicsOpen(id) /\ LastTopic(id) /\ TreeAgrees(id)
  BY DEF TopicInv
<1>2. PICK n \in Nat : n = Len(requests) + 1
  BY Fields
<1>3. /\ DOMAIN requests' = 1 .. n /\ Len(requests') = n /\ DOMAIN requests = 1 .. n - 1
      /\ \A i \in DOMAIN requests : requests'[i] = requests[i]
      /\ requests'[n] = r /\ requests \in Seq(Request)
  BY <1>2, QueueAppend, Fields DEF TypeOK
<1>4. /\ \A i \in DOMAIN requests : TopicOf(i, id)' <=> TopicOf(i, id)
      /\ \A i \in DOMAIN requests : \A s : Ends(i, s)' <=> Ends(i, s)
      /\ ~ TopicOf(n, id)'
  BY <1>3 DEF TopicOf, Ends, IsTopic, IsClose
<1>5. TopicsOpen(id)'
  BY <1>1, <1>2, <1>3, <1>4 DEF TopicsOpen
<1>6. LastTopic(id)'
  BY <1>1, <1>2, <1>3, <1>4 DEF LastTopic
<1>7. TreeAgrees(id)'
  BY <1>1, <1>2, <1>3, <1>4 DEF TreeAgrees
<1> QED BY <1>5, <1>6, <1>7

\* A SUBSCRIBE or a close at the end of the queue leaves the CONNECTs alone.
LEMMA PendingAppended ==
  ASSUME TypeOK, PendingInv, NEW r \in Request, ~ IsConnect(r), requests' = Append(requests, r),
         validating' = validating, responses' \subseteq responses,
         \A x \in Conns : (Waiting(x) => Waiting(x)') /\ (Unused(x) => Unused(x)')
  PROVE  PendingInv'
<1>1. PICK n \in Nat : n = Len(requests) + 1
  BY Fields
<1>2. /\ DOMAIN requests' = 1 .. n /\ DOMAIN requests = 1 .. n - 1
      /\ \A i \in DOMAIN requests : requests'[i] = requests[i]
      /\ requests'[n] = r
  <2>1. requests \in Seq(Request)
    BY DEF TypeOK
  <2> QED BY <1>1, <2>1, QueueAppend
<1>3. \A i \in DOMAIN requests' : IsConnect(requests'[i]) =>
        i \in DOMAIN requests /\ requests'[i] = requests[i] /\ IsConnect(requests[i])
          /\ requests[i].conn \in Conns
  BY <1>1, <1>2, Fields
<1>4. (\A i \in DOMAIN requests :
         IsConnect(requests[i]) => Waiting(requests[i].conn) /\ Unused(requests[i].conn))'
  BY <1>3 DEF PendingInv, IsConnect
<1>5. (/\ \A q \in validating : IsConnect(q) /\ Waiting(q.conn) /\ Unused(q.conn)
       /\ \A q \in responses : Waiting(q.conn))'
  BY Fields DEF PendingInv, IsConnect
<1>6. (/\ \A i, j \in DOMAIN requests :
            IsConnect(requests[i]) /\ IsConnect(requests[j]) /\ requests[i].conn = requests[j].conn
              => i = j
       /\ \A i \in DOMAIN requests : IsConnect(requests[i]) =>
            /\ \A q \in validating : q.conn # requests[i].conn
            /\ \A q \in responses : q.conn # requests[i].conn)'
  BY <1>3 DEF PendingInv, IsConnect
<1> QED BY <1>4, <1>5, <1>6 DEF PendingInv

-----------------------------------------------------------------------------
(* The steps of the IO threads and of the thread pool. *)

\* A new connection.
LEMMA NewConnectionInv ==
  ASSUME IInv, NEW c \in Conns, NewConnection(c)
  PROVE  IInv'
<1>1. UNCHANGED <<client, conn_state, left, upstream, session, validating, requests, responses,
                  sessions, tree, session_refs, broadcast_tasks>>
  BY DEF NewConnection, brokerVars
<1>2. /\ tcp[c] = "NEW" /\ tcp' \in [Conns -> {"NEW", "CONNECTED", "DISCONNECTED"}]
      /\ tcp'[c] = "CONNECTED"
      /\ \A x \in Conns \ {c} : tcp'[x] = tcp[x]
  <2>1. tcp \in [Conns -> {"NEW", "CONNECTED", "DISCONNECTED"}]
    BY DEF IInv, TypeOK
  <2>2. tcp[c] = "NEW" /\ tcp' = [tcp EXCEPT ![c] = "CONNECTED"]
    BY DEF NewConnection
  <2> QED BY <2>1, <2>2
<1>3. TypeOK'
  <2>1. ref_cnt' \in [Conns -> Int]
    BY DEF IInv, TypeOK, NewConnection
  <2>2. UNCHANGED <<answered, num_packets, sending, num_published>>
    BY DEF NewConnection
  <2> QED BY <1>1, <1>2, <2>1, <2>2 DEF IInv, TypeOK
<1>4. ConnInv'
  BY <1>1, <1>2 DEF IInv, ConnInv, Unused
<1>5. CloseInv'
  <2>1. CloseInv /\ SessionInv
    BY DEF IInv
  <2> QED BY <1>1, <1>2, <2>1, Fields DEF IInv, CloseInv, SessionInv, Ends, IsClose
<1> QED BY <1>1, <1>3, <1>4, <1>5, Frame DEF IInv

\* A CONNECT: it goes to the thread pool or the logic thread, or is refused.
LEMMA RecvConnectInv ==
  ASSUME IInv, NEW c \in Conns, NEW id \in Clients, NEW clean \in BOOLEAN, NEW will \in BOOLEAN,
         RecvConnect(c, id, clean, will)
  PROVE  IInv'
<1> DEFINE req == ConnectReq(c, id, clean, will)
<1>1. UNCHANGED <<tcp, left, upstream, session, responses, sessions, tree, session_refs,
                  broadcast_tasks, num_packets, sending, num_published>>
  BY DEF RecvConnect, brokerVars
<1>2. /\ client[c] = None /\ conn_state[c] = "NO_SESSION" /\ tcp[c] = "CONNECTED"
      /\ client' \in [Conns -> Clients \cup {None}]
      /\ conn_state' \in [Conns -> {"NO_SESSION", "STARTING_SESSION", "IN_SESSION"}]
      /\ client'[c] = id /\ conn_state'[c] = "STARTING_SESSION"
      /\ \A x \in Conns \ {c} : client'[x] = client[x] /\ conn_state'[x] = conn_state[x]
  BY DEF RecvConnect, IInv, TypeOK
<1>3. /\ req \in Request /\ req.op = "CONNECT" /\ req.conn = c
  BY MadeRequests
<1>4. \/ validating' = validating \cup {req} /\ requests' = requests
      \/ validating' = validating /\ requests' = Append(requests, req)
      \/ validating' = validating /\ requests' = requests
  BY DEF RecvConnect
<1>5. requests \in Seq(Request) /\ validating \subseteq Request
  BY DEF IInv, TypeOK
<1>6. id # None
  BY SessionsAssumption
<1> HIDE DEF req
<1>7. TypeOK'
  <2>1. requests' \in Seq(Request) /\ validating' \subseteq Request
    BY <1>3, <1>4, <1>5
  <2>2. /\ ref_cnt' = ref_cnt \/ ref_cnt' = [ref_cnt EXCEPT ![c] = @ + 1]
        /\ answered' = answered \/ answered' = [answered EXCEPT ![c] = TRUE]
    BY DEF RecvConnect, Adjust
  <2>3. ref_cnt' \in [Conns -> Int]
    BY <2>2 DEF IInv, TypeOK
  <2>4. answered' \in [Conns -> BOOLEAN]
    BY <2>2 DEF IInv, TypeOK
  <2> QED BY <1>1, <1>2, <2>1, <2>3, <2>4 DEF IInv, TypeOK
<1>8. ConnInv'
  BY <1>1, <1>2, <1>6 DEF IInv, ConnInv, Unused
<1>9. Waiting(c)' /\ Unused(c)'
  BY <1>1, <1>2, <1>6 DEF IInv, ConnInv, Waiting, Unused
<1>10. \A x \in Conns : Waiting(x) => x # c
  BY <1>2 DEF Waiting
<1>11. \A x \in Conns \ {c} : (Waiting(x) => Waiting(x)') /\ (Unused(x) => Unused(x)')
  BY <1>1, <1>2 DEF Waiting, Unused
<1>12. PendingInv'
  <2>1. PendingInv /\ TypeOK
    BY DEF IInv
  <2>2. CASE validating' = validating \cup {req} /\ requests' = requests
    BY <1>1, <1>3, <1>9, <1>10, <1>11, <2>1, <2>2, Fields DEF PendingInv, IsConnect
  <2>3. CASE validating' = validating /\ requests' = Append(requests, req)
    BY <1>1, <1>3, <1>5, <1>9, <1>10, <1>11, <2>1, <2>3, Fields, QueueAppend DEF PendingInv, IsConnect
  <2>4. CASE validating' = validating /\ requests' = requests
    BY <1>1, <1>3, <1>9, <1>10, <1>11, <2>1, <2>4, Fields DEF PendingInv, IsConnect
  <2> QED BY <1>4, <2>2, <2>3, <2>4
<1>13. CloseInv'
  <2>1. CloseInv /\ TypeOK /\ SessionInv /\ ConnInv
    BY DEF IInv
  <2>2. CASE requests' = requests
    BY <1>1, <1>2, <2>1, <2>2, Fields DEF CloseInv, SessionInv, ConnInv, Unused, Ends, IsClose
  <2>3. CASE requests' = Append(requests, req)
    BY <1>1, <1>2, <1>3, <1>5, <2>1, <2>3, Fields, QueueAppend
       DEF CloseInv, SessionInv, ConnInv, Unused, Ends, IsClose
  <2> QED BY <1>4, <2>2, <2>3
<1>14. EndInv'
  <2>1. EndInv /\ TypeOK /\ SessionInv
    BY DEF IInv
  <2>2. CASE requests' = requests
    BY <1>1, <1>2, <2>1, <2>2, Fields DEF EndInv, SessionInv, Ends, IsClose
  <2>3. CASE requests' = Append(requests, req)
    BY <1>1, <1>2, <1>3, <1>5, <2>1, <2>3, Fields, QueueAppend
       DEF EndInv, SessionInv, Ends, IsClose
  <2> QED BY <1>4, <2>2, <2>3
<1>15. TopicInv'
  <2>1. TopicInv /\ TypeOK
    BY DEF IInv
  <2>2. CASE requests' = requests
    BY <1>1, <2>1, <2>2, Frame
  <2>3. CASE requests' = Append(requests, req)
    BY <1>1, <1>3, <1>5, <2>1, <2>3, TopicsAppended DEF IsTopic
  <2> QED BY <1>4, <2>2, <2>3
<1> QED BY <1>1, <1>7, <1>8, <1>12, <1>13, <1>14, <1>15, Frame DEF IInv

\* The thread pool passes the CONNECT on or answers it.
LEMMA ValidatePasswordInv ==
  ASSUME IInv, NEW req \in validating, NEW valid \in BOOLEAN, ValidatePassword(req, valid)
  PROVE  IInv'
<1> DEFINE resp == Response(req.conn, "NOT_AUTHORIZED", None)
<1>1. UNCHANGED <<tcp, conn_state, client, left, upstream, answered, num_packets, ref_cnt, session,
                  sending, sessions, tree, session_refs, broadcast_tasks, num_published>>
  BY DEF ValidatePassword, brokerVars, connVars
<1>2. validating' = validating \ {req}
  BY DEF ValidatePassword
<1>3. \/ requests' = Append(requests, req) /\ responses' = responses
      \/ requests' = requests /\ responses' = responses \cup {resp}
  BY DEF ValidatePassword
<1>4. requests \in Seq(Request) /\ req \in Request /\ req.op = "CONNECT" /\ req.conn \in Conns
  BY Fields DEF IInv, TypeOK, PendingInv, IsConnect
<1>5. resp.conn = req.conn /\ resp.session = None /\ resp.code = "NOT_AUTHORIZED"
  BY DEF Response
<1>6. TypeOK'
  <2>1. requests' = Append(requests, req) \/ requests' = requests
    BY <1>3
  <2>2. requests' \in Seq(Request)
    BY <1>4, <2>1, QueueAppend
  <2>3. validating' \subseteq Request
    BY <1>2 DEF IInv, TypeOK
  <2>4. responses' \subseteq [conn : Conns, session : Conns \cup {None},
                          code : {"ACCEPTED", "IDENTIFIER_REJECTED", "NOT_AUTHORIZED"}]
    BY <1>3, <1>4 DEF IInv, TypeOK, Response
  <2> QED BY <1>1, <2>2, <2>4, <2>3 DEF IInv, TypeOK
<1> HIDE DEF resp
<1>7. PendingInv'
  <2>1. PendingInv /\ TypeOK
    BY DEF IInv
  <2>2. \A x \in Conns : (Waiting(x) => Waiting(x)') /\ (Unused(x) => Unused(x)')
    BY <1>1 DEF Waiting, Unused
  <2>3. CASE requests' = Append(requests, req) /\ responses' = responses
    BY <1>2, <1>4, <2>1, <2>2, <2>3, Fields, QueueAppend DEF PendingInv, IsConnect
  <2>4. CASE requests' = requests /\ responses' = responses \cup {resp}
    BY <1>2, <1>4, <1>5, <2>1, <2>2, <2>4, Fields DEF PendingInv, IsConnect
  <2> QED BY <1>3, <2>3, <2>4
<1>8. ResponseInv'
  BY <1>1, <1>3, <1>5 DEF IInv, ResponseInv
<1>9. CloseInv' /\ EndInv' /\ TopicInv'
  <2>1. CloseInv /\ EndInv /\ TopicInv /\ TypeOK
    BY DEF IInv
  <2>2. CASE requests' = Append(requests, req) /\ responses' = responses
    <3>1. CloseInv'
      BY <1>1, <1>4, <2>1, <2>2, Fields, QueueAppend DEF CloseInv, Ends, IsClose
    <3>2. EndInv'
      BY <1>1, <1>4, <2>1, <2>2, Fields, QueueAppend DEF EndInv, Ends, IsClose
    <3>3. TopicInv'
      BY <1>1, <1>4, <2>1, <2>2, TopicsAppended DEF IsTopic
    <3> QED BY <3>1, <3>2, <3>3
  <2>3. CASE requests' = requests /\ responses' = responses \cup {resp}
    <3>1. CloseInv'
      BY <1>1, <1>5, <2>1, <2>3, Fields, SessionsAssumption DEF CloseInv, Ends, IsClose
    <3>2. EndInv'
      BY <1>1, <2>1, <2>3, Fields DEF EndInv, Ends, IsClose
    <3>3. TopicInv'
      BY <1>1, <2>1, <2>3, Frame
    <3> QED BY <3>1, <3>2, <3>3
  <2> QED BY <1>3, <2>2, <2>3
<1> QED BY <1>1, <1>6, <1>7, <1>8, <1>9, Frame DEF IInv

\* A DISCONNECT asks for the close of the session, if there is one yet.
LEMMA RecvDisconnectInv ==
  ASSUME IInv, NEW c \in Conns, RecvDisconnect(c)
  PROVE  IInv'
<1> DEFINE req == CloseReq("DISCONNECT", upstream[c])
<1>1. UNCHANGED <<tcp, client, upstream, answered, num_packets, ref_cnt, validating, responses,
                  session, sending, sessions, tree, session_refs, broadcast_tasks, num_published>>
  BY DEF RecvDisconnect, brokerVars
<1>2. /\ tcp[c] = "CONNECTED" /\ conn_state[c] # "NO_SESSION"
      /\ left' = [left EXCEPT ![c] = TRUE]
      /\ conn_state' = [conn_state EXCEPT ![c] = "NO_SESSION"]
  BY DEF RecvDisconnect
<1>3. IF conn_state[c] = "IN_SESSION" THEN requests' = Append(requests, req)
                                      ELSE requests' = requests
  BY DEF RecvDisconnect
<1>4. requests \in Seq(Request) /\ upstream[c] \in Conns \cup {None}
  BY DEF IInv, TypeOK
<1>5. req \in Request /\ req.op = "DISCONNECT" /\ req.session = upstream[c]
  BY <1>4, MadeRequests
<1> HIDE DEF req
<1>6. /\ left' \in [Conns -> BOOLEAN]
      /\ left'[c] /\ \A x \in Conns \ {c} : left'[x] = left[x]
  BY <1>2 DEF IInv, TypeOK
<1>7. /\ conn_state' \in [Conns -> {"NO_SESSION", "STARTING_SESSION", "IN_SESSION"}]
      /\ conn_state'[c] = "NO_SESSION" /\ \A x \in Conns \ {c} : conn_state'[x] = conn_state[x]
  BY <1>2 DEF IInv, TypeOK
<1>8. TypeOK'
  <2>1. requests' \in Seq(Request)
    BY <1>3, <1>4, <1>5
  <2> QED BY <1>1, <1>6, <1>7, <2>1 DEF IInv, TypeOK
<1>9. ConnInv'
  BY <1>1, <1>2, <1>6, <1>7 DEF IInv, ConnInv, Unused
<1>10. \A x \in Conns : (Waiting(x) => Waiting(x)') /\ (Unused(x) => Unused(x)')
  BY <1>1, <1>2, <1>6, <1>7 DEF Waiting, Unused
<1>11. PendingInv'
  <2>1. PendingInv /\ TypeOK
    BY DEF IInv
  <2>2. CASE requests' = requests
    BY <1>1, <1>10, <2>1, <2>2, Fields DEF PendingInv, IsConnect
  <2>3. CASE requests' = Append(requests, req)
    BY <1>1, <1>5, <1>10, <2>1, <2>3, PendingAppended DEF IsConnect
  <2> QED BY <1>3, <2>2, <2>3
<1>12. CASE conn_state[c] = "IN_SESSION"
  <2>1. CloseInv /\ EndInv /\ TopicInv /\ TypeOK /\ ConnInv /\ SessionInv /\ PendingInv /\ ResponseInv
    BY DEF IInv
  <2>2. requests' = Append(requests, req)
    BY <1>3, <1>12
  <2>3. /\ upstream[c] \in Conns /\ session[upstream[c]].state = "OPEN"
        /\ session[upstream[c]].conn = c
    BY <1>12, <2>1 DEF ConnInv
  <2>4. \A i \in DOMAIN requests : ~ Ends(i, upstream[c])
    BY <1>12, <2>1, <2>3, Fields, SessionsAssumption DEF CloseInv, Ends, ConnInv
  <2>5. \A r \in responses : r.session # upstream[c]
    BY <1>12, <2>1, <2>3, SessionsAssumption DEF ResponseInv, PendingInv, Waiting
  <2>6. CloseInv'
    BY <1>1, <1>2, <1>4, <1>5, <1>6, <1>7, <2>1, <2>2, <2>3, <2>4, <2>5, Fields, QueueAppend
       DEF CloseInv, SessionInv, Ends, IsClose
  <2>7. EndInv'
    BY <1>1, <1>4, <1>5, <1>7, <2>1, <2>2, <2>3, Fields, QueueAppend
       DEF EndInv, SessionInv, Ends, IsClose
  <2>8. TopicInv'
    BY <1>1, <1>4, <1>5, <2>1, <2>2, TopicsAppended DEF IsTopic
  <2> QED BY <1>1, <1>8, <1>9, <1>11, <2>6, <2>7, <2>8, Frame DEF IInv
<1>13. CASE conn_state[c] # "IN_SESSION"
  <2>1. CloseInv /\ EndInv /\ TypeOK /\ SessionInv
    BY DEF IInv
  <2>2. requests' = requests
    BY <1>3, <1>13
  <2>3. CloseInv'
    BY <1>1, <1>2, <1>6, <1>7, <2>1, <2>2, Fields DEF CloseInv, SessionInv, Ends, IsClose
  <2>4. EndInv'
    BY <1>1, <1>7, <1>13, <2>1, <2>2, Fields DEF EndInv, SessionInv, Ends, IsClose
  <2> QED BY <1>1, <1>8, <1>9, <1>11, <2>2, <2>3, <2>4, Frame DEF IInv
<1> QED BY <1>12, <1>13

\* A SUBSCRIBE or UNSUBSCRIBE: the session's map changes now, the tree later.
LEMMA RecvTopicPacketInv ==
  ASSUME IInv, NEW c \in Conns, NEW op \in {"SUBSCRIBE", "UNSUBSCRIBE"}, RecvTopicPacket(c, op)
  PROVE  IInv'
<1> DEFINE s == upstream[c]
           req == TopicReq(op, session[s].client)
<1>1. UNCHANGED <<tcp, conn_state, upstream, client, left, answered, ref_cnt, validating, responses,
                  sending, broadcast_tasks, sessions, session_refs, tree, num_published>>
  BY DEF RecvTopicPacket
<1>2. /\ conn_state[c] = "IN_SESSION"
      /\ session' = [session EXCEPT ![s].subscribed = (op = "SUBSCRIBE")]
      /\ requests' = Append(requests, req)
  BY DEF RecvTopicPacket
<1>3. /\ s \in Conns /\ session[s].state = "OPEN" /\ session[s].conn = c
      /\ session[s].client \in Clients /\ sessions[session[s].client] = s
  BY <1>2 DEF IInv, ConnInv, SessionInv
<1>4. /\ requests \in Seq(Request)
      /\ req \in Request /\ req.op = op /\ req.client = session[s].client
  BY <1>3, MadeRequests DEF IInv, TypeOK
<1>5. \A i \in DOMAIN requests : ~ Ends(i, s)
  BY <1>2, <1>3, SessionsAssumption DEF IInv, CloseInv, ConnInv, Ends
<1> HIDE DEF s, req
<1>6. /\ \A x \in Conns : /\ session'[x].state = session[x].state
                          /\ session'[x].conn = session[x].conn
                          /\ session'[x].client = session[x].client
                          /\ session'[x].clean = session[x].clean
      /\ \A x \in Conns \ {s} : session'[x].subscribed = session[x].subscribed
  BY <1>2, <1>3 DEF IInv, TypeOK
<1>7. session'[s].subscribed <=> op = "SUBSCRIBE"
  BY <1>2, <1>3 DEF IInv, TypeOK
<1>8. TypeOK'
  <2>1. requests' \in Seq(Request)
    BY <1>2, <1>4, QueueAppend
  <2>2. num_packets' \in [Conns -> 0 .. MaxPackets]
    <3>1. /\ num_packets[c] < MaxPackets
          /\ num_packets' = [num_packets EXCEPT ![c] = @ + 1]
      BY DEF RecvTopicPacket
    <3>2. num_packets \in [Conns -> 0 .. MaxPackets]
      BY DEF IInv, TypeOK
    <3> QED BY <3>1, <3>2, SessionsAssumption
  <2>3. session' \in [Conns -> SessionRec]
    <3>1. session \in [Conns -> SessionRec]
      BY DEF IInv, TypeOK, SessionRec
    <3>2. PICK b \in BOOLEAN : session' = [session EXCEPT ![s].subscribed = b]
      BY <1>2
    <3> QED BY <3>1, <3>2 DEF SessionRec
  <2> QED BY <1>1, <2>1, <2>2, <2>3 DEF IInv, TypeOK, SessionRec
<1>9. ConnInv' /\ SessionInv'
  BY <1>1, <1>6 DEF IInv, ConnInv, Unused, SessionInv
<1>10. \A x \in Conns : (Waiting(x) => Waiting(x)') /\ (Unused(x) => Unused(x)')
  BY <1>1, <1>6 DEF Waiting, Unused
<1>11. PendingInv'
  <2>1. PendingInv /\ TypeOK
    BY DEF IInv
  <2> QED BY <1>1, <1>2, <1>4, <1>10, <2>1, PendingAppended DEF IsConnect
<1>12. ResponseInv' /\ MapInv' /\ RefInv'
  <2>1. ResponseInv /\ MapInv /\ RefInv /\ TypeOK
    BY DEF IInv
  <2>2. ResponseInv'
    BY <1>1, <1>6, <2>1, Fields, SessionsAssumption DEF ResponseInv
  <2>3. MapInv'
    BY <1>1, <1>6, <2>1, SessionsAssumption DEF MapInv, TypeOK
  <2>4. \A x \in Conns : Held(x)' = Held(x)
    BY <1>1 DEF Held, InMap
  <2>5. RefInv'
    BY <1>1, <1>6, <2>1, <2>4 DEF RefInv
  <2> QED BY <2>2, <2>3, <2>5
<1>13. CloseInv'
  <2>1. CloseInv /\ TypeOK
    BY DEF IInv
  <2> QED BY <1>1, <1>2, <1>4, <1>6, <2>1, Fields, QueueAppend DEF CloseInv, Ends, IsClose
<1>14. EndInv'
  <2>1. EndInv /\ TypeOK
    BY DEF IInv
  <2> QED BY <1>1, <1>2, <1>4, <1>6, <2>1, Fields, QueueAppend DEF EndInv, Ends, IsClose
<1>15. TopicInv'
  <2>1. TopicInv /\ MapInv /\ TypeOK
    BY DEF IInv
  <2>2. \A id \in Clients : sessions[id] \in Conns \cup {None}
    BY <2>1 DEF TypeOK
  <2>3. \A id \in Clients \ {session[s].client} : sessions[id] # s
    BY <1>3, <2>1, SessionsAssumption DEF MapInv
  <2>4. PICK n \in Nat : n = Len(requests) + 1
    BY <1>4
  <2>5. /\ DOMAIN requests' = 1 .. n /\ Len(requests') = n
        /\ \A i \in DOMAIN requests : requests'[i] = requests[i]
        /\ requests'[n] = req
        /\ Len(requests) \in Nat /\ DOMAIN requests = 1 .. Len(requests)
    BY <1>2, <1>4, <2>1, <2>4, Fields, QueueAppend
  <2> SUFFICES ASSUME NEW id \in Clients
               PROVE  TopicsOpen(id)' /\ LastTopic(id)' /\ TreeAgrees(id)'
    BY DEF TopicInv
  <2>6. TopicsOpen(id) /\ LastTopic(id) /\ TreeAgrees(id)
    BY <2>1 DEF TopicInv
  <2>7. TopicsOpen(id)'
    <3>1. /\ \A i \in DOMAIN requests : TopicOf(i, id)' <=> TopicOf(i, id)
          /\ \A i \in DOMAIN requests : \A x : Ends(i, x)' <=> Ends(i, x)
          /\ TopicOf(n, id)' <=> id = session[s].client
      BY <1>4, <2>5 DEF TopicOf, Ends, IsTopic, IsClose
    <3>2. sessions' = sessions /\ \A x \in Conns : session'[x].state = session[x].state
      BY <1>1, <1>6
    <3>3. SUFFICES ASSUME NEW i \in DOMAIN requests', TopicOf(i, id)'
                   PROVE  /\ sessions[id] \in Conns /\ session[sessions[id]].state = "OPEN"
                          /\ \A j \in 1 .. i - 1 : ~ Ends(j, sessions[id])
      <4>1. \A k \in DOMAIN requests' : \A j \in 1 .. k - 1 : j \in DOMAIN requests
        BY <2>4, <2>5
      <4> QED BY <3>1, <3>2, <4>1, SessionsAssumption DEF TopicsOpen
    <3>4. CASE i = n
      BY <1>3, <1>5, <2>4, <2>5, <3>1, <3>3, <3>4
    <3>5. CASE i \in DOMAIN requests
      BY <2>2, <2>6, <3>1, <3>3, <3>5 DEF TopicsOpen
    <3> QED BY <2>4, <2>5, <3>4, <3>5
  <2>8. CASE id = session[s].client
    <3>1. TopicOf(n, id)' /\ requests'[n].op = op
      BY <1>4, <2>5, <2>8 DEF TopicOf, IsTopic
    <3>2. LastTopic(id)'
      BY <1>1, <1>3, <1>7, <2>5, <2>8, <2>4, <3>1 DEF LastTopic
    <3>3. TreeAgrees(id)'
      BY <1>4, <2>5, <2>4, <3>1 DEF TreeAgrees
    <3> QED BY <2>7, <3>2, <3>3
  <2>9. CASE id # session[s].client
    <3>1. \A i \in DOMAIN requests : TopicOf(i, id)' <=> TopicOf(i, id)
      BY <2>5 DEF TopicOf, IsTopic
    <3>2. ~ TopicOf(n, id)'
      BY <1>4, <2>5, <2>9 DEF TopicOf, IsTopic
    <3>3. sessions'[id] = sessions[id] /\ tree'[id] = tree[id]
      BY <1>1
    <3>4. sessions[id] # None => session'[sessions[id]].subscribed = session[sessions[id]].subscribed
      BY <1>6, <2>2, <2>3, <2>9
    <3>5. LastTopic(id)'
      <4>1. SUFFICES ASSUME NEW i \in DOMAIN requests', TopicOf(i, id)',
                            \A j \in i + 1 .. n : ~ TopicOf(j, id)'
                     PROVE  requests'[i].op = "SUBSCRIBE" <=> session'[sessions'[id]].subscribed
        BY <2>5 DEF LastTopic
      <4>2. i \in DOMAIN requests /\ i \in Int
        BY <2>4, <2>5, <3>2, <4>1
      <4>3. TopicOf(i, id) /\ requests'[i] = requests[i]
        BY <2>5, <3>1, <4>1, <4>2
      <4>4. \A j \in i + 1 .. Len(requests) : j \in DOMAIN requests /\ j \in i + 1 .. n
        BY <2>4, <2>5, <4>2
      <4>5. \A j \in i + 1 .. Len(requests) : ~ TopicOf(j, id)
        BY <3>1, <4>1, <4>4
      <4>6. requests[i].op = "SUBSCRIBE" <=> session[sessions[id]].subscribed
        BY <2>6, <4>2, <4>3, <4>5 DEF LastTopic
      <4>7. sessions[id] # None
        BY <2>6, <4>2, <4>3 DEF TopicsOpen
      <4> QED BY <3>3, <3>4, <4>3, <4>6, <4>7
    <3>6. TreeAgrees(id)'
      BY <2>5, <2>6, <2>4, <3>1, <3>2, <3>3, <3>4 DEF TreeAgrees
    <3> QED BY <2>7, <3>5, <3>6
  <2> QED BY <2>8, <2>9
<1> QED BY <1>1, <1>8, <1>9, <1>11, <1>12, <1>13, <1>14, <1>15, Frame DEF IInv

\* The end of a connection asks for the close of its session, if there is one yet.
LEMMA CloseActionInv ==
  ASSUME IInv, NEW c \in Conns, Close(c)
  PROVE  IInv'
<1> DEFINE req == CloseReq("FORCE_CLOSE", upstream[c])
<1>1. UNCHANGED <<client, left, upstream, answered, num_packets, validating, responses,
                  session, sending, sessions, tree, session_refs, broadcast_tasks, num_published>>
  BY DEF Close, brokerVars
<1>2. /\ tcp[c] = "CONNECTED" /\ tcp' = [tcp EXCEPT ![c] = "DISCONNECTED"]
      /\ ref_cnt' = [ref_cnt EXCEPT ![c] = @ + -3]
      /\ IF conn_state[c] = "IN_SESSION"
         THEN /\ requests' = Append(requests, req)
              /\ conn_state' = [conn_state EXCEPT ![c] = "NO_SESSION"]
         ELSE requests' = requests /\ conn_state' = conn_state
  BY DEF Close, RequestsAfterClose, Adjust
<1>3. requests \in Seq(Request) /\ upstream[c] \in Conns \cup {None}
  BY DEF IInv, TypeOK
<1>4. req \in Request /\ req.op = "FORCE_CLOSE" /\ req.session = upstream[c]
  BY <1>3, MadeRequests
<1> HIDE DEF req
<1>5. /\ tcp' \in [Conns -> {"NEW", "CONNECTED", "DISCONNECTED"}]
      /\ tcp'[c] = "DISCONNECTED" /\ \A x \in Conns \ {c} : tcp'[x] = tcp[x]
  BY <1>2 DEF IInv, TypeOK
<1>6. /\ conn_state' \in [Conns -> {"NO_SESSION", "STARTING_SESSION", "IN_SESSION"}]
      /\ \A x \in Conns \ {c} : conn_state'[x] = conn_state[x]
      /\ conn_state[c] = "IN_SESSION" => conn_state'[c] = "NO_SESSION"
      /\ conn_state[c] # "IN_SESSION" => conn_state'[c] = conn_state[c]
  <2>1. conn_state \in [Conns -> {"NO_SESSION", "STARTING_SESSION", "IN_SESSION"}]
    BY DEF IInv, TypeOK
  <2>2. conn_state' = IF conn_state[c] = "IN_SESSION"
                      THEN [conn_state EXCEPT ![c] = "NO_SESSION"] ELSE conn_state
    BY <1>2
  <2> QED BY <2>1, <2>2
<1>7. TypeOK'
  <2>1. requests' \in Seq(Request)
    BY <1>2, <1>3, <1>4, QueueAppend
  <2>2. ref_cnt' \in [Conns -> Int]
    BY <1>2 DEF IInv, TypeOK
  <2> QED BY <1>1, <1>5, <1>6, <2>1, <2>2 DEF IInv, TypeOK
<1>8. ConnInv'
  BY <1>1, <1>2, <1>5, <1>6 DEF IInv, ConnInv, Unused
<1>9. \A x \in Conns : (Waiting(x) => Waiting(x)') /\ (Unused(x) => Unused(x)')
  BY <1>1, <1>6 DEF Waiting, Unused
<1>10. PendingInv'
  <2>1. PendingInv /\ TypeOK
    BY DEF IInv
  <2>2. requests' = requests \/ requests' = Append(requests, req)
    BY <1>2
  <2>3. CASE requests' = requests
    BY <1>1, <1>9, <2>1, <2>3, Fields DEF PendingInv, IsConnect
  <2>4. CASE requests' = Append(requests, req)
    BY <1>1, <1>4, <1>9, <2>1, <2>4, PendingAppended DEF IsConnect
  <2> QED BY <2>2, <2>3, <2>4
<1>11. CASE conn_state[c] = "IN_SESSION"
  <2>1. CloseInv /\ EndInv /\ TopicInv /\ TypeOK /\ ConnInv /\ SessionInv /\ PendingInv /\ ResponseInv
    BY DEF IInv
  <2>2. requests' = Append(requests, req)
    BY <1>2, <1>11
  <2>3. /\ upstream[c] \in Conns /\ session[upstream[c]].state = "OPEN"
        /\ session[upstream[c]].conn = c /\ ~ left[c]
    BY <1>11, <2>1 DEF ConnInv
  <2>4. \A i \in DOMAIN requests : ~ Ends(i, upstream[c])
    BY <1>11, <2>1, <2>3, Fields, SessionsAssumption DEF CloseInv, Ends, ConnInv
  <2>5. \A r \in responses : r.session # upstream[c]
    BY <1>11, <2>1, <2>3, SessionsAssumption DEF ResponseInv, PendingInv, Waiting
  <2>6. CloseInv'
    <3>1. /\ DOMAIN requests' = 1 .. Len(requests) + 1 /\ Len(requests) \in Nat
          /\ DOMAIN requests = 1 .. Len(requests)
          /\ requests'[Len(requests) + 1] = req
          /\ \A i \in DOMAIN requests : requests'[i] = requests[i]
      BY <1>3, <1>4, <2>1, <2>2, Fields, QueueAppend
    <3>2. \A x \in Conns : session[x].state = "OPEN" => session[x].conn \in Conns
      BY <2>1 DEF SessionInv
    <3> QED BY <1>1, <1>4, <1>5, <1>6, <1>11, <2>1, <2>3, <2>4, <2>5, <3>1, <3>2
            DEF CloseInv, Ends, IsClose
  <2>7. EndInv'
    <3>1. /\ \A i \in DOMAIN requests, t \in Conns : i \in DOMAIN requests' /\ (Ends(i, t) => Ends(i, t)')
          /\ \E i \in DOMAIN requests' : IsClose(requests'[i]) /\ requests'[i].session = upstream[c]
      BY <1>3, <1>4, <2>2, Fields, QueueAppend DEF Ends, IsClose
    <3>2. \A x \in Conns : session[x].state = "OPEN" => session[x].conn \in Conns
      BY <2>1 DEF SessionInv
    <3> QED BY <1>1, <1>6, <2>1, <3>1, <3>2 DEF EndInv, Ends, IsClose
  <2>8. TopicInv'
    BY <1>1, <1>3, <1>4, <2>1, <2>2, TopicsAppended DEF IsTopic
  <2> QED BY <1>1, <1>7, <1>8, <1>10, <2>6, <2>7, <2>8, Frame DEF IInv
<1>12. CASE conn_state[c] # "IN_SESSION"
  <2>1. CloseInv /\ EndInv /\ TypeOK /\ SessionInv
    BY DEF IInv
  <2>2. requests' = requests /\ conn_state' = conn_state
    BY <1>2, <1>12
  <2>3. CloseInv'
    BY <1>1, <1>5, <2>1, <2>2, Fields DEF CloseInv, SessionInv, Ends, IsClose
  <2> QED BY <1>1, <1>7, <1>8, <1>10, <2>2, <2>3, Frame DEF IInv
<1> QED BY <1>11, <1>12

\* The answer to a CONNECT meets its connection, or finds that it is gone.
LEMMA ConnectCompleteInv ==
  ASSUME IInv, NEW resp \in responses, ConnectComplete(resp)
  PROVE  IInv'
<1> DEFINE c == resp.conn
           s == resp.session
           req == CloseReq(CloseOp(c), s)
<1>1. UNCHANGED <<tcp, client, left, num_packets, validating, session, sending, sessions, tree,
                  session_refs, broadcast_tasks, num_published>>
  BY DEF ConnectComplete, brokerVars
<1>2. responses' = responses \ {resp} /\ ref_cnt' = [ref_cnt EXCEPT ![c] = @ + -1]
  BY DEF ConnectComplete, Adjust
<1>3. \/ /\ GoneMeanwhile(resp)
         /\ requests' = Append(requests, req)
         /\ UNCHANGED <<conn_state, upstream, answered>>
      \/ /\ ~ GoneMeanwhile(resp)
         /\ resp.code = "ACCEPTED"
         /\ requests' = requests
         /\ answered' = [answered EXCEPT ![c] = TRUE]
         /\ upstream' = [upstream EXCEPT ![c] = s]
         /\ conn_state' = [conn_state EXCEPT ![c] = "IN_SESSION"]
      \/ /\ resp.code # "ACCEPTED"
         /\ requests' = requests
         /\ answered' = [answered EXCEPT ![c] = TRUE]
         /\ UNCHANGED <<upstream, conn_state>>
  BY DEF ConnectComplete
<1>4. c \in Conns /\ s \in Conns \cup {None} /\ requests \in Seq(Request)
  BY Fields DEF IInv, TypeOK
<1>5. /\ Waiting(c) /\ tcp[c] # "NEW"
      /\ resp.code = "ACCEPTED" <=> s # None
      /\ s # None => session[s].state = "OPEN" /\ session[s].conn = c
      /\ \A i \in DOMAIN requests : s # None => ~ Ends(i, s)
      /\ \A r \in responses \ {resp} : r.conn # c /\ (s # None => r.session # s)
      /\ \A r \in validating : r.conn # c
      /\ \A i \in DOMAIN requests : IsConnect(requests[i]) => requests[i].conn # c
  <2>1. ConnInv /\ PendingInv /\ ResponseInv /\ CloseInv /\ TypeOK
    BY DEF IInv
  <2>2. Waiting(c) /\ tcp[c] # "NEW"
    BY <1>4, <2>1 DEF ConnInv, PendingInv, Waiting
  <2>3. /\ resp.code = "ACCEPTED" <=> s # None
        /\ s # None => session[s].state = "OPEN" /\ session[s].conn = c
    BY <2>1 DEF ResponseInv
  <2>4. \A i \in DOMAIN requests : s # None => ~ Ends(i, s)
    BY <2>1, Fields DEF CloseInv, Ends
  <2>5. \A r \in responses \ {resp} : r.conn # c /\ (s # None => r.session # s)
    BY <2>1, <2>3 DEF PendingInv, ResponseInv
  <2>6. /\ \A r \in validating : r.conn # c
        /\ \A i \in DOMAIN requests : IsConnect(requests[i]) => requests[i].conn # c
    BY <2>1 DEF PendingInv
  <2> QED BY <2>2, <2>3, <2>4, <2>5, <2>6
<1>6. /\ req \in Request /\ req.session = s /\ req.op \in {"DISCONNECT", "FORCE_CLOSE"}
      /\ req.op = "DISCONNECT" <=> conn_state[c] = "NO_SESSION"
  BY <1>4, MadeRequests DEF CloseOp
<1> HIDE DEF c, s, req
<1>7. TypeOK'
  <2>1. ref_cnt' \in [Conns -> Int] /\ responses' \subseteq ResponseRec
    <3>1. ref_cnt \in [Conns -> Int] /\ responses \subseteq ResponseRec
      BY DEF IInv, TypeOK, ResponseRec
    <3> QED BY <1>2, <1>4, <3>1
  <2>2. requests' \in Seq(Request)
    BY <1>3, <1>4, <1>6, QueueAppend
  <2>3. answered' \in [Conns -> BOOLEAN]
    <3>1. answered \in [Conns -> BOOLEAN] /\ (answered' = answered \/ answered' = [answered EXCEPT ![c] = TRUE])
      BY <1>3 DEF IInv, TypeOK
    <3> QED BY <3>1
  <2>4. /\ upstream' \in [Conns -> Conns \cup {None}]
        /\ conn_state' \in [Conns -> {"NO_SESSION", "STARTING_SESSION", "IN_SESSION"}]
    <3>1. /\ upstream \in [Conns -> Conns \cup {None}]
          /\ conn_state \in [Conns -> {"NO_SESSION", "STARTING_SESSION", "IN_SESSION"}]
      BY DEF IInv, TypeOK
    <3> QED BY <1>3, <1>4, <3>1
  <2> QED BY <1>1, <2>1, <2>2, <2>3, <2>4 DEF IInv, TypeOK, ResponseRec
<1>8. ResponseInv'
  BY <1>1, <1>2 DEF IInv, ResponseInv
<1>9. CASE GoneMeanwhile(resp) /\ requests' = Append(requests, req) /\ UNCHANGED <<conn_state, upstream>>
  <2>1. PendingInv /\ CloseInv /\ EndInv /\ TopicInv /\ TypeOK
    BY DEF IInv
  <2>2. \A x \in Conns : (Waiting(x) => Waiting(x)') /\ (Unused(x) => Unused(x)')
    BY <1>1, <1>9 DEF Waiting, Unused
  <2>3. PendingInv'
    BY <1>1, <1>2, <1>6, <1>9, <2>1, <2>2, PendingAppended DEF IsConnect
  <2>4. tcp[c] = "DISCONNECTED" \/ conn_state[c] = "NO_SESSION"
    BY <1>4, <1>5, <1>9, <2>1 DEF GoneMeanwhile, c, TypeOK
  <2>5. CloseInv'
    <3>1. left[c] <=> conn_state[c] = "NO_SESSION"
      BY <1>5 DEF Waiting
    <3>2. /\ DOMAIN requests' = 1 .. Len(requests) + 1 /\ Len(requests) \in Nat
          /\ DOMAIN requests = 1 .. Len(requests)
          /\ requests'[Len(requests) + 1] = req
          /\ \A i \in DOMAIN requests : requests'[i] = requests[i]
      BY <1>4, <1>6, <1>9, Fields, QueueAppend
    <3> QED BY <1>1, <1>2, <1>4, <1>5, <1>6, <1>9, <2>1, <2>4, <3>1, <3>2, SessionsAssumption
            DEF CloseInv, Ends, IsClose
  <2>6. EndInv'
    <3>1. \A i \in DOMAIN requests, t \in Conns : i \in DOMAIN requests' /\ (Ends(i, t) => Ends(i, t)')
      BY <1>4, <1>6, <1>9, Fields, QueueAppend DEF Ends, IsClose
    <3>2. \E i \in DOMAIN requests' : IsClose(requests'[i]) /\ requests'[i].session = s
      BY <1>4, <1>6, <1>9, Fields, QueueAppend DEF IsClose
    <3>3. \A t \in Conns : t # s => \A r \in responses : r.session = t => r \in responses'
      BY <1>2 DEF s
    <3> QED BY <1>1, <1>9, <2>1, <3>1, <3>2, <3>3 DEF EndInv, Ends, IsClose
  <2>7. TopicInv'
    BY <1>1, <1>4, <1>6, <1>9, <2>1, TopicsAppended DEF IsTopic
  <2> QED BY <1>1, <1>7, <1>8, <1>9, <2>3, <2>5, <2>6, <2>7, Frame DEF IInv
<1>10. CASE /\ ~ GoneMeanwhile(resp) /\ resp.code = "ACCEPTED" /\ requests' = requests
            /\ upstream' = [upstream EXCEPT ![c] = s]
            /\ conn_state' = [conn_state EXCEPT ![c] = "IN_SESSION"]
  <2>1. ConnInv /\ PendingInv /\ CloseInv /\ EndInv /\ TypeOK /\ SessionInv
    BY DEF IInv
  <2>2. /\ upstream'[c] = s /\ conn_state'[c] = "IN_SESSION" /\ s \in Conns
        /\ \A x \in Conns \ {c} : upstream'[x] = upstream[x] /\ conn_state'[x] = conn_state[x]
    BY <1>4, <1>5, <1>10, <2>1 DEF TypeOK
  <2>3. tcp[c] = "CONNECTED" /\ conn_state[c] # "NO_SESSION"
    BY <1>10 DEF GoneMeanwhile, c
  <2>4. ~ left[c] /\ client[c] # None
    BY <1>5, <2>3 DEF Waiting
  <2>5. ConnInv'
    BY <1>1, <1>4, <1>5, <2>1, <2>2, <2>3, <2>4, SessionsAssumption DEF ConnInv, Unused
  <2>6. \A x \in Conns : (Waiting(x) /\ x # c => Waiting(x)') /\ (Unused(x) => Unused(x)')
    BY <1>1, <2>2 DEF Waiting, Unused
  <2>7. PendingInv'
    BY <1>1, <1>2, <1>5, <1>10, <2>1, <2>6, Fields DEF PendingInv, IsConnect
  <2>8. CloseInv'
    BY <1>1, <1>2, <1>4, <1>5, <1>10, <2>1, <2>2, Fields DEF CloseInv, SessionInv, Ends, IsClose
  <2>9. EndInv'
    BY <1>1, <1>2, <1>4, <1>5, <1>10, <2>1, <2>2, Fields DEF EndInv, SessionInv, Ends, IsClose, s, Waiting
  <2> QED BY <1>1, <1>7, <1>8, <1>10, <2>5, <2>7, <2>8, <2>9, Frame DEF IInv
<1>11. CASE resp.code # "ACCEPTED" /\ requests' = requests /\ UNCHANGED <<upstream, conn_state>>
  <2>1. PendingInv /\ CloseInv /\ EndInv /\ TypeOK
    BY DEF IInv
  <2>2. \A x \in Conns : (Waiting(x) => Waiting(x)') /\ (Unused(x) => Unused(x)')
    BY <1>1, <1>11 DEF Waiting, Unused
  <2>3. PendingInv'
    BY <1>1, <1>2, <1>11, <2>1, <2>2, Fields DEF PendingInv, IsConnect
  <2>4. CloseInv'
    BY <1>1, <1>2, <1>11, <2>1, Fields DEF CloseInv, Ends, IsClose
  <2>5. EndInv'
    BY <1>1, <1>2, <1>5, <1>11, <2>1, Fields, SessionsAssumption DEF EndInv, Ends, IsClose, s
  <2> QED BY <1>1, <1>7, <1>8, <1>11, <2>3, <2>4, <2>5, Frame DEF IInv
<1> QED BY <1>3, <1>9, <1>10, <1>11

\* A SUBACK or UNSUBACK is sent.
LEMMA SendPacketInv ==
  ASSUME IInv, NEW c \in Conns, SendPacket(c)
  PROVE  IInv'
<1>1. UNCHANGED <<tcp, conn_state, upstream, client, left, answered, num_packets, validating, requests,
                  responses, broadcast_tasks, sessions, session, session_refs, tree, num_published>>
  BY DEF SendPacket, connVars, brokerVars
<1>2. /\ sending[c] > 0
      /\ sending' = [sending EXCEPT ![c] = @ + -1] /\ ref_cnt' = [ref_cnt EXCEPT ![c] = @ + -1]
  BY DEF SendPacket, Adjust
<1>3. sending' \in [Conns -> Nat] /\ ref_cnt' \in [Conns -> Int]
  BY <1>2 DEF IInv, TypeOK
<1>4. TypeOK'
  BY <1>1, <1>3 DEF IInv, TypeOK
<1> QED BY <1>1, <1>4, Frame DEF IInv

\* A broadcast reaches its subscriber.
LEMMA HandleBroadcastInv ==
  ASSUME IInv, NEW s \in Conns, HandleBroadcast(s)
  PROVE  IInv'
<1>1. UNCHANGED <<tcp, conn_state, upstream, client, left, answered, num_packets, validating, requests,
                  responses, sending, sessions, session, tree, num_published>>
  BY DEF HandleBroadcast, connVars
<1>2. /\ broadcast_tasks[s] # <<>> /\ broadcast_tasks \in [Conns -> Seq(TaskRec)]
      /\ broadcast_tasks' = [broadcast_tasks EXCEPT ![s] = Tail(@)]
      /\ session_refs \in [Conns -> Nat]
      /\ session_refs' = [session_refs EXCEPT ![s] = @ + -1]
  BY DEF HandleBroadcast, Adjust, IInv, TypeOK, TaskRec
<1>3. /\ broadcast_tasks' \in [Conns -> Seq(TaskRec)]
      /\ Len(broadcast_tasks[s]) \in Nat \ {0}
      /\ Len(broadcast_tasks'[s]) = Len(broadcast_tasks[s]) - 1
      /\ \A x \in Conns \ {s} : broadcast_tasks'[x] = broadcast_tasks[x]
  BY <1>2
<1>4. RefInv /\ TypeOK
  BY DEF IInv
<1>5. session_refs[s] = Len(broadcast_tasks[s]) + Held(s)
  BY <1>4 DEF RefInv
<1>6. \A x \in Conns : Held(x)' = Held(x) /\ Held(x) \in {0, 1}
  BY <1>1 DEF Held, InMap
<1>7. /\ session_refs' \in [Conns -> Nat]
      /\ session_refs'[s] = session_refs[s] - 1
      /\ \A x \in Conns \ {s} : session_refs'[x] = session_refs[x]
  <2>1. Len(broadcast_tasks[s]) \in Nat \ {0}
    BY <1>3
  <2>2. Held(s) \in {0, 1}
    BY <1>6
  <2>3. session_refs[s] \in Nat \ {0}
    BY <1>5, <2>1, <2>2
  <2> QED BY <1>2, <2>3
<1>8. ref_cnt' \in [Conns -> Int]
  <2>1. ref_cnt \in [Conns -> Int]
    BY <1>4 DEF TypeOK
  <2>2. session[s].conn \in Conns
    BY <1>2, <1>4 DEF RefInv, IInv, SessionInv
  <2>3. \/ ref_cnt' = ref_cnt
        \/ ref_cnt' = [ref_cnt EXCEPT ![session[s].conn] = @ - 1]
    <3>1. ref_cnt' = IF Head(broadcast_tasks[s]).is_session_closed THEN ref_cnt
                     ELSE [ref_cnt EXCEPT ![session[s].conn] = @ + -1]
      BY DEF HandleBroadcast, Adjust
    <3>2. ref_cnt[session[s].conn] + -1 = ref_cnt[session[s].conn] - 1
      BY <2>1, <2>2
    <3> QED BY <3>1, <3>2, Zenon
  <2> QED BY <2>1, <2>2, <2>3
<1>9. TypeOK'
  BY <1>1, <1>3, <1>4, <1>7, <1>8 DEF TypeOK, TaskRec
<1>10. RefInv'
  BY <1>1, <1>2, <1>3, <1>4, <1>5, <1>7, <1>6 DEF RefInv
<1> QED BY <1>1, <1>9, <1>10, Frame DEF IInv

\* mqtt_broadcast adds one task and one reference per subscriber's session, and the
\* sessions in the tree have begun and are in the map.
LEMMA Broadcast ==
  ASSUME IInv
  PROVE  /\ \A c \in Conns : ConnShares(c) \in Nat
         /\ Subscribed \subseteq Conns
         /\ \A s \in Subscribed : InMap(s) /\ session[s].state # "NONE"
         /\ TasksAfterBroadcast \in [Conns -> Seq(TaskRec)]
         /\ \A s \in Conns : /\ SessionShares(s) \in Nat
                             /\ Len(TasksAfterBroadcast[s]) = Len(broadcast_tasks[s]) + SessionShares(s)
                             /\ Len(broadcast_tasks[s]) \in Nat
                             /\ SessionShares(s) = 0 => TasksAfterBroadcast[s] = broadcast_tasks[s]
                             /\ SessionShares(s) # 0 => s \in Subscribed
<1>1. SessionInv /\ MapInv /\ TypeOK /\ SubscriptionsAreCurrent
  BY DEF IInv
<1>2. Subscribed \subseteq Conns
  BY <1>1 DEF Subscribed, TypeOK
<1>3. \A s \in Subscribed : InMap(s) /\ session[s].state # "NONE"
  BY <1>1 DEF Subscribed, SubscriptionsAreCurrent, MapInv, InMap
<1>4. ASSUME NEW c \in Conns PROVE ConnShares(c) \in Nat
  <2>1. {s \in Subscribed : session[s].state = "OPEN" /\ session[s].conn = c} \subseteq Conns
    BY <1>2
  <2> QED BY <2>1, SessionsAssumption, FS_Subset, FS_CardinalityType DEF ConnShares
<1>5. ASSUME NEW s \in Conns
      PROVE /\ TasksAfterBroadcast[s] \in Seq(TaskRec)
            /\ SessionShares(s) \in Nat
            /\ Len(TasksAfterBroadcast[s]) = Len(broadcast_tasks[s]) + SessionShares(s)
            /\ Len(broadcast_tasks[s]) \in Nat
            /\ SessionShares(s) = 0 => TasksAfterBroadcast[s] = broadcast_tasks[s]
            /\ SessionShares(s) # 0 => s \in Subscribed
  <2> DEFINE task == [is_session_closed |-> session[s].state = "CLOSED", conn |-> session[s].conn]
  <2>1. broadcast_tasks[s] \in Seq(TaskRec)
    BY <1>1 DEF TypeOK, TaskRec
  <2>2. CASE s \in Subscribed
    <3>1. session[s].conn \in Conns
      BY <1>1, <1>3, <2>2 DEF SessionInv
    <3>2. task \in TaskRec
      BY <3>1 DEF TaskRec
    <3>3. TasksAfterBroadcast[s] = Append(broadcast_tasks[s], task)
      BY <2>2 DEF TasksAfterBroadcast
    <3> HIDE DEF task
    <3> QED BY <2>1, <2>2, <3>2, <3>3 DEF SessionShares
  <2>3. CASE s \notin Subscribed
    BY <2>1, <2>3 DEF SessionShares, TasksAfterBroadcast
  <2> QED BY <2>2, <2>3
<1>6. TasksAfterBroadcast \in [Conns -> Seq(TaskRec)]
  BY <1>5 DEF TasksAfterBroadcast
<1> QED BY <1>2, <1>3, <1>4, <1>5, <1>6

\* A message is published.
LEMMA PublishInv ==
  ASSUME IInv, Publish
  PROVE  IInv'
<1>1. UNCHANGED <<tcp, conn_state, upstream, client, left, answered, num_packets, validating, requests,
                  responses, sending, sessions, session, tree>>
  BY DEF Publish, connVars
<1>2. /\ broadcast_tasks' = TasksAfterBroadcast
      /\ ref_cnt' = [c \in Conns |-> ref_cnt[c] + ConnShares(c)]
      /\ session_refs' = [s \in Conns |-> session_refs[s] + SessionShares(s)]
      /\ num_published < MaxPublishes /\ num_published' = num_published + 1
  BY DEF Publish
<1>3. RefInv /\ TypeOK
  BY DEF IInv
<1>4. /\ ref_cnt' \in [Conns -> Int] /\ session_refs' \in [Conns -> Nat]
      /\ broadcast_tasks' \in [Conns -> Seq(TaskRec)]
      /\ num_published' \in 0 .. MaxPublishes
  <2>1. /\ ref_cnt \in [Conns -> Int] /\ session_refs \in [Conns -> Nat]
        /\ num_published \in 0 .. MaxPublishes
    BY <1>3 DEF TypeOK
  <2>2. /\ ref_cnt' \in [Conns -> Int] /\ session_refs' \in [Conns -> Nat]
    BY <1>2, <2>1, Broadcast
  <2>3. broadcast_tasks' \in [Conns -> Seq(TaskRec)]
    BY <1>2, Broadcast
  <2>4. num_published' \in 0 .. MaxPublishes
    BY <1>2, <2>1, SessionsAssumption
  <2> QED BY <2>2, <2>3, <2>4
<1>5. TypeOK'
  BY <1>1, <1>3, <1>4 DEF TypeOK, TaskRec
<1>6. RefInv'
  <2>1. \A s \in Conns : session_refs'[s] = session_refs[s] + SessionShares(s)
    BY <1>2
  <2>2. \A s \in Conns : Held(s)' = Held(s) /\ Held(s) \in {0, 1}
    BY <1>1 DEF Held, InMap
  <2>3. \A s \in Conns : session_refs[s] = Len(broadcast_tasks[s]) + Held(s)
    BY <1>3 DEF RefInv
  <2>4. \A s \in Conns : session_refs'[s] = Len(broadcast_tasks'[s]) + Held(s)'
    <3>1. \A s \in Conns : /\ SessionShares(s) \in Nat /\ Len(broadcast_tasks[s]) \in Nat
                            /\ Len(broadcast_tasks'[s]) = Len(broadcast_tasks[s]) + SessionShares(s)
      BY <1>2, Broadcast
    <3>2. SUFFICES ASSUME NEW s \in Conns
                   PROVE  session_refs'[s] = Len(broadcast_tasks'[s]) + Held(s)'
      OBVIOUS
    <3>3. PICK shares \in Nat : shares = SessionShares(s)
      BY <3>1
    <3>4. PICK tasks \in Nat : tasks = Len(broadcast_tasks[s])
      BY <3>1
    <3>5. PICK held \in {0, 1} : held = Held(s) /\ held = Held(s)'
      BY <2>2
    <3>6. session_refs'[s] = (tasks + held) + shares
      BY <2>1, <2>3, <3>3, <3>4, <3>5
    <3>7. Len(broadcast_tasks'[s]) = tasks + shares
      BY <3>1, <3>3, <3>4
    <3> QED BY <3>5, <3>6, <3>7
  <2>5. \A s \in Conns : broadcast_tasks'[s] # <<>> => session'[s].state # "NONE"
    BY <1>1, <1>2, <1>3, Broadcast DEF RefInv
  <2> QED BY <2>4, <2>5 DEF RefInv
<1> QED BY <1>1, <1>5, <1>6, Frame DEF IInv

-----------------------------------------------------------------------------
(* The steps of the logic thread. *)

\* The queue after its first request is taken.
LEMMA Dequeue ==
  ASSUME TypeOK, requests # <<>>, requests' = Tail(requests)
  PROVE  /\ requests' \in Seq(Request)
         /\ Head(requests) = requests[1] /\ requests[1] \in Request /\ 1 \in DOMAIN requests
         /\ Len(requests) \in Nat \ {0} /\ Len(requests') = Len(requests) - 1
         /\ DOMAIN requests = 1 .. Len(requests) /\ DOMAIN requests' = 1 .. Len(requests) - 1
         /\ \A i \in DOMAIN requests' : i + 1 \in DOMAIN requests /\ requests'[i] = requests[i + 1]
         /\ \A i \in DOMAIN requests : i = 1 \/ (i - 1 \in DOMAIN requests' /\ requests'[i - 1] = requests[i])
<1>1. requests \in Seq(Request)
  BY DEF TypeOK
<1> QED BY <1>1, QueueTail

\* Closes and SUBSCRIBEs move up one place.
LEMMA DequeueEnds ==
  ASSUME TypeOK, requests # <<>>, requests' = Tail(requests)
  PROVE  /\ \A i \in DOMAIN requests', x \in Conns : Ends(i, x)' <=> Ends(i + 1, x)
         /\ \A i \in DOMAIN requests', x \in Clients : TopicOf(i, x)' <=> TopicOf(i + 1, x)
         /\ \A i \in DOMAIN requests, x \in Conns :
              i # 1 /\ Ends(i, x) => \E j \in DOMAIN requests' : Ends(j, x)'
         /\ \A i \in DOMAIN requests, x \in Clients : i # 1 => (TopicOf(i - 1, x)' <=> TopicOf(i, x))
<1>1. /\ \A i \in DOMAIN requests', x \in Conns : Ends(i, x)' <=> Ends(i + 1, x)
      /\ \A i \in DOMAIN requests', x \in Clients : TopicOf(i, x)' <=> TopicOf(i + 1, x)
  BY Dequeue DEF Ends, IsClose, TopicOf, IsTopic
<1>2. ASSUME NEW i \in DOMAIN requests, i # 1
      PROVE  /\ i - 1 \in DOMAIN requests'
             /\ \A x \in Conns : Ends(i - 1, x)' <=> Ends(i, x)
             /\ \A x \in Clients : TopicOf(i - 1, x)' <=> TopicOf(i, x)
  <2>1. i - 1 \in DOMAIN requests' /\ requests'[i - 1] = requests[i]
    BY <1>2, Dequeue
  <2> QED BY <2>1 DEF Ends, IsClose, TopicOf, IsTopic
<1> QED BY <1>1, <1>2

\* Taking a request keeps TopicInv for a client whose session does not change.
LEMMA TopicsDequeued ==
  ASSUME TypeOK, TopicInv, requests # <<>>, requests' = Tail(requests), NEW x \in Clients,
         sessions'[x] = sessions[x],
         sessions[x] # None =>
           /\ session'[sessions[x]].state = session[sessions[x]].state
           /\ session'[sessions[x]].subscribed = session[sessions[x]].subscribed
  PROVE  /\ TopicsOpen(x)' /\ LastTopic(x)'
         /\ tree'[x] = tree[x] /\ ~ TopicOf(1, x) => TreeAgrees(x)'
<1>1. TopicsOpen(x) /\ LastTopic(x) /\ TreeAgrees(x)
  BY DEF TopicInv
<1>2. TopicsOpen(x)'
  BY <1>1, Dequeue DEF TopicsOpen, TopicOf, Ends, IsClose, IsTopic
<1>3. LastTopic(x)'
  <2>1. SUFFICES ASSUME NEW i \in DOMAIN requests', TopicOf(i, x)',
                        \A j \in i + 1 .. Len(requests') : ~ TopicOf(j, x)'
                 PROVE  requests'[i].op = "SUBSCRIBE" <=> session'[sessions'[x]].subscribed
    BY DEF LastTopic
  <2>2. TopicOf(i + 1, x) /\ i + 1 \in DOMAIN requests
    BY <2>1, Dequeue, DequeueEnds
  <2>3. ASSUME NEW j \in i + 2 .. Len(requests) PROVE ~ TopicOf(j, x)
    <3>1. i \in Nat /\ j \in DOMAIN requests /\ j # 1 /\ j - 1 \in i + 1 .. Len(requests')
      BY Dequeue
    <3>2. ~ TopicOf(j - 1, x)'
      BY <2>1, <3>1
    <3> QED BY <3>1, <3>2, DequeueEnds
  <2> QED BY <1>1, <2>2, <2>3, Dequeue DEF LastTopic, TopicsOpen
<1>4. ASSUME tree'[x] = tree[x], ~ TopicOf(1, x) PROVE TreeAgrees(x)'
  <2>1. SUFFICES ASSUME sessions'[x] # None, \A i \in DOMAIN requests' : ~ TopicOf(i, x)'
                 PROVE  tree'[x] = sessions'[x] <=> session'[sessions'[x]].subscribed
    BY DEF TreeAgrees
  <2>2. \A i \in DOMAIN requests : ~ TopicOf(i, x)
    BY <1>4, <2>1, Dequeue DEF TopicOf, IsTopic
  <2> QED BY <1>1, <1>4, <2>1, <2>2 DEF TreeAgrees
<1> QED BY <1>2, <1>3, <1>4

\* Taking a request keeps CloseInv if other open sessions stay as they are.
LEMMA CloseDequeued ==
  ASSUME TypeOK, CloseInv, requests # <<>>, requests' = Tail(requests),
         UNCHANGED <<tcp, conn_state, left>>,
         \A t \in Conns : session[t].state = "OPEN" /\ ~ Ends(1, t) =>
           session'[t].state = "OPEN" /\ session'[t].conn = session[t].conn,
         \A r \in responses' : r \in responses \/ r.session = None \/ session[r.session].state # "OPEN"
  PROVE  CloseInv'
<1> SUFFICES ASSUME NEW i \in DOMAIN requests', NEW t \in Conns, Ends(i, t)'
             PROVE  /\ session'[t].state = "OPEN"
                    /\ \/ tcp'[session'[t].conn] = "DISCONNECTED"
                       \/ conn_state'[session'[t].conn] = "NO_SESSION"
                    /\ requests'[i].op = "DISCONNECT" <=> left'[session'[t].conn]
                    /\ \A r \in responses' : r.session # t
                    /\ \A j \in DOMAIN requests' : Ends(j, t)' => j = i
  BY DEF CloseInv
<1>1. i + 1 \in DOMAIN requests /\ requests'[i] = requests[i + 1] /\ i + 1 # 1 /\ 1 \in DOMAIN requests
  BY Dequeue
<1>2. Ends(i + 1, t)
  BY DequeueEnds
<1>3. /\ session[t].state = "OPEN"
      /\ tcp[session[t].conn] = "DISCONNECTED" \/ conn_state[session[t].conn] = "NO_SESSION"
      /\ requests[i + 1].op = "DISCONNECT" <=> left[session[t].conn]
      /\ \A r \in responses : r.session # t
      /\ \A j \in DOMAIN requests : Ends(j, t) => j = i + 1
  BY <1>1, <1>2 DEF CloseInv
<1>4. session'[t].state = "OPEN" /\ session'[t].conn = session[t].conn
  BY <1>1, <1>3
<1>5. \A j \in DOMAIN requests' : Ends(j, t)' => j = i
  BY <1>3, Dequeue, DequeueEnds
<1>6. \A r \in responses' : r.session # t
  BY <1>3, SessionsAssumption
<1> QED BY <1>1, <1>3, <1>4, <1>5, <1>6

\* Taking a request keeps EndInv if other open sessions stay as they are.
LEMMA EndDequeued ==
  ASSUME TypeOK, EndInv, requests # <<>>, requests' = Tail(requests),
         UNCHANGED <<conn_state, upstream>>, responses \subseteq responses',
         \A t \in Conns : session'[t].state = "OPEN" =>
           \/ \E r \in responses' : r.session = t
           \/ session[t].state = "OPEN" /\ session'[t].conn = session[t].conn /\ ~ Ends(1, t)
  PROVE  EndInv'
<1> SUFFICES ASSUME NEW t \in Conns, session'[t].state = "OPEN", \A r \in responses' : r.session # t
             PROVE  \/ conn_state'[session'[t].conn] = "IN_SESSION" /\ upstream'[session'[t].conn] = t
                    \/ \E i \in DOMAIN requests' : Ends(i, t)'
  BY DEF EndInv
<1>1. session[t].state = "OPEN" /\ session'[t].conn = session[t].conn /\ ~ Ends(1, t)
  OBVIOUS
<1> QED BY <1>1, DequeueEnds DEF EndInv

\* Taking a request keeps PendingInv: a CONNECT taken is answered.
LEMMA PendingDequeued ==
  ASSUME TypeOK, PendingInv, requests # <<>>, requests' = Tail(requests),
         UNCHANGED <<client, conn_state, left, validating>>,
         \A x \in Conns : Unused(x) => Unused(x)' \/ (IsConnect(requests[1]) /\ x = requests[1].conn),
         \/ responses' = responses /\ ~ IsConnect(requests[1])
         \/ \E r : /\ responses' = responses \cup {r}
                   /\ IsConnect(requests[1]) /\ r.conn = requests[1].conn
  PROVE  PendingInv'
<1>1. \A x \in Conns : Waiting(x) => Waiting(x)'
  BY DEF Waiting
<1>2. CASE responses' = responses /\ ~ IsConnect(requests[1])
  BY <1>1, <1>2, Dequeue, Fields DEF PendingInv, IsConnect
<1>3. ASSUME NEW r, responses' = responses \cup {r}, IsConnect(requests[1]), r.conn = requests[1].conn
      PROVE  PendingInv'
  <2>1. PICK c \in Conns : c = requests[1].conn
    BY <1>3, Dequeue, Fields
  <2>2. Waiting(c)'
    BY <1>1, <1>3, <2>1, Dequeue DEF PendingInv
  <2>3. /\ \A q \in validating : q.conn # c
        /\ \A q \in responses : q.conn # c
        /\ \A i \in DOMAIN requests' : IsConnect(requests'[i]) => requests'[i].conn # c
    BY <1>3, <2>1, Dequeue DEF PendingInv, IsConnect
  <2>4. \A x \in Conns \ {c} : Unused(x) => Unused(x)'
    BY <2>1
  <2>5. /\ \A q \in validating' : IsConnect(q) /\ Waiting(q.conn)' /\ Unused(q.conn)'
        /\ \A q \in responses' : Waiting(q.conn)'
    BY <1>1, <1>3, <2>2, <2>3, <2>4, <2>1, Fields DEF PendingInv
  <2>6. (\A i \in DOMAIN requests : IsConnect(requests[i]) =>
           Waiting(requests[i].conn) /\ Unused(requests[i].conn))'
    <3> SUFFICES ASSUME NEW i \in DOMAIN requests', IsConnect(requests[i])'
                 PROVE  Waiting(requests[i].conn)' /\ Unused(requests[i].conn)'
      OBVIOUS
    <3>1. PICK x \in Conns : x = requests[i + 1].conn
      BY Dequeue, Fields DEF IsConnect
    <3>2. requests'[i].conn = x /\ x # c /\ Waiting(x) /\ Unused(x)
      BY <2>3, <3>1, Dequeue DEF PendingInv, IsConnect
    <3>3. Waiting(x)' /\ Unused(x)'
      BY <1>1, <2>4, <3>2
    <3> QED BY <3>2, <3>3
  <2>7. (\A i, j \in DOMAIN requests :
           IsConnect(requests[i]) /\ IsConnect(requests[j]) /\ requests[i].conn = requests[j].conn
             => i = j)'
    BY Dequeue DEF PendingInv, IsConnect
  <2>8. (/\ \A q, t \in validating : q.conn = t.conn => q = t
         /\ \A q, t \in responses : q.conn = t.conn => q = t
         /\ \A q \in validating, t \in responses : q.conn # t.conn)'
    BY <1>3, <2>3, <2>1 DEF PendingInv
  <2>9. (\A i \in DOMAIN requests : IsConnect(requests[i]) =>
           /\ \A q \in validating : q.conn # requests[i].conn
           /\ \A t \in responses : t.conn # requests[i].conn)'
    BY <1>3, <2>3, <2>1, Dequeue DEF PendingInv, IsConnect
  <2> QED BY <2>5, <2>6, <2>7, <2>8, <2>9 DEF PendingInv
<1> QED BY <1>2, <1>3

\* handle_topic_req: the session is open, and the tree follows its map.
LEMMA HandleTopicReqInv ==
  ASSUME IInv, requests # <<>>, requests' = Tail(requests),
         UNCHANGED <<connVars, validating, num_published>>,
         IsTopic(Head(requests)), HandleTopicReq(Head(requests))
  PROVE  IInv'
<1> DEFINE req == requests[1]
           id == req.client
           s == sessions[id]
<1>1. UNCHANGED <<tcp, conn_state, upstream, client, left, answered, num_packets, validating, responses,
                  broadcast_tasks, sessions, session, session_refs, num_published>>
  BY DEF HandleTopicReq, connVars
<1>2. TypeOK /\ PendingInv /\ CloseInv /\ EndInv /\ TopicInv /\ SubscriptionsAreCurrent /\ SessionInv
  BY DEF IInv
<1>3. Head(requests) = req /\ IsTopic(req) /\ id \in Clients
  BY <1>2, Dequeue, Fields
<1>4. s \in Conns /\ session[s].state = "OPEN"
  <2>1. TopicOf(1, id) /\ TopicsOpen(id) /\ 1 \in DOMAIN requests
    BY <1>2, <1>3, Dequeue DEF TopicInv, TopicOf
  <2>2. s \in Conns \cup {None}
    BY <1>2, <1>3 DEF TypeOK
  <2> QED BY <2>1, <2>2 DEF TopicsOpen
<1>5. /\ tree' = [tree EXCEPT ![id] = IF req.op = "SUBSCRIBE" THEN s ELSE None]
      /\ sending' = [sending EXCEPT ![session[s].conn] = @ + 1]
      /\ ref_cnt' = [ref_cnt EXCEPT ![session[s].conn] = @ + 1]
  BY <1>3, <1>4, SessionsAssumption DEF HandleTopicReq, InUse, Adjust
<1>6. /\ tree'[id] = IF req.op = "SUBSCRIBE" THEN s ELSE None
      /\ \A x \in Clients \ {id} : tree'[x] = tree[x]
      /\ tree' \in [Clients -> Conns \cup {None}]
  BY <1>2, <1>3, <1>4, <1>5 DEF TypeOK
<1>7. TypeOK'
  <2>1. session[s].conn \in Conns
    BY <1>2, <1>4 DEF SessionInv
  <2>2. sending \in [Conns -> Nat] /\ ref_cnt \in [Conns -> Int]
    BY <1>2 DEF TypeOK
  <2>3. sending' \in [Conns -> Nat] /\ ref_cnt' \in [Conns -> Int]
    BY <1>5, <2>1, <2>2
  <2>4. requests' \in Seq(Request)
    BY <1>2, Dequeue
  <2> QED BY <1>1, <1>2, <1>6, <2>3, <2>4 DEF TypeOK
<1>8. PendingInv'
  <2>1. \A x \in Conns : Unused(x) => Unused(x)'
    BY <1>1 DEF Unused
  <2> QED BY <1>1, <1>2, <1>3, <2>1, PendingDequeued DEF IsTopic, IsConnect
<1>9. CloseInv'
  BY <1>1, <1>2, Dequeue DEF CloseInv, Ends, IsClose
<1>10. EndInv'
  <2>1. \A x \in Conns : ~ Ends(1, x)
    BY <1>3 DEF Ends, IsClose, IsTopic
  <2> QED BY <1>1, <1>2, <2>1, DequeueEnds DEF EndInv
<1>11. SubscriptionsAreCurrent'
  BY <1>1, <1>2, <1>6 DEF SubscriptionsAreCurrent
<1>12. TopicInv'
  <2> SUFFICES ASSUME NEW x \in Clients
               PROVE  TopicsOpen(x)' /\ LastTopic(x)' /\ TreeAgrees(x)'
    BY DEF TopicInv
  <2>1. TopicsOpen(x)' /\ LastTopic(x)' /\ (tree'[x] = tree[x] /\ ~ TopicOf(1, x) => TreeAgrees(x)')
    BY <1>1, <1>2, TopicsDequeued
  <2>2. CASE x = id
    <3>1. SUFFICES ASSUME sessions'[x] # None, \A i \in DOMAIN requests' : ~ TopicOf(i, x)'
                   PROVE  tree'[x] = sessions'[x] <=> session'[sessions'[x]].subscribed
      BY <2>1 DEF TreeAgrees
    <3>2. \A i \in DOMAIN requests : i # 1 => ~ TopicOf(i, x)
      BY <1>2, <3>1, Dequeue DEF TopicOf, IsTopic
    <3>3. TopicOf(1, x)
      BY <1>3, <2>2 DEF TopicOf
    <3>4. req.op = "SUBSCRIBE" <=> session[s].subscribed
      BY <1>2, <2>2, <3>2, <3>3, Dequeue DEF LastTopic, TopicInv
    <3> QED BY <1>1, <1>4, <1>6, <2>2, <3>4, SessionsAssumption
  <2>3. CASE x # id
    <3>1. ~ TopicOf(1, x)
      BY <1>3, <2>3 DEF TopicOf
    <3> QED BY <1>6, <2>1, <2>3, <3>1
  <2> QED BY <2>2, <2>3
<1> QED BY <1>1, <1>7, <1>8, <1>9, <1>10, <1>11, <1>12, Frame DEF IInv

\* The close of a session.  It is open, and no SUBSCRIBE of its client is left in the
\* queue, so that closing takes exactly the session's subscription out of the tree.
LEMMA HandleCloseInv ==
  ASSUME IInv, requests # <<>>, requests' = Tail(requests),
         UNCHANGED <<connVars, validating, num_published>>,
         IsClose(Head(requests)), Head(requests).session # None, HandleClose(Head(requests))
  PROVE  IInv'
<1>1. UNCHANGED <<tcp, conn_state, upstream, client, left, answered, num_packets, validating, responses,
                  sending, num_published>>
  BY DEF HandleClose, connVars
<1>2. TypeOK /\ ConnInv /\ PendingInv /\ SessionInv /\ ResponseInv /\ CloseInv /\ EndInv /\ MapInv
        /\ TopicInv /\ SubscriptionsAreCurrent /\ RefInv
  BY DEF IInv
<1>3. Head(requests) = requests[1] /\ 1 \in DOMAIN requests
  BY <1>2, Dequeue
<1>4. PICK s \in Conns : s = requests[1].session
  BY <1>2, <1>3, Fields
<1>5. Ends(1, s)
  BY <1>3, <1>4 DEF Ends
<1>6. PICK id \in Clients : id = session[s].client
  BY <1>2, <1>3, <1>5 DEF CloseInv, SessionInv
<1>7. /\ session[s].state = "OPEN" /\ session[s].conn \in Conns /\ sessions[id] = s
      /\ tcp[session[s].conn] = "DISCONNECTED" \/ conn_state[session[s].conn] = "NO_SESSION"
      /\ \A r \in responses : r.session # s
      /\ \A j \in DOMAIN requests : Ends(j, s) => j = 1
  BY <1>2, <1>3, <1>6, <1>5 DEF CloseInv, SessionInv
<1>8. /\ \A i \in DOMAIN requests : ~ TopicOf(i, id)
      /\ tree[id] = s <=> session[s].subscribed
      /\ \A x \in Clients \ {id} : sessions[x] # s
  <2>1. \A i \in DOMAIN requests : i # 1 => ~ TopicOf(i, id)
    BY <1>2, <1>5, <1>7, Fields DEF TopicInv, TopicsOpen
  <2>2. ~ TopicOf(1, id)
    BY <1>5 DEF TopicOf, Ends, IsClose, IsTopic
  <2>3. \A x \in Clients \ {id} : sessions[x] # s
    BY <1>2, <1>6, SessionsAssumption DEF MapInv
  <2>4. tree[id] = s <=> session[s].subscribed
    BY <1>2, <1>7, <2>1, <2>2, SessionsAssumption DEF TopicInv, TreeAgrees
  <2> QED BY <2>1, <2>2, <2>3, <2>4
<1>9. PICK clean \in BOOLEAN : clean = session[s].clean
  BY <1>2 DEF TypeOK
<1>10. session' = [session EXCEPT ![s].state = "CLOSED"]
  BY <1>3, <1>4 DEF HandleClose
<1>11. /\ session'[s].state = "CLOSED" /\ session' \in [Conns -> SessionRec]
       /\ \A x \in Conns : /\ session'[x].conn = session[x].conn
                           /\ session'[x].client = session[x].client
                           /\ session'[x].clean = session[x].clean
                           /\ session'[x].subscribed = session[x].subscribed
       /\ \A x \in Conns \ {s} : session'[x].state = session[x].state
  <2>1. session \in [Conns -> SessionRec]
    BY <1>2 DEF TypeOK, SessionRec
  <2> QED BY <1>10, <2>1 DEF SessionRec
<1>12. sessions' = IF clean THEN [sessions EXCEPT ![id] = None] ELSE sessions
  BY <1>3, <1>4, <1>6, <1>9 DEF HandleClose, Discarded
<1>13. /\ sessions' \in [Clients -> Conns \cup {None}]
       /\ sessions'[id] = IF clean THEN None ELSE s
       /\ \A x \in Clients \ {id} : sessions'[x] = sessions[x]
  BY <1>2, <1>7, <1>12 DEF TypeOK
<1>14. /\ tree' \in [Clients -> Conns \cup {None}]
       /\ tree'[id] = IF clean THEN None ELSE tree[id]
       /\ \A x \in Clients \ {id} : tree'[x] = tree[x]
  <2>1. tree' = IF clean /\ session[s].subscribed THEN [tree EXCEPT ![id] = None] ELSE tree
    BY <1>3, <1>4, <1>6, <1>9 DEF HandleClose, TreeAfterClose, Discarded
  <2>2. tree \in [Clients -> Conns \cup {None}]
    BY <1>2 DEF TypeOK
  <2>3. tree[id] # s => tree[id] = None
    BY <1>2, <1>7 DEF SubscriptionsAreCurrent
  <2> QED BY <1>8, <2>1, <2>2, <2>3
<1>15. ConnInv'
  BY <1>1, <1>2, <1>7, <1>11 DEF ConnInv, Unused
<1>16. \A x \in Conns : Unused(x) => Unused(x)'
  BY <1>7, <1>11 DEF Unused
<1>17. PendingInv'
  <2>1. ~ IsConnect(requests[1])
    BY <1>5 DEF Ends, IsClose, IsConnect
  <2> QED BY <1>1, <1>2, <1>16, <2>1, PendingDequeued
<1>18. SessionInv'
  BY <1>2, <1>6, <1>7, <1>8, <1>11, <1>13 DEF SessionInv
<1>19. ResponseInv'
  BY <1>1, <1>2, <1>7, <1>11, Fields, SessionsAssumption DEF ResponseInv
<1>20. CloseInv'
  <2>1. \A t \in Conns : ~ Ends(1, t) => t # s
    BY <1>5
  <2> QED BY <1>1, <1>2, <1>11, <2>1, CloseDequeued
<1>21. EndInv'
  <2>1. \A t \in Conns : Ends(1, t) => t = s
    BY <1>5 DEF Ends
  <2> QED BY <1>1, <1>2, <1>11, <2>1, EndDequeued
<1>22. MapInv'
  <2>1. \A x \in Clients \ {id} : sessions[x] # None => sessions[x] \in Conns \ {s}
    BY <1>2, <1>8 DEF TypeOK
  <2> QED BY <1>2, <1>6, <1>9, <1>11, <1>13, <2>1 DEF MapInv
<1>23. SubscriptionsAreCurrent'
  BY <1>2, <1>7, <1>13, <1>14 DEF SubscriptionsAreCurrent
<1>24. TopicInv'
  <2> SUFFICES ASSUME NEW x \in Clients
               PROVE  TopicsOpen(x)' /\ LastTopic(x)' /\ TreeAgrees(x)'
    BY DEF TopicInv
  <2>1. CASE x # id
    <3>1. sessions[x] # None => sessions[x] \in Conns \ {s}
      BY <1>2, <1>8, <2>1 DEF TypeOK
    <3>2. ~ TopicOf(1, x)
      BY <1>5 DEF TopicOf, Ends, IsClose, IsTopic
    <3> QED BY <1>2, <1>11, <1>13, <1>14, <2>1, <3>1, <3>2, TopicsDequeued
  <2>2. CASE x = id
    <3>1. \A i \in DOMAIN requests' : ~ TopicOf(i, x)'
      BY <1>2, <1>8, <2>2, Dequeue, DequeueEnds
    <3>2. TopicsOpen(x)' /\ LastTopic(x)'
      BY <3>1 DEF TopicsOpen, LastTopic
    <3>3. TreeAgrees(x)'
      BY <1>8, <1>11, <1>13, <1>14, <2>2 DEF TreeAgrees
    <3> QED BY <3>2, <3>3
  <2> QED BY <2>1, <2>2
<1>25. /\ session_refs' \in [Conns -> Nat] /\ RefInv'
       /\ broadcast_tasks' \in [Conns -> Seq(TaskRec)]
       /\ ref_cnt' \in [Conns -> Int]
  <2>1. PICK will \in BOOLEAN : will = (requests[1].op = "FORCE_CLOSE" /\ session[s].will)
    OBVIOUS
  <2> DEFINE share == [x \in Conns |-> IF will THEN SessionShares(x) ELSE 0]
             refs == [x \in Conns |-> session_refs[x] + IF will THEN SessionShares(x) ELSE 0]
             conns == [x \in Conns |-> ref_cnt[x] + IF will THEN ConnShares(x) ELSE 0]
  <2>2. /\ session_refs' = IF clean THEN [refs EXCEPT ![s] = @ + -1] ELSE refs
        /\ broadcast_tasks' = IF will THEN TasksAfterBroadcast ELSE broadcast_tasks
        /\ ref_cnt' = [conns EXCEPT ![session[s].conn] = @ + -1]
    BY <1>3, <1>4, <1>9, <2>1 DEF HandleClose, SessionRefsAfterClose, Discarded, Adjust
  <2>3. /\ session_refs \in [Conns -> Nat] /\ broadcast_tasks \in [Conns -> Seq(TaskRec)]
        /\ ref_cnt \in [Conns -> Int]
    BY <1>2 DEF TypeOK, TaskRec
  <2>4. broadcast_tasks' \in [Conns -> Seq(TaskRec)]
    BY <2>2, <2>3, Broadcast
  <2>5. \A x \in Conns : /\ share[x] \in Nat /\ Len(broadcast_tasks[x]) \in Nat
                         /\ Len(broadcast_tasks'[x]) = Len(broadcast_tasks[x]) + share[x]
                         /\ refs[x] = session_refs[x] + share[x]
    <3>1. \A x \in Conns : /\ SessionShares(x) \in Nat /\ Len(broadcast_tasks[x]) \in Nat
                            /\ Len(TasksAfterBroadcast[x]) = Len(broadcast_tasks[x]) + SessionShares(x)
      BY Broadcast
    <3>2. \A x \in Conns : share[x] = IF will THEN SessionShares(x) ELSE 0
      OBVIOUS
    <3>3. \A x \in Conns : refs[x] = session_refs[x] + share[x]
      BY <3>2
    <3> HIDE DEF share, refs
    <3> QED BY <2>1, <2>2, <3>1, <3>2, <3>3
  <2>6. conns \in [Conns -> Int]
    <3>1. \A x \in Conns : ConnShares(x) \in Nat
      BY Broadcast
    <3> QED BY <2>1, <2>3, <3>1
  <2>7. ref_cnt' \in [Conns -> Int]
    <3>1. ref_cnt' = [conns EXCEPT ![session[s].conn] = @ + -1]
      BY <2>2
    <3> HIDE DEF conns
    <3> QED BY <1>7, <2>6, <3>1
  <2>8. refs \in [Conns -> Nat]
    <3>1. \A x \in Conns : SessionShares(x) \in Nat
      BY Broadcast
    <3> QED BY <2>1, <2>3, <3>1
  <2>9. /\ Held(s) = 1 /\ Held(s)' = IF clean THEN 0 ELSE 1
        /\ \A x \in Conns \ {s} : Held(x)' = Held(x) /\ Held(x) \in {0, 1}
    BY <1>7, <1>8, <1>13, SessionsAssumption DEF Held, InMap
  <2>10. \A x \in Conns : session_refs[x] = Len(broadcast_tasks[x]) + Held(x)
    BY <1>2 DEF RefInv
  <2> HIDE DEF refs, share
  <2>11. refs[s] \in Nat \ {0}
    BY <2>5, <2>9, <2>10
  <2>12. /\ session_refs' \in [Conns -> Nat]
         /\ session_refs'[s] = IF clean THEN refs[s] - 1 ELSE refs[s]
         /\ \A x \in Conns \ {s} : session_refs'[x] = refs[x]
    BY <2>2, <2>8, <2>11
  <2>13. \A x \in Conns : session_refs'[x] = Len(broadcast_tasks'[x]) + Held(x)'
    <3>1. session_refs'[s] = Len(broadcast_tasks'[s]) + Held(s)'
      <4>1. /\ share[s] \in Nat /\ Len(broadcast_tasks[s]) \in Nat
            /\ Len(broadcast_tasks'[s]) = Len(broadcast_tasks[s]) + share[s]
            /\ refs[s] = Len(broadcast_tasks[s]) + 1 + share[s]
        BY <2>5, <2>9, <2>10
      <4> QED BY <2>9, <2>12, <4>1
    <3>2. ASSUME NEW x \in Conns \ {s} PROVE session_refs'[x] = Len(broadcast_tasks'[x]) + Held(x)'
      <4>1. /\ share[x] \in Nat /\ Len(broadcast_tasks[x]) \in Nat /\ Held(x) \in {0, 1}
            /\ Len(broadcast_tasks'[x]) = Len(broadcast_tasks[x]) + share[x]
            /\ session_refs'[x] = Len(broadcast_tasks[x]) + Held(x) + share[x]
        BY <2>5, <2>9, <2>10, <2>12
      <4>2. Held(x)' = Held(x)
        BY <2>9
      <4> QED BY <4>1, <4>2
    <3> QED BY <3>1, <3>2
  <2>14. \A x \in Conns : broadcast_tasks'[x] # <<>> => session'[x].state # "NONE"
    <3>1. ASSUME NEW x \in Conns, x # s, broadcast_tasks'[x] # <<>> PROVE session[x].state # "NONE"
      BY <1>2, <2>2, <3>1, Broadcast DEF RefInv
    <3> QED BY <1>11, <3>1
  <2> QED BY <2>4, <2>7, <2>12, <2>13, <2>14 DEF RefInv
<1>26. TypeOK'
  <2>1. requests' \in Seq(Request)
    BY <1>2, Dequeue
  <2> QED BY <1>1, <1>2, <1>11, <1>13, <1>14, <1>25, <2>1 DEF TypeOK, SessionRec, TaskRec
<1> QED BY <1>15, <1>17, <1>18, <1>19, <1>20, <1>21, <1>22, <1>23, <1>24, <1>25, <1>26 DEF IInv

\* A CONNECT about to be handled: its connection has begun no session.
LEMMA ConnectHead ==
  ASSUME IInv, requests # <<>>, requests' = Tail(requests), IsConnect(requests[1])
  PROVE  /\ requests[1].conn \in Conns /\ requests[1].client \in Clients
         /\ requests[1].clean \in BOOLEAN /\ requests[1].will \in BOOLEAN
         /\ Waiting(requests[1].conn) /\ Unused(requests[1].conn)
         /\ \A x \in Conns : ~ Ends(1, x)
         /\ \A x \in Clients : ~ TopicOf(1, x)
         /\ \A r \in responses : r.session # requests[1].conn
         /\ \A i \in DOMAIN requests : ~ Ends(i, requests[1].conn)
         /\ ~ InMap(requests[1].conn) /\ broadcast_tasks[requests[1].conn] = <<>>
<1>1. TypeOK /\ PendingInv /\ ResponseInv /\ CloseInv /\ MapInv /\ RefInv
  BY DEF IInv
<1>2. /\ requests[1].conn \in Conns /\ requests[1].client \in Clients
      /\ requests[1].clean \in BOOLEAN /\ requests[1].will \in BOOLEAN
      /\ Waiting(requests[1].conn) /\ Unused(requests[1].conn)
  BY <1>1, Dequeue, RequestFields DEF PendingInv
<1>3. (\A x \in Conns : ~ Ends(1, x)) /\ (\A x \in Clients : ~ TopicOf(1, x))
  BY DEF Ends, TopicOf, IsConnect, IsClose, IsTopic
<1>4. session[requests[1].conn].state = "NONE"
  BY <1>2 DEF Unused
<1>5. /\ \A r \in responses : r.session # requests[1].conn
      /\ \A i \in DOMAIN requests : ~ Ends(i, requests[1].conn)
  BY <1>1, <1>2, <1>4, SessionsAssumption DEF ResponseInv, CloseInv
<1>6. ~ InMap(requests[1].conn) /\ broadcast_tasks[requests[1].conn] = <<>>
  BY <1>1, <1>2, <1>4, SessionsAssumption DEF InMap, MapInv, RefInv
<1> QED BY <1>2, <1>3, <1>5, <1>6

\* The answers of the logic thread.
LEMMA NewResponse ==
  ASSUME NEW c \in Conns, NEW s \in Conns \cup {None},
         NEW code \in {"ACCEPTED", "IDENTIFIER_REJECTED", "NOT_AUTHORIZED"}
  PROVE  /\ Response(c, code, s) \in ResponseRec
         /\ Response(c, code, s).conn = c /\ Response(c, code, s).code = code
         /\ Response(c, code, s).session = s
BY DEF Response, ResponseRec

\* start_session refuses a client id in use.
LEMMA RejectInv ==
  ASSUME IInv, requests # <<>>, requests' = Tail(requests),
         UNCHANGED <<connVars, validating, num_published, broadcast_tasks, sending>>,
         IsConnect(Head(requests)), Reject(Head(requests))
  PROVE  IInv'
<1>1. UNCHANGED <<tcp, conn_state, upstream, client, left, answered, num_packets, validating, sending,
                  broadcast_tasks, num_published, session, ref_cnt, session_refs, tree, sessions>>
  BY DEF Reject, connVars
<1>2. TypeOK /\ PendingInv /\ ResponseInv /\ CloseInv /\ EndInv /\ TopicInv
  BY DEF IInv
<1>3. Head(requests) = requests[1] /\ IsConnect(requests[1])
  BY <1>2, Dequeue
<1> DEFINE r == Response(requests[1].conn, "IDENTIFIER_REJECTED", None)
<1>4. responses' = responses \cup {r}
  BY <1>3 DEF Reject, Respond
<1>5. r \in ResponseRec /\ r.conn = requests[1].conn /\ r.code = "IDENTIFIER_REJECTED" /\ r.session = None
  BY <1>3, ConnectHead, NewResponse
<1> HIDE DEF r
<1>6. TypeOK'
  <2>1. requests' \in Seq(Request)
    BY <1>2, Dequeue
  <2>2. responses' \subseteq ResponseRec
    BY <1>2, <1>4, <1>5 DEF TypeOK, ResponseRec
  <2> QED BY <1>1, <1>2, <2>1, <2>2 DEF TypeOK, ResponseRec
<1>7. PendingInv'
  <2>1. \A x \in Conns : Unused(x) => Unused(x)'
    BY <1>1 DEF Unused
  <2> QED BY <1>1, <1>2, <1>3, <1>4, <1>5, <2>1, PendingDequeued
<1>8. ResponseInv'
  BY <1>1, <1>2, <1>4, <1>5 DEF ResponseInv
<1>9. CloseInv'
  BY <1>1, <1>2, <1>4, <1>5, CloseDequeued
<1>10. EndInv'
  BY <1>1, <1>2, <1>3, <1>4, ConnectHead, EndDequeued
<1>11. TopicInv'
  BY <1>1, <1>2, <1>3, ConnectHead, TopicsDequeued DEF TopicInv
<1> QED BY <1>1, <1>6, <1>7, <1>8, <1>9, <1>10, <1>11, Frame DEF IInv

\* A resumed session has the fields of a session.
LEMMA ResumedRec ==
  ASSUME NEW old \in SessionRec, NEW c \in Conns, NEW will \in BOOLEAN
  PROVE  [old EXCEPT !.state = "OPEN", !.conn = c, !.will = will] \in SessionRec
BY DEF SessionRec

\* start_session resumes the closed session of a client.
LEMMA ResumeInv ==
  ASSUME IInv, requests # <<>>, requests' = Tail(requests),
         UNCHANGED <<connVars, validating, num_published, broadcast_tasks, sending>>,
         IsConnect(Head(requests)), NEW s \in Conns, s = sessions[Head(requests).client],
         session[s].state # "OPEN", Resume(Head(requests), s)
  PROVE  IInv'
<1>1. UNCHANGED <<tcp, conn_state, upstream, client, left, answered, num_packets, validating, sending,
                  broadcast_tasks, num_published, session_refs, tree, sessions>>
  BY DEF Resume, connVars
<1>2. TypeOK /\ ConnInv /\ PendingInv /\ SessionInv /\ ResponseInv /\ CloseInv /\ EndInv /\ MapInv
        /\ TopicInv /\ RefInv
  BY DEF IInv
<1>3. Head(requests) = requests[1] /\ IsConnect(requests[1])
  BY <1>2, Dequeue
<1>4. PICK c \in Conns : c = requests[1].conn
  BY <1>3, ConnectHead
<1>5. PICK id \in Clients : id = requests[1].client
  BY <1>3, ConnectHead
<1>6. /\ Waiting(c) /\ Unused(c)
      /\ \A x \in Conns : ~ Ends(1, x)
      /\ \A x \in Clients : ~ TopicOf(1, x)
  BY <1>3, <1>4, ConnectHead
<1>7. /\ sessions[id] = s /\ session[s].client = id /\ session[s].state = "CLOSED" /\ s # c
      /\ \A x \in Clients \ {id} : sessions[x] # s
  <2>1. sessions[id] = s /\ s # None
    BY <1>3, <1>5, SessionsAssumption
  <2>2. session[s].client = id /\ session[s].state # "NONE"
    BY <1>2, <2>1 DEF MapInv
  <2>3. session[s].state = "CLOSED"
    BY <1>2, <2>2 DEF TypeOK
  <2>4. s # c
    BY <1>6, <2>2 DEF Unused
  <2>5. \A x \in Clients \ {id} : sessions[x] # s
    BY <1>2, <2>1, <2>2 DEF MapInv
  <2> QED BY <2>1, <2>2, <2>3, <2>4, <2>5
<1> DEFINE r == Response(c, "ACCEPTED", s)
<1>8. responses' = responses \cup {r}
  BY <1>3, <1>4 DEF Resume, Respond
<1>9. r \in ResponseRec /\ r.conn = c /\ r.code = "ACCEPTED" /\ r.session = s
  BY NewResponse
<1> HIDE DEF r
<1>10. /\ session'[s].state = "OPEN" /\ session'[s].conn = c /\ session' \in [Conns -> SessionRec]
       /\ \A x \in Conns : /\ session'[x].client = session[x].client
                           /\ session'[x].clean = session[x].clean
                           /\ session'[x].subscribed = session[x].subscribed
       /\ \A x \in Conns \ {s} : /\ session'[x].state = session[x].state
                                 /\ session'[x].conn = session[x].conn
  <2>1. session \in [Conns -> SessionRec]
    BY <1>2 DEF TypeOK, SessionRec
  <2>2. PICK will \in BOOLEAN : will = requests[1].will
    BY <1>3, ConnectHead
  <2>3. session' = [session EXCEPT ![s].state = "OPEN", ![s].conn = c, ![s].will = will]
    BY <1>3, <1>4, <2>2 DEF Resume
  <2>4. PICK rec : rec = [session[s] EXCEPT !.state = "OPEN", !.conn = c, !.will = will]
    OBVIOUS
  <2>5. rec \in SessionRec
    BY <2>1, <2>4, ResumedRec
  <2>6. rec.state = "OPEN" /\ rec.conn = c /\ rec.client = session[s].client
    BY <2>1, <2>4 DEF SessionRec
  <2>7. rec.clean = session[s].clean /\ rec.subscribed = session[s].subscribed
    BY <2>1, <2>4 DEF SessionRec
  <2>8. session' = [session EXCEPT ![s] = rec]
    BY <2>1, <2>3, <2>4 DEF SessionRec
  <2> QED BY <2>1, <2>5, <2>6, <2>7, <2>8
<1>11. TypeOK'
  <2>1. requests' \in Seq(Request)
    BY <1>2, Dequeue
  <2>2. responses' \subseteq ResponseRec
    BY <1>2, <1>8, <1>9 DEF TypeOK, ResponseRec
  <2>3. ref_cnt \in [Conns -> Int] /\ ref_cnt' = [ref_cnt EXCEPT ![c] = @ + 1]
    BY <1>2, <1>3, <1>4 DEF TypeOK, Resume, Adjust
  <2>4. ref_cnt' \in [Conns -> Int]
    BY <2>3
  <2> QED BY <1>1, <1>2, <1>10, <2>1, <2>2, <2>4 DEF TypeOK, ResponseRec, SessionRec
<1>12. ConnInv'
  <2>1. \A x \in Conns : Unused(x) => Unused(x)' \/ x = c
    BY <1>7, <1>10 DEF Unused
  <2>2. client[c] # None
    BY <1>6 DEF Waiting
  <2> QED BY <1>1, <1>2, <1>7, <1>10, <2>1, <2>2 DEF ConnInv
<1>13. PendingInv'
  <2>1. \A x \in Conns : Unused(x) => Unused(x)' \/ x = c
    BY <1>7, <1>10 DEF Unused
  <2> QED BY <1>1, <1>2, <1>3, <1>4, <1>8, <1>9, <2>1, PendingDequeued
<1>14. SessionInv'
  BY <1>1, <1>2, <1>6, <1>7, <1>10 DEF SessionInv, Unused
<1>15. ResponseInv'
  BY <1>1, <1>2, <1>7, <1>8, <1>9, <1>10, Fields, SessionsAssumption DEF ResponseInv
<1>16. CloseInv'
  BY <1>1, <1>2, <1>7, <1>8, <1>9, <1>10, CloseDequeued
<1>17. EndInv'
  BY <1>1, <1>2, <1>6, <1>8, <1>9, <1>10, EndDequeued
<1>18. MapInv'
  <2>1. \A x \in Clients \ {id} : sessions[x] # None => sessions[x] \in Conns \ {s}
    BY <1>2, <1>7 DEF TypeOK
  <2> QED BY <1>1, <1>2, <1>7, <1>10, <2>1 DEF MapInv
<1>19. TopicInv'
  <2> SUFFICES ASSUME NEW x \in Clients
               PROVE  TopicsOpen(x)' /\ LastTopic(x)' /\ TreeAgrees(x)'
    BY DEF TopicInv
  <2>1. CASE x # id
    <3>1. sessions[x] # None => sessions[x] \in Conns \ {s}
      BY <1>2, <1>7, <2>1 DEF TypeOK
    <3> QED BY <1>1, <1>2, <1>6, <1>10, <2>1, <3>1, TopicsDequeued
  <2>2. CASE x = id
    <3>1. \A i \in DOMAIN requests : ~ TopicOf(i, x)
      BY <1>2, <1>7, <2>2 DEF TopicInv, TopicsOpen
    <3>2. \A i \in DOMAIN requests' : ~ TopicOf(i, x)'
      BY <1>2, <3>1, Dequeue, DequeueEnds
    <3>3. TopicsOpen(x)' /\ LastTopic(x)'
      BY <3>2 DEF TopicsOpen, LastTopic
    <3>4. tree[x] = s <=> session[s].subscribed
      BY <1>2, <1>7, <2>2, <3>1, SessionsAssumption DEF TopicInv, TreeAgrees
    <3>5. TreeAgrees(x)'
      BY <1>1, <1>7, <1>10, <2>2, <3>4 DEF TreeAgrees
    <3> QED BY <3>3, <3>5
  <2> QED BY <2>1, <2>2
<1>20. RefInv'
  <2>1. \A x \in Conns : Held(x)' = Held(x)
    BY <1>1 DEF Held, InMap
  <2> QED BY <1>1, <1>2, <1>10, <2>1 DEF RefInv
<1> QED BY <1>1, <1>11, <1>12, <1>13, <1>14, <1>15, <1>16, <1>17, <1>18, <1>19, <1>20, Frame DEF IInv

\* A new session has the fields of a session.
LEMMA OpenedRec ==
  ASSUME NEW req, req.conn \in Conns, req.client \in Clients, req.clean \in BOOLEAN,
         req.will \in BOOLEAN
  PROVE  /\ Opened(req) \in SessionRec /\ Opened(req).state = "OPEN"
         /\ Opened(req).conn = req.conn /\ Opened(req).client = req.client
         /\ ~ Opened(req).subscribed
<1>1. NewSession \in SessionRec
  BY DEF NewSession, SessionRec
<1>2. Opened(req) \in SessionRec
  BY <1>1 DEF Opened, SessionRec
<1>3. Opened(req).state = "OPEN" /\ Opened(req).conn = req.conn /\ Opened(req).client = req.client
  BY <1>1 DEF Opened, SessionRec
<1>4. ~ NewSession.subscribed
  BY DEF NewSession
<1>5. Opened(req).subscribed = NewSession.subscribed
  BY <1>1 DEF Opened, SessionRec
<1> QED BY <1>2, <1>3, <1>4, <1>5

\* start_session begins a session, alone or in place of the client's closed one.
LEMMA BeginInv ==
  ASSUME IInv, requests # <<>>, requests' = Tail(requests),
         UNCHANGED <<connVars, validating, num_published, broadcast_tasks, sending>>,
         IsConnect(Head(requests)), NEW s, s = sessions[Head(requests).client],
         \/ s = None /\ StartNew(Head(requests))
         \/ s # None /\ session[s].state # "OPEN" /\ TakeOver(Head(requests), s)
  PROVE  IInv'
<1>1. UNCHANGED <<tcp, conn_state, upstream, client, left, answered, num_packets, validating, sending,
                  broadcast_tasks, num_published>>
  BY DEF connVars
<1>2. TypeOK /\ ConnInv /\ PendingInv /\ SessionInv /\ ResponseInv /\ CloseInv /\ EndInv /\ MapInv
        /\ TopicInv /\ SubscriptionsAreCurrent /\ RefInv
  BY DEF IInv
<1>3. Head(requests) = requests[1] /\ IsConnect(requests[1])
  BY <1>2, Dequeue
<1>4. PICK c \in Conns : c = requests[1].conn
  BY <1>3, ConnectHead
<1>5. PICK id \in Clients : id = requests[1].client
  BY <1>3, ConnectHead
<1>6. /\ Waiting(c) /\ Unused(c)
      /\ \A x \in Conns : ~ Ends(1, x)
      /\ \A x \in Clients : ~ TopicOf(1, x)
      /\ \A r \in responses : r.session # c
      /\ \A i \in DOMAIN requests : ~ Ends(i, c)
      /\ ~ InMap(c) /\ broadcast_tasks[c] = <<>>
  BY <1>3, <1>4, ConnectHead
<1>7. /\ s \in Conns \cup {None} /\ sessions[id] = s /\ s # c
      /\ s # None => /\ session[s].client = id /\ session[s].state = "CLOSED"
                     /\ session[s].conn \in Conns
                     /\ \A x \in Clients \ {id} : sessions[x] # s
      /\ \A i \in DOMAIN requests : ~ TopicOf(i, id)
  <2>1. s \in Conns \cup {None} /\ sessions[id] = s /\ s # c
    BY <1>2, <1>3, <1>5, <1>6, SessionsAssumption DEF InMap, TypeOK
  <2>2. s # None => /\ session[s].client = id /\ session[s].state = "CLOSED"
                    /\ session[s].conn \in Conns
                    /\ \A x \in Clients \ {id} : sessions[x] # s
    <3>1. s # None => session[s].client = id /\ session[s].state # "NONE" /\ session[s].state # "OPEN"
      BY <1>2, <2>1 DEF MapInv
    <3>2. s # None => session[s].state \in {"NONE", "OPEN", "CLOSED"}
      BY <1>2, <2>1 DEF TypeOK
    <3> QED BY <1>2, <2>1, <3>1, <3>2 DEF MapInv, SessionInv
  <2>3. \A i \in DOMAIN requests : ~ TopicOf(i, id)
    BY <1>2, <2>1, <2>2 DEF TopicInv, TopicsOpen
  <2> QED BY <2>1, <2>2, <2>3
<1> DEFINE r == Response(c, "ACCEPTED", c)
<1>8. responses' = responses \cup {r}
  BY <1>3, <1>4 DEF StartNew, TakeOver, Respond
<1>9. r \in ResponseRec /\ r.conn = c /\ r.code = "ACCEPTED" /\ r.session = c
  BY NewResponse
<1> HIDE DEF r
<1>10. /\ session'[c].state = "OPEN" /\ session'[c].conn = c /\ session'[c].client = id
       /\ ~ session'[c].subscribed /\ session' \in [Conns -> SessionRec]
       /\ \A x \in Conns \ {c} : /\ session'[x].client = session[x].client
                                 /\ session'[x].clean = session[x].clean
                                 /\ session'[x].subscribed = session[x].subscribed
                                 /\ session'[x].state = session[x].state
                                 /\ session'[x].conn = session[x].conn
  <2>1. session \in [Conns -> SessionRec]
    BY <1>2 DEF TypeOK, SessionRec
  <2>2. PICK rec : rec = Opened(requests[1])
    OBVIOUS
  <2>3. rec \in SessionRec /\ rec.state = "OPEN" /\ rec.conn = c /\ rec.client = id /\ ~ rec.subscribed
    BY <1>3, <1>4, <1>5, <2>2, ConnectHead, OpenedRec
  <2>4. CASE session' = [session EXCEPT ![c] = rec]
    BY <2>1, <2>3, <2>4
  <2>5. CASE s \in Conns /\ session' = [session EXCEPT ![s].state = "CLOSED", ![c] = rec]
    <3>1. PICK old : old = [session[s] EXCEPT !.state = "CLOSED"]
      OBVIOUS
    <3>2. session[s] \in SessionRec
      BY <2>1, <2>5
    <3>3. old \in SessionRec
      BY <3>1, <3>2 DEF SessionRec
    <3>4. /\ old.client = session[s].client /\ old.conn = session[s].conn
          /\ old.state = session[s].state
      BY <1>7, <2>5, <3>1, <3>2, SessionsAssumption DEF SessionRec
    <3>5. old.clean = session[s].clean /\ old.subscribed = session[s].subscribed
      BY <3>1, <3>2 DEF SessionRec
    <3>6. session'[s] = old /\ session'[c] = rec /\ \A x \in Conns \ {c, s} : session'[x] = session[x]
      BY <1>7, <2>1, <2>5, <3>1
    <3>7. session' \in [Conns -> SessionRec]
      <4>1. DOMAIN session' = Conns /\ session' = [x \in Conns |-> session'[x]]
        BY <2>1, <2>5
      <4>2. \A x \in Conns : session'[x] \in SessionRec
        BY <2>1, <2>3, <3>3, <3>6
      <4> QED BY <4>1, <4>2
    <3> QED BY <2>3, <3>4, <3>5, <3>6, <3>7
  <2>6. \/ session' = [session EXCEPT ![c] = rec]
        \/ s \in Conns /\ session' = [session EXCEPT ![s].state = "CLOSED", ![c] = rec]
    BY <1>3, <1>4, <1>7, <2>2 DEF StartNew, TakeOver
  <2> QED BY <2>4, <2>5, <2>6
<1>11. /\ sessions' \in [Clients -> Conns \cup {None}]
       /\ sessions'[id] = c /\ \A x \in Clients \ {id} : sessions'[x] = sessions[x]
  <2>1. sessions' = [sessions EXCEPT ![id] = c] /\ sessions \in [Clients -> Conns \cup {None}]
    BY <1>2, <1>3, <1>4, <1>5 DEF StartNew, TakeOver, TypeOK
  <2> QED BY <2>1
<1>12. /\ tree' \in [Clients -> Conns \cup {None}]
       /\ tree'[id] = None /\ \A x \in Clients \ {id} : tree'[x] = tree[x]
  <2>1. tree \in [Clients -> Conns \cup {None}] /\ (tree[id] = None \/ tree[id] = s)
    BY <1>2, <1>7 DEF TypeOK, SubscriptionsAreCurrent
  <2>2. CASE s = None
    <3>1. tree' = tree
      BY <2>2 DEF StartNew
    <3> QED BY <2>1, <2>2, <3>1
  <2>3. CASE s # None
    <3>1. tree[id] = s <=> session[s].subscribed
      BY <1>2, <1>7, <2>3 DEF TopicInv, TreeAgrees
    <3>2. tree' = IF session[s].subscribed THEN [tree EXCEPT ![id] = None] ELSE tree
      BY <1>7, <2>3 DEF TakeOver, TreeAfterClose, Discarded
    <3> QED BY <2>1, <2>3, <3>1, <3>2
  <2> QED BY <2>2, <2>3
<1>13. ConnInv'
  BY <1>1, <1>2, <1>6, <1>10 DEF ConnInv, Unused, Waiting
<1>14. PendingInv'
  <2>1. \A x \in Conns : Unused(x) => Unused(x)' \/ x = c
    BY <1>10 DEF Unused
  <2> QED BY <1>1, <1>2, <1>3, <1>4, <1>8, <1>9, <2>1, PendingDequeued
<1>15. SessionInv'
  <2>1. \A x \in Conns : session[x].state = "OPEN" => session[x].client # id
    BY <1>2, <1>7, SessionsAssumption DEF SessionInv
  <2> QED BY <1>2, <1>6, <1>10, <1>11, <2>1 DEF SessionInv, Unused
<1>16. ResponseInv'
  BY <1>1, <1>2, <1>6, <1>8, <1>9, <1>10, Fields, SessionsAssumption DEF ResponseInv
<1>17. CloseInv'
  <2>1. session[c].state # "OPEN"
    BY <1>6 DEF Unused
  <2> QED BY <1>1, <1>2, <1>8, <1>9, <1>10, <2>1, CloseDequeued
<1>18. EndInv'
  BY <1>1, <1>2, <1>6, <1>8, <1>9, <1>10, EndDequeued
<1>19. MapInv'
  <2>1. \A x \in Clients \ {id} : sessions[x] # None => sessions[x] \in Conns \ {c}
    BY <1>2, <1>6 DEF TypeOK, InMap
  <2> QED BY <1>2, <1>10, <1>11, <2>1 DEF MapInv
<1>20. SubscriptionsAreCurrent'
  BY <1>2, <1>11, <1>12 DEF SubscriptionsAreCurrent
<1>21. TopicInv'
  <2> SUFFICES ASSUME NEW x \in Clients
               PROVE  TopicsOpen(x)' /\ LastTopic(x)' /\ TreeAgrees(x)'
    BY DEF TopicInv
  <2>1. CASE x # id
    <3>1. sessions[x] # None => sessions[x] \in Conns \ {c}
      BY <1>2, <1>6 DEF TypeOK, InMap
    <3> QED BY <1>2, <1>6, <1>10, <1>11, <1>12, <2>1, <3>1, TopicsDequeued
  <2>2. CASE x = id
    <3>1. \A i \in DOMAIN requests' : ~ TopicOf(i, x)'
      BY <1>2, <1>7, <2>2, Dequeue, DequeueEnds
    <3>2. TopicsOpen(x)' /\ LastTopic(x)'
      BY <3>1 DEF TopicsOpen, LastTopic
    <3>3. TreeAgrees(x)'
      BY <1>10, <1>11, <1>12, <2>2, SessionsAssumption DEF TreeAgrees
    <3> QED BY <3>2, <3>3
  <2> QED BY <2>1, <2>2
<1>22. session_refs' \in [Conns -> Nat] /\ RefInv'
  <2>1. session_refs \in [Conns -> Nat] /\ broadcast_tasks \in [Conns -> Seq(TaskRec)]
    BY <1>2 DEF TypeOK, TaskRec
  <2>2. /\ Held(c) = 0 /\ Held(c)' = 1
        /\ s # None => Held(s) = 1 /\ Held(s)' = 0
        /\ \A x \in Conns \ {c, s} : Held(x)' = Held(x)
    BY <1>6, <1>7, <1>11, SessionsAssumption DEF Held, InMap
  <2>3. /\ \A x \in Conns : session_refs[x] = Len(broadcast_tasks[x]) + Held(x)
        /\ \A x \in Conns : broadcast_tasks[x] # <<>> => session[x].state # "NONE"
    BY <1>2 DEF RefInv
  <2>4. \A x \in Conns : Len(broadcast_tasks[x]) \in Nat
    BY <2>1
  <2>5. /\ session_refs' \in [Conns -> Nat] /\ session_refs'[c] = session_refs[c] + 1
        /\ s # None => session_refs'[s] = session_refs[s] - 1
        /\ \A x \in Conns \ {c, s} : session_refs'[x] = session_refs[x]
    <3>1. CASE s = None
      <4>1. session_refs' = [session_refs EXCEPT ![c] = @ + 1]
        BY <1>3, <1>4, <3>1 DEF StartNew, Adjust
      <4> QED BY <2>1, <3>1, <4>1
    <3>2. CASE s # None
      <4>1. session_refs[s] \in Nat \ {0} /\ s \in Conns
        BY <1>7, <2>1, <2>2, <2>3, <2>4, <3>2
      <4>2. session_refs' = [[session_refs EXCEPT ![s] = @ + -1] EXCEPT ![c] = @ + 1]
        BY <1>3, <1>4, <3>2 DEF TakeOver, Adjust, SessionRefsAfterClose, Discarded
      <4>3. PICK refs : refs = [session_refs EXCEPT ![s] = @ + -1]
        OBVIOUS
      <4>4. /\ refs \in [Conns -> Nat] /\ refs[s] = session_refs[s] - 1
            /\ \A x \in Conns \ {s} : refs[x] = session_refs[x]
        BY <2>1, <4>1, <4>3
      <4>5. session_refs' = [refs EXCEPT ![c] = @ + 1]
        BY <4>2, <4>3
      <4> QED BY <1>7, <4>1, <4>4, <4>5
    <3> QED BY <3>1, <3>2
  <2>6. ASSUME NEW x \in Conns PROVE session_refs'[x] = Len(broadcast_tasks'[x]) + Held(x)'
    <3>1. /\ session_refs[x] = Len(broadcast_tasks[x]) + Held(x) /\ Len(broadcast_tasks[x]) \in Nat
          /\ broadcast_tasks'[x] = broadcast_tasks[x]
      BY <1>1, <2>3, <2>4
    <3>2. CASE x = c
      BY <2>2, <2>5, <3>1, <3>2
    <3>3. CASE x = s
      BY <2>2, <2>5, <3>1, <3>3, SessionsAssumption
    <3>4. CASE x # c /\ x # s
      <4>1. Held(x)' = Held(x) /\ session_refs'[x] = session_refs[x]
        BY <2>2, <2>5, <3>4
      <4> QED BY <3>1, <4>1
    <3> QED BY <3>2, <3>3, <3>4
  <2>7. \A x \in Conns : broadcast_tasks'[x] # <<>> => session'[x].state # "NONE"
    BY <1>1, <1>10, <2>3
  <2> QED BY <2>5, <2>6, <2>7 DEF RefInv
<1>23. TypeOK'
  <2>1. requests' \in Seq(Request)
    BY <1>2, Dequeue
  <2>2. responses' \subseteq ResponseRec
    BY <1>2, <1>8, <1>9 DEF TypeOK, ResponseRec
  <2>3. ref_cnt' \in [Conns -> Int]
    <3>1. ref_cnt \in [Conns -> Int]
      BY <1>2 DEF TypeOK
    <3>2. CASE s = None
      <4>1. ref_cnt' = [ref_cnt EXCEPT ![c] = @ + 1]
        BY <1>3, <1>4, <3>2 DEF StartNew, Adjust
      <4> QED BY <3>1, <4>1
    <3>3. CASE s # None
      <4>1. ref_cnt' = [[ref_cnt EXCEPT ![session[s].conn] = @ + -1] EXCEPT ![c] = @ + 1]
        BY <1>3, <1>4, <3>3 DEF TakeOver, Adjust
      <4>2. PICK refs : refs = [ref_cnt EXCEPT ![session[s].conn] = @ + -1]
        OBVIOUS
      <4>3. refs \in [Conns -> Int]
        BY <1>7, <3>1, <3>3, <4>2
      <4>4. ref_cnt' = [refs EXCEPT ![c] = @ + 1]
        BY <4>1, <4>2
      <4> QED BY <4>3, <4>4
    <3> QED BY <3>2, <3>3
  <2> QED BY <1>1, <1>2, <1>10, <1>11, <1>12, <1>22, <2>1, <2>2, <2>3
          DEF TypeOK, ResponseRec, SessionRec
<1> QED BY <1>13, <1>14, <1>15, <1>16, <1>17, <1>18, <1>19, <1>20, <1>21, <1>22, <1>23 DEF IInv

\* The logic thread handles a request.
LEMMA HandleRequestInv ==
  ASSUME IInv, HandleRequest
  PROVE  IInv'
<1> DEFINE req == Head(requests)
           s == sessions[req.client]
<1>1. /\ requests # <<>> /\ requests' = Tail(requests)
      /\ UNCHANGED <<connVars, validating, num_published>>
  BY DEF HandleRequest
<1>2. CASE req.op = "CONNECT" /\ StartSession(req)
  <2>1. IsConnect(req) /\ TypeOK
    BY <1>2 DEF IsConnect, IInv
  <2>2. s \in Conns \cup {None} /\ UNCHANGED <<broadcast_tasks, sending>>
    <3>1. req.client \in Clients
      BY <1>1, <2>1, Dequeue, RequestFields
    <3> QED BY <1>2, <2>1, <3>1 DEF TypeOK, StartSession
  <2>3. CASE Reject(req)
    BY <1>1, <2>1, <2>2, <2>3, RejectInv
  <2>4. CASE ~ InUse(s) /\ s # None /\ TakeOver(req, s)
    BY <1>1, <2>1, <2>2, <2>4, BeginInv DEF InUse
  <2>5. CASE ~ InUse(s) /\ s # None /\ Resume(req, s)
    BY <1>1, <2>1, <2>2, <2>5, ResumeInv DEF InUse
  <2>6. CASE s = None /\ StartNew(req)
    BY <1>1, <2>1, <2>2, <2>6, BeginInv
  <2> QED BY <1>2, <2>3, <2>4, <2>5, <2>6 DEF StartSession
<1>3. CASE IsClose(req) /\ req.session # None /\ HandleClose(req)
  BY <1>1, <1>3, HandleCloseInv
<1>4. CASE req.op \in {"SUBSCRIBE", "UNSUBSCRIBE"} /\ HandleTopicReq(req)
  BY <1>1, <1>4, HandleTopicReqInv DEF IsTopic
<1> QED BY <1>2, <1>3, <1>4 DEF HandleRequest

-----------------------------------------------------------------------------
(* The invariant and what follows from it. *)

\* Every step keeps the inductive invariant.
LEMMA NextInv == IInv /\ [Next]_vars => IInv'
<1> SUFFICES ASSUME IInv, [Next]_vars PROVE IInv'
  OBVIOUS
<1>1. ASSUME NEW c \in Conns, NewConnection(c) PROVE IInv'
  BY <1>1, NewConnectionInv
<1>2. ASSUME NEW c \in Conns, RecvDisconnect(c) PROVE IInv'
  BY <1>2, RecvDisconnectInv
<1>3. ASSUME NEW c \in Conns, Close(c) PROVE IInv'
  BY <1>3, CloseActionInv
<1>4. ASSUME NEW c \in Conns, NEW id \in Clients, NEW will \in BOOLEAN, NEW clean \in Clean[id],
             RecvConnect(c, id, clean, will)
      PROVE  IInv'
  <2>1. clean \in BOOLEAN
    BY SessionsAssumption
  <2> QED BY <1>4, <2>1, RecvConnectInv
<1>5. ASSUME NEW c \in Conns, NEW op \in {"SUBSCRIBE", "UNSUBSCRIBE"}, RecvTopicPacket(c, op)
      PROVE  IInv'
  BY <1>5, RecvTopicPacketInv
<1>6. CASE Publish
  BY <1>6, PublishInv
<1>7. ASSUME NEW req \in validating, NEW valid \in BOOLEAN, ValidatePassword(req, valid) PROVE IInv'
  BY <1>7, ValidatePasswordInv
<1>8. ASSUME NEW resp \in responses, ConnectComplete(resp) PROVE IInv'
  BY <1>8, ConnectCompleteInv
<1>9. ASSUME NEW c \in Conns, SendPacket(c) \/ HandleBroadcast(c) PROVE IInv'
  BY <1>9, SendPacketInv, HandleBroadcastInv
<1>10. CASE HandleRequest
  BY <1>10, HandleRequestInv
<1>11. CASE UNCHANGED vars
  <2>1. UNCHANGED <<tcp, conn_state, upstream, client, left, answered, num_packets, ref_cnt, validating,
                    requests, responses, sending, broadcast_tasks, sessions, session, session_refs,
                    tree, num_published>>
    BY <1>11 DEF vars, connVars, brokerVars
  <2>2. TypeOK'
    BY <2>1 DEF IInv, TypeOK
  <2> QED BY <2>1, <2>2, Frame DEF IInv
<1>12. CASE Environment
  BY <1>1, <1>2, <1>3, <1>4, <1>5, <1>6, <1>12 DEF Environment
<1>13. CASE Validate \/ Complete \/ Sending
  BY <1>7, <1>8, <1>9, <1>13 DEF Validate, Complete, Sending
<1> QED BY <1>10, <1>11, <1>12, <1>13 DEF Next

\* The inductive invariant holds in every reachable state.
THEOREM Invariance == Spec => []IInv
<1>1. Init => IInv
  BY InitInv
<1>2. IInv /\ [Next]_vars => IInv'
  BY NextInv
<1> QED BY <1>1, <1>2, PTL DEF Spec

\* OneEndDue: of the three sets at most one is not empty, and that one has one element.
LEMMA OneEnd == IInv => OneEndDue
<1> SUFFICES ASSUME IInv, NEW s \in Conns
             PROVE  Cardinality({r \in responses : r.session = s})
                      + Cardinality({c \in Conns : /\ tcp[c] = "CONNECTED"
                                                   /\ conn_state[c] = "IN_SESSION"
                                                   /\ upstream[c] = s})
                      + Cardinality(Closes(s))
                    = IF session[s].state = "OPEN" THEN 1 ELSE 0
  BY DEF OneEndDue
<1> DEFINE A == {r \in responses : r.session = s}
           B == {c \in Conns : tcp[c] = "CONNECTED" /\ conn_state[c] = "IN_SESSION" /\ upstream[c] = s}
           D == Closes(s)
<1>1. TypeOK /\ ConnInv /\ PendingInv /\ ResponseInv /\ CloseInv /\ EndInv
  BY DEF IInv
<1>2. D = {i \in DOMAIN requests : Ends(i, s)}
  BY DEF Closes, Ends
<1>3. \A r \in A : /\ session[s].state = "OPEN" /\ session[s].conn = r.conn
                   /\ conn_state[session[s].conn] # "IN_SESSION" /\ A = {r} /\ D = {}
  BY <1>1, <1>2, SessionsAssumption DEF ResponseInv, PendingInv, Waiting, CloseInv
<1>4. \A c \in B : session[s].state = "OPEN" /\ session[s].conn = c /\ B = {c} /\ A = {} /\ D = {}
  BY <1>1, <1>2, <1>3 DEF ConnInv, CloseInv
<1>5. \A i \in D : session[s].state = "OPEN" /\ D = {i} /\ A = {}
  BY <1>1, <1>2 DEF CloseInv
<1>6. /\ A = {} \/ \E r : A = {r}
      /\ B = {} \/ \E c : B = {c}
      /\ D = {} \/ \E i : D = {i}
  BY <1>3, <1>4, <1>5
<1>7. /\ Cardinality(A) = IF A = {} THEN 0 ELSE 1
      /\ Cardinality(B) = IF B = {} THEN 0 ELSE 1
      /\ Cardinality(D) = IF D = {} THEN 0 ELSE 1
  <2> HIDE DEF A, B, D
  <2> QED BY <1>6, FS_EmptySet, FS_Singleton
<1>8. CASE session[s].state = "OPEN"
  <2>1. A # {} \/ B # {} \/ D # {}
    <3>1. CASE \E r \in responses : r.session = s
      BY <3>1
    <3>2. CASE conn_state[session[s].conn] = "IN_SESSION" /\ upstream[session[s].conn] = s
      <4>1. session[s].conn \in Conns
        BY <1>8 DEF IInv, SessionInv
      <4>2. session[s].conn \in B
        BY <1>1, <3>2, <4>1 DEF ConnInv
      <4> QED BY <4>2
    <3>3. CASE \E i \in DOMAIN requests : Ends(i, s)
      BY <1>2, <3>3
    <3> QED BY <1>1, <1>8, <3>1, <3>2, <3>3 DEF EndInv
  <2>2. /\ A # {} => B = {} /\ D = {}
        /\ B # {} => A = {} /\ D = {}
        /\ D # {} => A = {} /\ B = {}
    BY <1>3, <1>4, <1>5
  <2> HIDE DEF A, B, D
  <2>3. Cardinality(A) + Cardinality(B) + Cardinality(D) = 1
    BY <1>7, <2>1, <2>2
  <2> QED BY <1>8, <2>3 DEF A, B, D
<1>9. CASE session[s].state # "OPEN"
  <2>1. A = {} /\ B = {} /\ D = {}
    BY <1>3, <1>4, <1>5, <1>9
  <2> HIDE DEF A, B, D
  <2>2. Cardinality(A) + Cardinality(B) + Cardinality(D) = 0
    BY <1>7, <2>1
  <2> QED BY <1>9, <2>2 DEF A, B, D
<1> QED BY <1>8, <1>9

\* NoDanglingSession: whatever is used is open or in the map or has a task.
LEMMA NoDangling == IInv => NoDanglingSession
<1> SUFFICES ASSUME IInv, NEW s,
                    \/ \E id \in Clients : s = sessions[id] \/ s = tree[id]
                    \/ \E c \in Conns : conn_state[c] = "IN_SESSION" /\ s = upstream[c]
                    \/ \E r \in responses : s = r.session
                    \/ \E i \in DOMAIN requests : IsClose(requests[i]) /\ s = requests[i].session
                    \/ s \in Conns /\ broadcast_tasks[s] # <<>>,
                    s # None
             PROVE  session_refs[s] > 0
  BY DEF NoDanglingSession, Requests
<1>1. TypeOK /\ ConnInv /\ SessionInv /\ ResponseInv /\ CloseInv /\ SubscriptionsAreCurrent /\ RefInv
  BY DEF IInv
<1>2. s \in Conns
  <2>1. CASE \E id \in Clients : s = sessions[id] \/ s = tree[id]
    BY <1>1, <2>1 DEF TypeOK
  <2>2. CASE \E c \in Conns : conn_state[c] = "IN_SESSION" /\ s = upstream[c]
    BY <1>1, <2>2 DEF ConnInv
  <2>3. CASE \E r \in responses : s = r.session
    BY <1>1, <2>3, Fields
  <2>4. CASE \E i \in DOMAIN requests : IsClose(requests[i]) /\ s = requests[i].session
    BY <1>1, <2>4, Fields
  <2> QED BY <2>1, <2>2, <2>3, <2>4
<1>3. InMap(s) \/ broadcast_tasks[s] # <<>>
  <2>1. session[s].state = "OPEN" => InMap(s)
    BY <1>1, <1>2 DEF SessionInv, InMap
  <2>2. CASE \E id \in Clients : s = sessions[id] \/ s = tree[id]
    BY <1>1, <2>2 DEF SubscriptionsAreCurrent, InMap
  <2>3. CASE \E c \in Conns : conn_state[c] = "IN_SESSION" /\ s = upstream[c]
    BY <1>1, <2>1, <2>3 DEF ConnInv
  <2>4. CASE \E r \in responses : s = r.session
    BY <1>1, <2>1, <2>4 DEF ResponseInv
  <2>5. CASE \E i \in DOMAIN requests : IsClose(requests[i]) /\ s = requests[i].session
    BY <1>1, <1>2, <2>1, <2>5 DEF CloseInv, Ends
  <2> QED BY <2>2, <2>3, <2>4, <2>5
<1>4. Len(broadcast_tasks[s]) \in Nat /\ (broadcast_tasks[s] # <<>> => Len(broadcast_tasks[s]) > 0)
  <2>1. broadcast_tasks[s] \in Seq(TaskRec)
    BY <1>1, <1>2 DEF TypeOK, TaskRec
  <2> QED BY <2>1
<1>5. session_refs[s] = Len(broadcast_tasks[s]) + Held(s)
  BY <1>1, <1>2 DEF RefInv
<1>6. Held(s) \in {0, 1} /\ (InMap(s) => Held(s) = 1)
  BY DEF Held
<1> QED BY <1>3, <1>4, <1>5, <1>6

\* WillUnlessDisconnect is a part of CloseInv.
LEMMA WillOnce == IInv => WillUnlessDisconnect
<1> SUFFICES ASSUME IInv, NEW i \in DOMAIN requests, IsClose(requests[i]), requests[i].session # None
             PROVE  requests[i].op = "DISCONNECT" <=> left[session[requests[i].session].conn]
  BY DEF WillUnlessDisconnect, Requests
<1>1. TypeOK /\ CloseInv
  BY DEF IInv
<1>2. PICK s \in Conns : s = requests[i].session
  BY <1>1, Fields
<1> QED BY <1>1, <1>2 DEF CloseInv, Ends

\* Type correctness of connections, requests, answers and sessions; in particular the
\* reference count of a session never goes below zero (mqtt_event.c:30-46).
THEOREM TypeCorrect == Spec => []TypeOK
<1>1. IInv => TypeOK
  BY DEF IInv
<1> QED BY <1>1, Invariance, PTL

\* Every open session has exactly one end due: it is on its way to a connection, or a
\* live connection is in it, or one request closes it (mqtt_io_context.c:19-46, 118-161).
THEOREM EveryOpenSessionEndsOnce == Spec => []OneEndDue
BY OneEnd, Invariance, PTL

\* The will is published unless the client sent a DISCONNECT, however the DISCONNECT,
\* the end of the connection and the start of the session interleave (mqtt_broker.c:216-220).
THEOREM WillOnlyWithoutDisconnect == Spec => []WillUnlessDisconnect
BY WillOnce, Invariance, PTL

\* No session is freed while the map, the tree, a connection, a request, an answer or a
\* broadcast points to it (mqtt_broker.c:76-88, mqtt_io_context.c:172-194).
THEOREM SessionsOutliveTheirUse == Spec => []NoDanglingSession
BY NoDangling, Invariance, PTL

\* The assertion of start_session holds: a closed session in the map is not a
\* clean-session (mqtt_broker.c:125-129).
THEOREM AssertionHolds == Spec => []ClosedIsPersistent
<1>1. IInv => ClosedIsPersistent
  BY DEF IInv, MapInv, ClosedIsPersistent
<1> QED BY <1>1, Invariance, PTL

\* A subscription in the tree belongs to the current session of its client
\* (mqtt_broker.c:76-88).
THEOREM SubscriptionsCurrent == Spec => []SubscriptionsAreCurrent
<1>1. IInv => SubscriptionsAreCurrent
  BY DEF IInv
<1> QED BY <1>1, Invariance, PTL
=============================================================================
