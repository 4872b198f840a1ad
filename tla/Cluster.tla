------------------------------ MODULE Cluster ------------------------------
(***************************************************************************)
(* Brokers that form a cluster (cluster/mqtt_cluster.c, mqtt_discovery.c): *)
(* each registers itself in Redis under a lock with a time-out, is told of *)
(* those that register later, connects to them, and tells the brokers it   *)
(* is connected to which topic filters its clients subscribe to.  A        *)
(* message published at one broker is tunnelled to those that have a route *)
(* for it.                                                                 *)
(*                                                                         *)
(* Threads of a broker: the one that listens to Redis (Discover), the main *)
(* IO thread (NewConn, Receive) and the logic thread (Subscribe,           *)
(* Unsubscribe, ClientPublish, RunTask), joined by new_conn_box and the    *)
(* executor's queue.  message_send_box and the byte stream are one queue   *)
(* per direction.  Filters are single-level topics; Redis is external, and *)
(* a connection to it may fail.                                            *)
(***************************************************************************)
EXTENDS Naturals, Sequences, FiniteSets, SequencesExt

CONSTANTS Nodes, Filters,
          Wanted,        \* Wanted[n]: the filters that clients of n subscribe to
          Fickle,        \* the brokers whose clients unsubscribe again
          Published,     \* Published[n]: the filters that clients of n publish to
          MaxClusterFaults, \* bound: crashes, errors of Redis, time-outs of a lock in use
          MaxTunnelled,  \* bound: messages published
          MaxSubs        \* MaxSubs[n], bound: first subscriptions in one life of n

VARIABLES phase,         \* where tmq_cluster_init is; afterwards "up", or "deaf" if the
                         \* broker hears nothing of Redis
          life,          \* which life of the broker this is
          lock,          \* Redis: the holder of registry_lock
          events,        \* events[n]: registrations Redis has told n of
          incoming,      \* incoming[n]: new_conn_box and the listen backlog
          conns,         \* conns[n]: connections whose handlers are registered
          members,       \* members[n]: the connections in cluster->members
          wire,          \* wire[<<c, n>>]: what is under way to n on c
          exec,          \* exec[n]: the executor's queue
          subs,          \* subs[n]: filters with subscribers at n
          localRoutes,   \* route_table["local"], newest first
          route_table,   \* the other items: <<filter, address>>
          tree,          \* subscribe_members of the topic tree: <<filter, address>>
          newest,        \* newest[n][a]: the filter of the node that pos_in_topic_tree of
                         \* the first item of list a of the route table points to
          got,           \* history: got[n][m]: how often n handed on message m
          cluster_published, \* history: number of messages published
          late,          \* history: <<n, c, f>>: n subscribed f with c a member already
          pruned,        \* history: <<n, f>>: n dropped the node of f
          corrupted,     \* history: a freed node was written to
          disturbed,     \* history: a fault that may leave brokers apart
          cluster_faults \* history: number of faults so far

clusterVars == <<phase, life, lock, events, incoming, conns, members, wire, exec, subs,
                 localRoutes, route_table, tree, newest, got, cluster_published, late,
                 pruned, corrupted, disturbed, cluster_faults>>

Nobody == "nobody"
Gone   == "gone"              \* a holder of the lock that will not release it
Local  == [to |-> "local"]    \* the key of the local routes in the route table
Freed  == "freed"             \* what newest is when the node is freed

ASSUME ClusterAssumption == MaxTunnelled \in Nat /\ Nobody \notin Nodes

\* The connection that n's discovery thread makes to m.
Conn(n, m) == [from |-> n, to |-> m, lives |-> <<life[n], life[m]>>]

\* tmq_tcp_conn_id: the peer's address, its listening port for the side that
\* connected and a port of the kernel's choice for the side that accepted.
Addr(n, c) == IF n = c.from THEN [to |-> c.to] ELSE c

Other(n, c) == IF n = c.from THEN c.to ELSE c.from

\* Both ends still are the processes that made the connection.
Live(c) == phase[c.from] # "off" /\ phase[c.to] # "off"
           /\ c.lives = <<life[c.from], life[c.to]>>

Wire(c, n) == IF <<c, n>> \in DOMAIN wire THEN wire[<<c, n>>] ELSE <<>>

\* tmq_mailbox_push on message_send_box and send_message_handler: msg is sent on
\* each connection c of cs, and is lost when the other end is gone.
SendOn(n, cs, msg) ==
  LET ends == {<<c, Other(n, c)>> : c \in {c \in cs : Live(c)}} IN
  wire' = [x \in DOMAIN wire \cup ends |->
             IF x \in ends THEN Append(Wire(x[1], x[2]), msg) ELSE wire[x]]

RouteSync(filters) == [type |-> "route_sync", filters |-> filters]
TunPublish(f, m)   == [type |-> "tun_publish", filter |-> f, msg |-> m]
-----------------------------------------------------------------------------
ClusterInit ==
  /\ phase = [n \in Nodes |-> "off"] /\ life = [n \in Nodes |-> 1] /\ lock = Nobody
  /\ events = [n \in Nodes |-> <<>>] /\ incoming = [n \in Nodes |-> <<>>]
  /\ conns = [n \in Nodes |-> {}] /\ members = [n \in Nodes |-> {}]
  /\ wire = [x \in {} |-> <<>>] /\ exec = [n \in Nodes |-> <<>>]
  /\ subs = [n \in Nodes |-> {}] /\ localRoutes = [n \in Nodes |-> <<>>]
  /\ route_table = [n \in Nodes |-> {}] /\ tree = [n \in Nodes |-> {}]
  /\ newest = [n \in Nodes |-> [a \in {} |-> Freed]] /\ corrupted = FALSE
  /\ got = [n \in Nodes |-> [m \in 1 .. MaxTunnelled |-> 0]]
  /\ cluster_published = 0 /\ late = {} /\ pruned = {} /\ disturbed = FALSE
  /\ cluster_faults = 0

data == <<subs, localRoutes, route_table, tree, newest, got, cluster_published, late, pruned,
          corrupted>>
net  == <<incoming, conns, members, wire, exec>>

\* tmq_cluster_init up to the lock: the acceptor listens.
Start(n) ==
  /\ phase[n] = "off"
  /\ phase' = [phase EXCEPT ![n] = "locking"]
  /\ UNCHANGED <<life, lock, events, net, data, disturbed, cluster_faults>>

\* Mutant: whoever asks gets the lock.
FreeForAll(n) == TRUE

\* SET NX: the key does not exist.
LockFree(n) == lock = Nobody

\* tmq_redis_lock_acquire, the attempt that succeeds.
Acquire(n) ==
  /\ phase[n] = "locking" /\ LockFree(n)
  /\ lock' = n
  /\ phase' = [phase EXCEPT ![n] = "registering"]
  /\ UNCHANGED <<life, events, net, data, disturbed, cluster_faults>>

Listening(n) == phase[n] \in {"releasing", "up"}

\* tmq_redis_discovery_register: SETEX, of which Redis tells all subscribers.
Register(n) ==
  /\ phase[n] = "registering"
  /\ phase' = [phase EXCEPT ![n] = "listening"]
  /\ events' = [m \in Nodes |-> IF Listening(m) THEN Append(events[m], n) ELSE events[m]]
  /\ UNCHANGED <<life, lock, net, data, disturbed, cluster_faults>>

\* tmq_redis_discovery_listen: PSUBSCRIBE.
Listen(n) ==
  /\ phase[n] = "listening"
  /\ phase' = [phase EXCEPT ![n] = "releasing"]
  /\ UNCHANGED <<life, lock, events, net, data, disturbed, cluster_faults>>

\* tmq_redis_lock_release, if the lock still is its own; an error leaves it to its
\* time-out.  Then the event loop runs.
Release(n) ==
  /\ phase[n] = "releasing"
  /\ phase' = [phase EXCEPT ![n] = "up"]
  /\ lock' \in IF lock = n THEN {Nobody, Gone} ELSE {lock}
  /\ UNCHANGED <<life, events, net, data, disturbed, cluster_faults>>

\* tmq_redis_lock_acquire returns -1, and tmq_cluster_init goes on: the lock is another's,
\* free, or taken by the command whose answer is lost and never released.
AcquireFails(n) ==
  /\ phase[n] = "locking"
  /\ phase' = [phase EXCEPT ![n] = "registering"]
  /\ lock' \in IF LockFree(n) THEN {lock, Gone} ELSE {lock}
  /\ UNCHANGED events

\* SETEX fails, and tmq_redis_discovery_register goes on: nobody is told.
RegisterFails(n) ==
  /\ phase[n] = "registering"
  /\ phase' = [phase EXCEPT ![n] = "listening"]
  /\ UNCHANGED <<lock, events>>

\* PSUBSCRIBE fails: no thread listens.  tmq_cluster_init goes on to release the lock.
ListenFails(n) ==
  /\ phase[n] = "listening"
  /\ phase' = [phase EXCEPT ![n] = "deaf"]
  /\ lock' = IF lock = n THEN Nobody ELSE lock
  /\ UNCHANGED events

\* redisGetReply fails from now on: discovery_listen_routine goes round its loop.
ListenerFails(n) ==
  /\ phase[n] = "up"
  /\ phase' = [phase EXCEPT ![n] = "deaf"]
  /\ events' = [events EXCEPT ![n] = <<>>]
  /\ UNCHANGED lock

\* One of n's connections to Redis fails.
RedisFails(n) ==
  /\ cluster_faults < MaxClusterFaults
  /\ cluster_faults' = cluster_faults + 1
  /\ disturbed' = TRUE
  /\ AcquireFails(n) \/ RegisterFails(n) \/ ListenFails(n) \/ ListenerFails(n)
  /\ UNCHANGED <<life, net, data>>

\* Redis: the key of the lock reaches its lock_ttl.
LockExpires ==
  /\ lock # Nobody
  /\ lock \in Nodes => cluster_faults < MaxClusterFaults
  /\ lock' = Nobody
  /\ disturbed' = (disturbed \/ lock \in Nodes)
  /\ cluster_faults' = IF lock \in Nodes THEN cluster_faults + 1 ELSE cluster_faults
  /\ UNCHANGED <<phase, life, events, net, data>>

\* The process of n ends; its connections end with it, its key of the lock remains.
Stop(n) ==
  /\ phase' = [phase EXCEPT ![n] = "off"]
  /\ life' = [life EXCEPT ![n] = @ + 1]
  /\ lock' = IF lock = n THEN Gone ELSE lock
  /\ events' = [events EXCEPT ![n] = <<>>]
  /\ incoming' = [incoming EXCEPT ![n] = <<>>]
  /\ conns' = [conns EXCEPT ![n] = {}]
  /\ members' = [members EXCEPT ![n] = {}]
  /\ wire' = [x \in {x \in DOMAIN wire : n \notin {x[1].from, x[1].to}} |-> wire[x]]
  /\ exec' = [exec EXCEPT ![n] = <<>>]
  /\ subs' = [subs EXCEPT ![n] = {}]
  /\ localRoutes' = [localRoutes EXCEPT ![n] = <<>>]
  /\ route_table' = [route_table EXCEPT ![n] = {}]
  /\ tree' = [tree EXCEPT ![n] = {}]
  /\ newest' = [newest EXCEPT ![n] = [a \in {} |-> Freed]]
  /\ late' = {x \in late : x[1] # n}
  /\ pruned' = {x \in pruned : x[1] # n}
  /\ UNCHANGED <<got, cluster_published, corrupted>>

\* A crash: it disturbs the cluster when somebody still has to hear of n.
Crash(n) ==
  /\ phase[n] # "off" /\ cluster_faults < MaxClusterFaults
  /\ cluster_faults' = cluster_faults + 1
  /\ disturbed' = (disturbed \/ \E m \in Nodes : n \in Range(events[m]))
  /\ Stop(n)

\* discovery_listen_routine and on_new_member_discovered.
Discover(n) ==
  /\ Listening(n) /\ events[n] # <<>> /\ phase[Head(events[n])] # "off"
  /\ LET c == Conn(n, Head(events[n])) IN
     incoming' = [incoming EXCEPT ![n] = Append(@, c), ![c.to] = Append(@, c)]
  /\ events' = [events EXCEPT ![n] = Tail(@)]
  /\ UNCHANGED <<phase, life, lock, conns, members, wire, exec, data, disturbed, cluster_faults>>

\* on_new_member_discovered: the connection is refused, fatal_error ends the process.
DiscoverFails(n) ==
  /\ Listening(n) /\ events[n] # <<>> /\ phase[Head(events[n])] = "off"
  /\ disturbed' = TRUE
  /\ Stop(n)
  /\ UNCHANGED cluster_faults

\* The event loop and the logic thread run.
Up(n) == phase[n] \in {"up", "deaf"}

\* new_conn_handler, for mails and from on_member_connect.
NewConn(n) ==
  /\ Up(n) /\ incoming[n] # <<>>
  /\ LET c == Head(incoming[n]) IN
     /\ conns' = [conns EXCEPT ![n] = @ \cup {c}]
     /\ exec' = [exec EXCEPT ![n] = Append(@, [op |-> "member_add", conn |-> c])]
  /\ incoming' = [incoming EXCEPT ![n] = Tail(@)]
  /\ UNCHANGED <<phase, life, lock, events, members, wire, data, disturbed, cluster_faults>>

\* Mutant: route operations are posted with a higher priority.
PostFirst(queue, op) == <<op>> \o queue

\* tmq_executor_post with priority 0.
PostLast(queue, op) == Append(queue, op)

\* add_route_message_handler and receive_tunnel_publish_handler.
Receive(n) ==
  \E c \in conns[n] :
    /\ Up(n) /\ Wire(c, n) # <<>>
    /\ LET msg == Head(Wire(c, n)) IN
       exec' = [exec EXCEPT ![n] =
                  IF msg.type = "route_sync"
                  THEN PostLast(@, [op |-> "route_add", addr |-> Addr(n, c),
                                    filters |-> msg.filters])
                  ELSE PostLast(@, [op |-> "publish", filter |-> msg.filter,
                                    msg |-> msg.msg])]
    /\ wire' = [wire EXCEPT ![<<c, n>>] = Tail(@)]
    /\ UNCHANGED <<phase, life, lock, events, incoming, conns, members, data, disturbed,
                   cluster_faults>>
-----------------------------------------------------------------------------
\* The local routes are sent to a new member, if there are any.
SyncRoutes(n, c) ==
  SendOn(n, IF localRoutes[n] = <<>> THEN {} ELSE {c}, RouteSync(localRoutes[n]))

\* handle_cluster_member_operation: tmq_map_put replaces a member of the same address.
MemberAdd(n, c) ==
  /\ members' = [members EXCEPT ![n] = {d \in @ : Addr(n, d) # Addr(n, c)} \cup {c}]
  /\ SyncRoutes(n, c)
  /\ UNCHANGED data

\* route_table_add_item: list a gets a new first item, for the node of f, and the node of
\* the item that was first is written to.  What memory holds once that node was a freed one
\* is left open: the properties say nothing from there on.
AddItem(n, a, f) ==
  /\ newest' = [newest EXCEPT ![n] =
                  [x \in DOMAIN @ \cup {a} |-> IF x = a THEN f ELSE @[x]]]
  /\ corrupted' = (corrupted \/ (a \in DOMAIN newest[n] /\ newest[n][a] = Freed))

\* handle_cluster_route_operation: the table gets every filter of the message, the tree
\* the first one each time (the call passes route_op->topic_filters).
RouteAdd(n, op) ==
  /\ tree' = [tree EXCEPT ![n] = @ \cup {<<Head(op.filters), op.addr>>}]
  /\ route_table' = [route_table EXCEPT ![n] =
                       @ \cup {<<f, op.addr>> : f \in Range(op.filters)}]
  /\ AddItem(n, op.addr, Head(op.filters))
  /\ UNCHANGED <<members, wire, subs, localRoutes, got, cluster_published, late, pruned>>

HandOn(n, f, m) ==
  got' = [got EXCEPT ![n][m] = IF f \in subs[n] THEN @ + 1 ELSE @]

MatchedMembers(n, f) == {x[2] : x \in {x \in tree[n] : x[1] = f}}

\* mqtt_tun_publish.
Tunnel(n, f, m) ==
  SendOn(n, {c \in members[n] : Addr(n, c) \in MatchedMembers(n, f)}, TunPublish(f, m))

\* Mutant: tunnelled messages are tunnelled on.
TunnelOn(n, f, m) == Tunnel(n, f, m)

\* tmq_topics_publish of a tunnelled message: route_on_match is not called.
Tunnelled(n, f, m) == UNCHANGED wire

\* handle_publish_req of a tunnelled message.
PublishTunnelled(n, op) ==
  /\ HandOn(n, op.filter, op.msg)
  /\ Tunnelled(n, op.filter, op.msg)
  /\ UNCHANGED <<members, subs, localRoutes, route_table, tree, newest, cluster_published,
                 late, pruned, corrupted>>

RunTask(n) ==
  /\ exec[n] # <<>>
  /\ exec' = [exec EXCEPT ![n] = Tail(@)]
  /\ LET op == Head(exec[n]) IN
     \/ op.op = "member_add" /\ MemberAdd(n, op.conn)
     \/ op.op = "route_add" /\ RouteAdd(n, op)
     \/ op.op = "publish" /\ PublishTunnelled(n, op)
  /\ UNCHANGED <<phase, life, lock, events, incoming, conns, disturbed, cluster_faults>>

\* handle_topic_req for the first subscriber of a filter: tmq_cluster_add_route.
Subscribe(n, f) ==
  /\ Up(n) /\ f \in Wanted[n] \ subs[n] /\ Len(localRoutes[n]) < MaxSubs[n]
  /\ subs' = [subs EXCEPT ![n] = @ \cup {f}]
  /\ localRoutes' = [localRoutes EXCEPT ![n] = <<f>> \o @]
  /\ AddItem(n, Local, f)
  /\ SendOn(n, members[n], RouteSync(<<f>>))
  /\ late' = late \cup {<<n, c, f>> : c \in members[n]}
  /\ UNCHANGED <<phase, life, lock, events, incoming, conns, members, exec, route_table,
                 tree, got, cluster_published, pruned, disturbed, cluster_faults>>

\* handle_topic_req for the last subscriber of a filter: nobody is told, and the node of
\* the tree is freed with the routes it holds (try_remove_topic); the route table keeps
\* pointing to it.
Unsubscribe(n, f) ==
  /\ n \in Fickle /\ f \in subs[n]
  /\ subs' = [subs EXCEPT ![n] = @ \ {f}]
  /\ tree' = [tree EXCEPT ![n] = {x \in @ : x[1] # f}]
  /\ newest' = [newest EXCEPT ![n] = [a \in DOMAIN @ |-> IF @[a] = f THEN Freed ELSE @[a]]]
  /\ pruned' = pruned \cup {<<n, f>>}
  /\ UNCHANGED <<phase, life, lock, events, net, localRoutes, route_table, got, cluster_published,
                 late, corrupted, disturbed, cluster_faults>>

\* handle_publish_req of a client's message.
ClientPublish(n, f) ==
  /\ Up(n) /\ f \in Published[n] /\ cluster_published < MaxTunnelled
  /\ cluster_published' = cluster_published + 1
  /\ HandOn(n, f, cluster_published + 1)
  /\ Tunnel(n, f, cluster_published + 1)
  /\ UNCHANGED <<phase, life, lock, events, incoming, conns, members, exec, subs,
                 localRoutes, route_table, tree, newest, late, pruned, corrupted, disturbed,
                 cluster_faults>>

ClusterNext ==
  \/ LockExpires
  \/ \E n \in Nodes :
       \/ Start(n) \/ Acquire(n) \/ Register(n) \/ Listen(n) \/ Release(n)
       \/ RedisFails(n) \/ Crash(n)
       \/ Discover(n) \/ DiscoverFails(n) \/ NewConn(n) \/ Receive(n) \/ RunTask(n)
       \/ \E f \in Filters : Subscribe(n, f) \/ Unsubscribe(n, f) \/ ClientPublish(n, f)

ClusterSpec == ClusterInit /\ [][ClusterNext]_clusterVars
-----------------------------------------------------------------------------
\* Everybody has heard and done what there is.
Settled ==
  /\ \A n \in Nodes : events[n] = <<>> /\ incoming[n] = <<>> /\ exec[n] = <<>>
                      /\ phase[n] \in {"off", "up", "deaf"}
  /\ \A x \in DOMAIN wire : wire[x] = <<>>

\* Once all has settled, any two brokers know each other over exactly one connection, and
\* each has in its route table every filter that the other's clients ever subscribed to,
\* and in its topic tree those subscribed while they knew each other and an earlier one if it
\* is the only one (on_new_member_discovered, handle_cluster_member_operation,
\* tmq_cluster_add_route), unless it pruned the filter's node; given that Redis answered,
\* that the lock of discovery held as long as its holder worked, that nobody vanished before
\* it was heard of, and that no freed node was written to.
RoutesSpread ==
  Settled /\ ~disturbed /\ ~corrupted =>
    \A n, m \in {x \in Nodes : phase[x] = "up"} :
      n # m =>
        \E c \in members[n] \cap members[m] :
          /\ Live(c)
          /\ \A d \in members[n] \ {c} : Other(n, d) = m => ~Live(d)
          /\ \A f \in Range(localRoutes[n]) : <<f, Addr(m, c)>> \in route_table[m]
          /\ \A f \in Filters :
               (<<n, c, f>> \in late \/ localRoutes[n] = <<f>>) /\ <<m, f>> \notin pruned
                 => <<f, Addr(m, c)>> \in tree[m]

\* A broker hands a message to its clients at most once: it takes no detours and no second
\* connection between two brokers carries it too (tmq_topics_publish, mqtt_tun_publish).
TunnelledOnce ==
  ~disturbed /\ ~corrupted => \A n \in Nodes, m \in 1 .. MaxTunnelled : got[n][m] <= 1

\* Every address in the topic tree has its connection in members, which mqtt_tun_publish
\* dereferences: the operation that adds the member is run before its first route.
RouteHasMember ==
  ~corrupted =>
    \A n \in Nodes : \A x \in tree[n] : \E c \in members[n] : Addr(n, c) = x[2]
=============================================================================
