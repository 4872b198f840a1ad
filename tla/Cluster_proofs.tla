--------------------------- MODULE Cluster_proofs ---------------------------
(***************************************************************************)
(* Proofs about Cluster, for every set of brokers and filters and for any  *)
(* number of faults, messages and subscriptions: an address in the topic   *)
(* tree has its member (RouteHasMember), a message is handed on at most    *)
(* once at each broker (TunnelledOnce), and once all has settled the       *)
(* brokers know each other and each other's routes (RoutesSpread).         *)
(*                                                                         *)
(* The argument follows a connection from its discovery to both tables of  *)
(* members.  The first theorem rests on the executor's queue being FIFO.   *)
(* The others hold while nothing has disturbed the cluster: then the lock  *)
(* orders the registrations, so that of two brokers exactly one is told of *)
(* the other and there is one connection between them; and since           *)
(* connections and messages overtake each other nowhere, what is sent on   *)
(* it reaches the other side's table.                                      *)
(***************************************************************************)
EXTENDS Cluster, TLAPS, SequenceTheorems

(* The values of the state.                                                *)

Links  == [from : Nodes, to : Nodes, lives : Nat \X Nat]
Addrs  == [to : Nodes] \cup Links
Routes == Seq(Filters) \ {<<>>}

Messages ==
  [type : {"route_sync"}, filters : Routes]
    \cup [type : {"tun_publish"}, filter : Filters, msg : 1 .. MaxTunnelled]

Tasks ==
  [op : {"member_add"}, conn : Links]
    \cup [op : {"route_add"}, addr : Addrs, filters : Routes]
    \cup [op : {"publish"}, filter : Filters, msg : 1 .. MaxTunnelled]

Phases == {"off", "locking", "registering", "listening", "releasing", "up", "deaf"}

NodeType ==
  /\ phase \in [Nodes -> Phases] /\ life \in [Nodes -> Nat]
  /\ events \in [Nodes -> Seq(Nodes)]
  /\ disturbed \in BOOLEAN

LinkType ==
  /\ incoming \in [Nodes -> Seq(Links)]
  /\ conns \in [Nodes -> SUBSET Links] /\ members \in [Nodes -> SUBSET Links]

QueueType ==
  /\ exec \in [Nodes -> Seq(Tasks)]
  /\ \A c \in Links, n \in Nodes : Wire(c, n) \in Seq(Messages)

RouteType ==
  /\ subs \in [Nodes -> SUBSET Filters]
  /\ localRoutes \in [Nodes -> Seq(Filters)]
  /\ route_table \in [Nodes -> SUBSET (Filters \X Addrs)]
  /\ tree \in [Nodes -> SUBSET (Filters \X Addrs)]
  /\ late \subseteq Nodes \X Links \X Filters
  /\ pruned \subseteq Nodes \X Filters

HistoryType ==
  /\ got \in [Nodes -> [1 .. MaxTunnelled -> Nat]]
  /\ cluster_published \in Nat

ClusterType == NodeType /\ LinkType /\ QueueType /\ RouteType /\ HistoryType
-----------------------------------------------------------------------------
(* The members and their routes.                                           *)

IsMemberAdd(t) == t.op = "member_add"
IsRouteAdd(t)  == t.op = "route_add"
IsPublish(t)   == t.op = "publish"

\* Task i of n adds the connection c.
Adds(n, i, c) == IsMemberAdd(exec[n][i]) /\ exec[n][i].conn = c

\* A connection of address a is a member, or becomes one in the next k tasks.
Announced(n, a, k) ==
  \/ \E c \in members[n] : Addr(n, c) = a
  \/ \E i \in 1 .. k : IsMemberAdd(exec[n][i]) /\ Addr(n, exec[n][i].conn) = a

\* A route is added behind its member, and a connection is read from behind it too.
RoutesBehind ==
  \A n \in Nodes : \A i \in DOMAIN exec[n] :
    IsRouteAdd(exec[n][i]) => Announced(n, exec[n][i].addr, i - 1)
ReadsBehind ==
  \A n \in Nodes : \A c \in conns[n] : Announced(n, Addr(n, c), Len(exec[n]))

\* What RouteHasMember says.
MemberOfRoute == \A n \in Nodes : \A x \in tree[n] : \E c \in members[n] : Addr(n, c) = x[2]

MemberInv == MemberOfRoute /\ RoutesBehind /\ ReadsBehind
-----------------------------------------------------------------------------
(* The connections of an undisturbed cluster.                              *)

Critical(n)   == phase[n] \in {"registering", "listening", "releasing"}
Registered(n) == phase[n] \in {"listening", "releasing", "up"}

\* The connection c waits in the executor's queue of n to become a member.
Waits(n, c) == \E i \in DOMAIN exec[n] : Adds(n, i, c)

\* c is a member of n or on its way to become one.
Held(n, c) == c \in Range(incoming[n]) \/ Waits(n, c) \/ c \in members[n]

Seen(c) == (\E n \in Nodes : Held(n, c)) \/ (\E n \in Nodes, f \in Filters : <<n, c, f>> \in late)

Current(c) == c.lives = <<life[c.from], life[c.to]>>

\* n has been told of m, or has connected to it.
Made(n, m) == m \in Range(events[n]) \/ Held(n, Conn(n, m))

\* Who registers or starts to listen has the lock.
LockInv == \A n \in Nodes : Critical(n) => lock = n

\* Who is told of a broker listens, and the broker has registered.
EventInv == \A n, m \in Nodes : m \in Range(events[n]) => Listening(n) /\ Registered(m) /\ n # m

\* A connection is held by its ends, belongs to this or earlier lives of them, and if to
\* this, both ends hold it.
EndsInv == \A n \in Nodes : \A c \in Links : Held(n, c) => n \in {c.from, c.to}
LifeInv ==
  \A c \in Links : Seen(c) =>
    /\ c.from # c.to /\ c.lives[1] <= life[c.from] /\ c.lives[2] <= life[c.to]
    /\ Current(c) => /\ Listening(c.from) /\ Registered(c.to)
                     /\ Held(c.from, c) /\ Held(c.to, c)

\* Of two brokers that have registered and listen exactly one connects to the other.
OneWay  == \A n, m \in Nodes : ~(Made(n, m) /\ Made(m, n))
Meeting == \A n, m \in Nodes :
             n # m /\ Listening(n) /\ Registered(m) => Made(n, m) \/ Made(m, n)

\* No earlier connection of n comes behind the current one to the same broker, so that
\* none ever replaces it.
Same(c, d) == c.from = d.from /\ c.to = d.to => c = d
AgeOf(n, d) ==
  /\ d \in members[n] =>
       \A c \in Links : Waits(n, c) \/ c \in Range(incoming[n]) => Same(c, d)
  /\ \A i, j \in DOMAIN exec[n] : \A c \in Links :
       i < j /\ Adds(n, i, d) /\ Adds(n, j, c) => Same(c, d)
  /\ Waits(n, d) => \A c \in Range(incoming[n]) : Same(c, d)
  /\ \A i, j \in DOMAIN incoming[n] : i < j /\ incoming[n][i] = d => Same(incoming[n][j], d)
AgeInv == \A n \in Nodes : \A d \in Links : d.from = n /\ Current(d) => AgeOf(n, d)

LinkInv == LockInv /\ EventInv /\ EndsInv /\ LifeInv /\ OneWay /\ Meeting /\ AgeInv
-----------------------------------------------------------------------------
(* The routes of an undisturbed cluster.                                   *)

\* A message or a task with the route f, and one with f in the first place.
Syncs(msg, f)       == msg.type = "route_sync" /\ f \in Range(msg.filters)
SyncsFirst(msg, f)  == msg.type = "route_sync" /\ f = Head(msg.filters)
Routed(t, a, f)     == IsRouteAdd(t) /\ t.addr = a /\ f \in Range(t.filters)
RoutedFirst(t, a, f) == IsRouteAdd(t) /\ t.addr = a /\ f = Head(t.filters)

\* The route f is on its way to m on c, or in its table.
Told(m, c, f) ==
  \/ \E msg \in Range(Wire(c, m)) : Syncs(msg, f)
  \/ \E t \in Range(exec[m]) : Routed(t, Addr(m, c), f)
  \/ <<f, Addr(m, c)>> \in route_table[m]

\* The same for the topic tree of m, from which the filter may have been pruned.
ToldFirst(m, c, f) ==
  \/ \E msg \in Range(Wire(c, m)) : SyncsFirst(msg, f)
  \/ \E t \in Range(exec[m]) : RoutedFirst(t, Addr(m, c), f)
  \/ <<f, Addr(m, c)>> \in tree[m]
  \/ <<m, f>> \in pruned

\* A current member has been told all routes, and those it was told one by one first.
ToldInv ==
  \A n \in Nodes : \A c \in members[n] : Current(c) =>
    \A f \in Range(localRoutes[n]) : Told(Other(n, c), c, f)
FirstInv ==
  \A n \in Nodes : \A c \in members[n] : Current(c) =>
    \A f \in Filters : <<n, c, f>> \in late \/ localRoutes[n] = <<f>> => ToldFirst(Other(n, c), c, f)
LateInv ==
  \A n \in Nodes : \A c \in Links : \A f \in Filters :
    <<n, c, f>> \in late /\ Current(c) => c \in members[n]

SpreadInv == ToldInv /\ FirstInv /\ LateInv
-----------------------------------------------------------------------------
(* The messages of an undisturbed cluster.                                 *)

Carries(msg, x)   == msg.type = "tun_publish" /\ msg.msg = x
HandsOn(t, x)     == IsPublish(t) /\ t.msg = x

\* A message under way to n on c, and one n has still to hand on.
UnderWay(n, c, i, x) == i \in DOMAIN Wire(c, n) /\ Carries(Wire(c, n)[i], x)
ToDo(n, i, x)        == i \in DOMAIN exec[n] /\ HandsOn(exec[n][i], x)

\* A message comes to a broker on one way, once, and only after it was published.
WireOnce == \A n \in Nodes : \A c, d \in Links : \A i, j, x \in Nat :
  UnderWay(n, c, i, x) /\ UnderWay(n, d, j, x) => c = d /\ i = j
TaskOnce == \A n \in Nodes : \A i, j, x \in Nat : ToDo(n, i, x) /\ ToDo(n, j, x) => i = j
OnePlace == \A n \in Nodes : \A c \in Links : \A i, j, x \in Nat :
  ~(UnderWay(n, c, i, x) /\ ToDo(n, j, x))
GotOnce == \A n \in Nodes : \A x \in 1 .. MaxTunnelled :
  /\ got[n][x] <= 1
  /\ got[n][x] = 1 => (\A c \in Links : \A i \in Nat : ~UnderWay(n, c, i, x))
                      /\ (\A i \in Nat : ~ToDo(n, i, x))
OldOnly == \A n \in Nodes :
  /\ \A c \in Links : \A i, x \in Nat : UnderWay(n, c, i, x) => x <= cluster_published
  /\ \A i, x \in Nat : ToDo(n, i, x) => x <= cluster_published
  /\ \A x \in 1 .. MaxTunnelled : got[n][x] > 0 => x <= cluster_published

OnceInv == WireOnce /\ TaskOnce /\ OnePlace /\ GotOnce /\ OldOnly

ClusterInv ==
  /\ ClusterType /\ MemberInv
  /\ ~disturbed => LinkInv /\ SpreadInv /\ OnceInv
-----------------------------------------------------------------------------
(* Facts about the values.                                                 *)

\* What a task and a message hold.
LEMMA TaskFields ==
  ASSUME NEW t \in Tasks
  PROVE  /\ IsMemberAdd(t) => t.conn \in Links
         /\ IsRouteAdd(t) => t.addr \in Addrs /\ t.filters \in Routes
         /\ IsPublish(t) => t.filter \in Filters /\ t.msg \in 1 .. MaxTunnelled
         /\ IsMemberAdd(t) \/ IsRouteAdd(t) \/ IsPublish(t)
BY DEF Tasks, IsMemberAdd, IsRouteAdd, IsPublish

LEMMA MessageFields ==
  ASSUME NEW msg \in Messages
  PROVE  /\ msg.type = "route_sync" => msg.filters \in Routes
         /\ msg.type # "route_sync" => /\ msg.type = "tun_publish" /\ msg.filter \in Filters
                                       /\ msg.msg \in 1 .. MaxTunnelled
BY DEF Messages

\* The first filter of a message.
LEMMA FirstRoute ==
  ASSUME NEW r \in Routes
  PROVE  Head(r) \in Filters /\ Head(r) \in Range(r) /\ Range(r) \subseteq Filters
<1>1. r \in Seq(Filters) /\ r # <<>>
  BY DEF Routes
<1>2. Len(r) \in Nat \ {0} /\ DOMAIN r = 1 .. Len(r) /\ Head(r) = r[1]
  BY <1>1
<1>3. 1 \in DOMAIN r
  BY <1>2
<1>4. \A i \in DOMAIN r : r[i] \in Filters
  BY <1>1
<1> QED BY <1>2, <1>3, <1>4 DEF Range

\* A connection has an address and another end.
LEMMA AddrType ==
  ASSUME NEW n \in Nodes, NEW c \in Links
  PROVE  Addr(n, c) \in Addrs /\ Other(n, c) \in Nodes
BY DEF Addr, Other, Addrs, Links

\* The address tells connections apart, but for those n has made to one broker.
LEMMA AddrInjective ==
  ASSUME NEW n \in Nodes, NEW c \in Links, NEW d \in Links, Addr(n, c) = Addr(n, d)
  PROVE  c = d \/ (c.from = n /\ d.from = n /\ c.to = d.to)
<1>1. \A e \in Links : "from" \in DOMAIN e
  BY DEF Links
<1>2. \A m : "from" \notin DOMAIN [to |-> m]
  OBVIOUS
<1>3. CASE c.from = n /\ d.from = n
  <2>1. [to |-> c.to] = [to |-> d.to]
    BY <1>3 DEF Addr
  <2>2. [to |-> c.to].to = c.to /\ [to |-> d.to].to = d.to
    OBVIOUS
  <2> QED BY <1>3, <2>1, <2>2
<1>4. CASE c.from = n /\ d.from # n
  <2>1. [to |-> c.to] = d
    BY <1>4 DEF Addr
  <2> QED BY <1>1, <1>2, <2>1, Zenon
<1>5. CASE c.from # n /\ d.from = n
  <2>1. c = [to |-> d.to]
    BY <1>5 DEF Addr
  <2> QED BY <1>1, <1>2, <2>1, Zenon
<1>6. CASE c.from # n /\ d.from # n
  BY <1>6 DEF Addr
<1> QED BY <1>3, <1>4, <1>5, <1>6

\* Two connections of the same lives of the same brokers.
LEMMA LinkEquality ==
  ASSUME NEW c \in Links, NEW d \in Links, c.from = d.from, c.to = d.to, c.lives = d.lives
  PROVE  c = d
BY DEF Links

\* The connection that a broker makes now.
LEMMA ConnFacts ==
  ASSUME life \in [Nodes -> Nat], NEW n \in Nodes, NEW m \in Nodes
  PROVE  /\ Conn(n, m) \in Links /\ Conn(n, m).from = n /\ Conn(n, m).to = m
         /\ Current(Conn(n, m))
         /\ \A c \in Links : c.from = n /\ c.to = m /\ Current(c) => c = Conn(n, m)
<1> DEFINE e == [from |-> n, to |-> m, lives |-> <<life[n], life[m]>>]
<1>1. e \in Links /\ e.from = n /\ e.to = m /\ e.lives = <<life[n], life[m]>>
  BY DEF Links
<1>2. Conn(n, m) = e
  BY DEF Conn
<1> HIDE DEF e
<1>3. Current(e)
  BY <1>1 DEF Current
<1>4. ASSUME NEW c \in Links, c.from = n, c.to = m, Current(c) PROVE c = e
  <2>1. c.lives = e.lives
    BY <1>1, <1>4 DEF Current
  <2> QED BY <1>1, <1>4, <2>1, LinkEquality
<1> QED BY <1>1, <1>2, <1>3, <1>4
-----------------------------------------------------------------------------
(* Queues.                                                                 *)

\* Appending to a queue and taking its head.
LEMMA Appended ==
  ASSUME NEW S, NEW q \in Seq(S), NEW x \in S
  PROVE  /\ Append(q, x) \in Seq(S) /\ Len(Append(q, x)) = Len(q) + 1
         /\ DOMAIN Append(q, x) = 1 .. Len(q) + 1 /\ DOMAIN q = 1 .. Len(q) /\ Len(q) \in Nat
         /\ \A i \in 1 .. Len(q) : Append(q, x)[i] = q[i]
         /\ Append(q, x)[Len(q) + 1] = x
OBVIOUS

LEMMA Shortened ==
  ASSUME NEW S, NEW q \in Seq(S), q # <<>>
  PROVE  /\ Tail(q) \in Seq(S) /\ Len(Tail(q)) = Len(q) - 1 /\ Len(q) \in Nat \ {0}
         /\ DOMAIN Tail(q) = 1 .. Len(q) - 1 /\ DOMAIN q = 1 .. Len(q)
         /\ \A i \in 1 .. Len(q) - 1 : Tail(q)[i] = q[i + 1]
         /\ Head(q) = q[1] /\ q[1] \in S
OBVIOUS

\* The elements of a queue.
LEMMA RangeFacts ==
  ASSUME NEW S, NEW q \in Seq(S)
  PROVE  /\ Range(q) \subseteq S
         /\ \A x \in S : Range(Append(q, x)) = Range(q) \cup {x}
         /\ q # <<>> => Range(Tail(q)) \subseteq Range(q) /\ Head(q) \in Range(q)
                        /\ Range(q) = {Head(q)} \cup Range(Tail(q))
<1>1. Len(q) \in Nat /\ DOMAIN q = 1 .. Len(q)
  OBVIOUS
<1>2. Range(q) \subseteq S
  BY DEF Range
<1>3. ASSUME NEW x \in S PROVE Range(Append(q, x)) = Range(q) \cup {x}
  <2>1. ASSUME NEW y \in Range(Append(q, x)) PROVE y \in Range(q) \cup {x}
    <3>1. PICK i \in 1 .. Len(q) + 1 : Append(q, x)[i] = y
      BY <2>1, Appended DEF Range
    <3>2. i \in 1 .. Len(q) \/ i = Len(q) + 1
      BY <1>1
    <3> QED BY <3>1, <3>2, Appended DEF Range
  <2>2. Range(q) \subseteq Range(Append(q, x))
    <3> SUFFICES ASSUME NEW y \in Range(q) PROVE y \in Range(Append(q, x))
      OBVIOUS
    <3>1. PICK i \in 1 .. Len(q) : q[i] = y
      BY <1>1 DEF Range
    <3>2. i \in 1 .. Len(q) + 1
      BY <1>1
    <3> QED BY <3>1, <3>2, Appended DEF Range
  <2>3. x \in Range(Append(q, x))
    <3>1. Len(q) + 1 \in 1 .. Len(q) + 1
      BY <1>1
    <3> QED BY <3>1, Appended DEF Range
  <2> QED BY <2>1, <2>2, <2>3
<1>4. ASSUME q # <<>> PROVE Range(q) = {Head(q)} \cup Range(Tail(q))
  <2>1. ASSUME NEW y \in Range(q) PROVE y \in {Head(q)} \cup Range(Tail(q))
    <3>1. PICK i \in 1 .. Len(q) : q[i] = y
      BY <1>1, <2>1 DEF Range
    <3>2. CASE i = 1
      BY <1>4, <3>1, <3>2, Shortened
    <3>3. CASE i # 1
      <4>1. i - 1 \in 1 .. Len(q) - 1 /\ (i - 1) + 1 = i
        BY <1>1, <3>3
      <4>2. Tail(q)[i - 1] = q[i] /\ i - 1 \in DOMAIN Tail(q)
        BY <1>4, <4>1, Shortened
      <4> QED BY <3>1, <4>2 DEF Range
    <3> QED BY <3>2, <3>3
  <2>2. ASSUME NEW y \in Range(Tail(q)) PROVE y \in Range(q)
    <3>1. PICK i \in 1 .. Len(q) - 1 : Tail(q)[i] = y
      BY <1>4, <2>2, Shortened DEF Range
    <3>2. i + 1 \in 1 .. Len(q) /\ q[i + 1] = y
      BY <1>1, <1>4, <3>1, Shortened
    <3> QED BY <1>1, <3>2 DEF Range
  <2>3. Head(q) \in Range(q)
    <3>1. 1 \in 1 .. Len(q) /\ Head(q) = q[1]
      BY <1>1, <1>4, Shortened
    <3> QED BY <1>1, <3>1 DEF Range
  <2> QED BY <2>1, <2>2, <2>3
<1> QED BY <1>2, <1>3, <1>4
-----------------------------------------------------------------------------
(* What the actions do to the wires.                                       *)

LEMMA SentOn ==
  ASSUME NEW n \in Nodes, NEW cs \in SUBSET Links, NEW msg, SendOn(n, cs, msg),
         NEW c \in Links, NEW m \in Nodes
  PROVE  /\ c \in cs /\ Live(c) /\ m = Other(n, c) => Wire(c, m)' = Append(Wire(c, m), msg)
         /\ ~(c \in cs /\ Live(c) /\ m = Other(n, c)) => Wire(c, m)' = Wire(c, m)
<1> DEFINE ends == {<<d, Other(n, d)>> : d \in {d \in cs : Live(d)}}
<1>1. wire' = [x \in DOMAIN wire \cup ends |->
                 IF x \in ends THEN Append(Wire(x[1], x[2]), msg) ELSE wire[x]]
  BY DEF SendOn
<1>2. <<c, m>> \in ends <=> c \in cs /\ Live(c) /\ m = Other(n, c)
  <2>1. ASSUME <<c, m>> \in ends PROVE c \in cs /\ Live(c) /\ m = Other(n, c)
    <3>1. PICK d \in cs : Live(d) /\ <<c, m>> = <<d, Other(n, d)>>
      BY <2>1
    <3>2. c = d /\ m = Other(n, d)
      BY <3>1
    <3> QED BY <3>1, <3>2
  <2>2. ASSUME c \in cs, Live(c), m = Other(n, c) PROVE <<c, m>> \in ends
    BY <2>2
  <2> QED BY <2>1, <2>2
<1> HIDE DEF ends
<1>3. <<c, m>>[1] = c /\ <<c, m>>[2] = m
  OBVIOUS
<1>4. ASSUME <<c, m>> \in ends PROVE Wire(c, m)' = Append(Wire(c, m), msg)
  <2>1. <<c, m>> \in DOMAIN wire' /\ wire'[<<c, m>>] = Append(Wire(<<c, m>>[1], <<c, m>>[2]), msg)
    BY <1>1, <1>4
  <2> QED BY <1>3, <2>1 DEF Wire
<1>5. ASSUME <<c, m>> \notin ends PROVE Wire(c, m)' = Wire(c, m)
  <2>1. <<c, m>> \in DOMAIN wire' <=> <<c, m>> \in DOMAIN wire
    BY <1>1, <1>5
  <2>2. <<c, m>> \in DOMAIN wire => wire'[<<c, m>>] = wire[<<c, m>>]
    BY <1>1, <1>5
  <2> QED BY <2>1, <2>2 DEF Wire
<1> QED BY <1>2, <1>4, <1>5

LEMMA Stopped ==
  ASSUME NEW n \in Nodes, Stop(n), NEW c \in Links, NEW m \in Nodes
  PROVE  /\ n \in {c.from, c.to} => Wire(c, m)' = <<>>
         /\ n \notin {c.from, c.to} => Wire(c, m)' = Wire(c, m)
<1>1. wire' = [x \in {x \in DOMAIN wire : n \notin {x[1].from, x[1].to}} |-> wire[x]]
  BY DEF Stop
<1>2. <<c, m>>[1] = c
  OBVIOUS
<1>3. <<c, m>> \in DOMAIN wire' <=> <<c, m>> \in DOMAIN wire /\ n \notin {c.from, c.to}
  BY <1>1, <1>2
<1>4. <<c, m>> \in DOMAIN wire' => wire'[<<c, m>>] = wire[<<c, m>>]
  BY <1>1
<1> QED BY <1>3, <1>4 DEF Wire

\* The connection a broker reads from, and what it does with the message.
Task(n, c, msg) ==
  IF msg.type = "route_sync"
  THEN [op |-> "route_add", addr |-> Addr(n, c), filters |-> msg.filters]
  ELSE [op |-> "publish", filter |-> msg.filter, msg |-> msg.msg]

ReceiveOn(n, c) ==
  /\ c \in conns[n] /\ Up(n) /\ Wire(c, n) # <<>>
  /\ exec' = [exec EXCEPT ![n] = Append(@, Task(n, c, Head(Wire(c, n))))]
  /\ wire' = [wire EXCEPT ![<<c, n>>] = Tail(@)]
  /\ UNCHANGED <<phase, life, lock, events, incoming, conns, members, data, disturbed, cluster_faults>>

LEMMA ReceiveIs ==
  ASSUME NEW n \in Nodes, Receive(n)
  PROVE  \E c \in conns[n] : ReceiveOn(n, c)
<1>1. PICK c \in conns[n] :
    /\ Up(n) /\ Wire(c, n) # <<>>
    /\ LET msg == Head(Wire(c, n)) IN
       exec' = [exec EXCEPT ![n] =
                  IF msg.type = "route_sync"
                  THEN PostLast(@, [op |-> "route_add", addr |-> Addr(n, c),
                                    filters |-> msg.filters])
                  ELSE PostLast(@, [op |-> "publish", filter |-> msg.filter,
                                    msg |-> msg.msg])]
    /\ wire' = [wire EXCEPT ![<<c, n>>] = Tail(@)]
    /\ UNCHANGED <<phase, life, lock, events, incoming, conns, members, data, disturbed,
                   cluster_faults>>
  BY DEF Receive
<1>2. exec' = [exec EXCEPT ![n] = Append(@, Task(n, c, Head(Wire(c, n))))]
  BY <1>1 DEF PostLast, Task
<1> QED BY <1>1, <1>2 DEF ReceiveOn

LEMMA ReceivedOn ==
  ASSUME NEW n \in Nodes, NEW c \in Links, ReceiveOn(n, c), NEW d \in Links, NEW m \in Nodes
  PROVE  /\ d = c /\ m = n => Wire(d, m)' = Tail(Wire(d, m))
         /\ ~(d = c /\ m = n) => Wire(d, m)' = Wire(d, m)
<1>1. wire' = [wire EXCEPT ![<<c, n>>] = Tail(@)] /\ Wire(c, n) # <<>>
  BY DEF ReceiveOn
<1>2. <<c, n>> \in DOMAIN wire
  BY <1>1 DEF Wire
<1>3. DOMAIN wire' = DOMAIN wire
  BY <1>1
<1>4. CASE d = c /\ m = n
  <2>1. wire'[<<c, n>>] = Tail(wire[<<c, n>>])
    BY <1>1, <1>2
  <2> QED BY <1>2, <1>3, <1>4, <2>1 DEF Wire
<1>5. CASE ~(d = c /\ m = n)
  <2>1. <<d, m>> # <<c, n>>
    BY <1>5
  <2>2. <<d, m>> \in DOMAIN wire => wire'[<<d, m>>] = wire[<<d, m>>]
    BY <1>1, <2>1
  <2> QED BY <1>3, <1>5, <2>2 DEF Wire
<1> QED BY <1>4, <1>5

\* A wire that is left alone.
LEMMA SameWires ==
  ASSUME wire' = wire, NEW c, NEW m
  PROVE  Wire(c, m)' = Wire(c, m)
BY DEF Wire
-----------------------------------------------------------------------------
(* Type correctness.                                                       *)

LEMMA TypeInit ==
  ASSUME ClusterInit
  PROVE  ClusterType
<1>1. NodeType
  <2>1. phase \in [Nodes -> Phases] /\ life \in [Nodes -> Nat]
    BY DEF ClusterInit, Phases
  <2>2. events \in [Nodes -> Seq(Nodes)]
    BY DEF ClusterInit
  <2>3. disturbed \in BOOLEAN
    BY DEF ClusterInit
  <2> QED BY <2>1, <2>2, <2>3 DEF NodeType
<1>5. LinkType
  BY DEF ClusterInit, LinkType
<1>3. RouteType
  BY DEF ClusterInit, RouteType
<1>4. HistoryType
  BY DEF ClusterInit, HistoryType
<1>2. QueueType
  <2>1. \A c \in Links, n \in Nodes : Wire(c, n) = <<>>
    BY DEF ClusterInit, Wire
  <2>2. exec \in [Nodes -> Seq(Tasks)]
    BY DEF ClusterInit
  <2>3. <<>> \in Seq(Messages)
    OBVIOUS
  <2> QED BY <2>1, <2>2, <2>3, Zenon DEF QueueType
<1> QED BY <1>1, <1>2, <1>3, <1>4, <1>5 DEF ClusterType

\* The steps of registration leave the connections and the data alone.
Registers    == \E n \in Nodes : Register(n)
Quiet        == LockExpires \/ \E n \in Nodes : Start(n) \/ Acquire(n) \/ Listen(n) \/ Release(n)
Registration == Registers \/ Quiet

LEMMA RegistrationType ==
  ASSUME ClusterType, Registration
  PROVE  ClusterType'
<1>1. UNCHANGED <<life, net, data>>
  BY DEF Registration, Registers, Quiet, LockExpires, Start, Acquire, Register, Listen, Release
<1>2. phase' \in [Nodes -> Phases]
  BY DEF ClusterType, NodeType, Phases, Registration, Registers, Quiet,
     LockExpires, Start, Acquire, Register, Listen, Release
<1>3. events' \in [Nodes -> Seq(Nodes)]
  <2>1. events \in [Nodes -> Seq(Nodes)]
    BY DEF ClusterType, NodeType
  <2>2. CASE Registers
    <3> PICK n \in Nodes : Register(n)
      BY <2>2 DEF Registers
    <3>1. events' = [m \in Nodes |-> IF Listening(m) THEN Append(events[m], n) ELSE events[m]]
      BY DEF Register
    <3>2. \A m \in Nodes : Append(events[m], n) \in Seq(Nodes)
      BY <2>1
    <3> QED BY <2>1, <3>1, <3>2
  <2>3. CASE Quiet
    <3>1. events' = events
      BY <2>3 DEF Quiet, LockExpires, Start, Acquire, Listen, Release
    <3> QED BY <2>1, <3>1
  <2> QED BY <2>2, <2>3 DEF Registration
<1>4. disturbed' \in BOOLEAN
  BY DEF ClusterType, NodeType, Registration, Registers, Quiet,
     LockExpires, Start, Acquire, Register, Listen, Release
<1>5. NodeType'
  BY <1>1, <1>2, <1>3, <1>4 DEF ClusterType, NodeType
<1>6. LinkType' /\ RouteType' /\ HistoryType'
  BY <1>1 DEF ClusterType, LinkType, RouteType, HistoryType, net, data
<1>7. QueueType'
  <2>1. exec' = exec /\ wire' = wire
    BY <1>1 DEF net
  <2>2. \A c \in Links, m \in Nodes : Wire(c, m)' = Wire(c, m)
    BY <2>1, SameWires
  <2> QED BY <2>1, <2>2 DEF ClusterType, QueueType
<1> QED BY <1>5, <1>6, <1>7 DEF ClusterType

LEMMA StopType ==
  ASSUME ClusterType, NEW n \in Nodes, Stop(n), disturbed' \in BOOLEAN
  PROVE  ClusterType'
<1>1. NodeType'
  BY DEF Stop, ClusterType, NodeType, Phases
<1>2. LinkType'
  BY DEF Stop, ClusterType, LinkType
<1>3. RouteType'
  BY DEF Stop, ClusterType, RouteType
<1>4. HistoryType'
  BY DEF Stop, ClusterType, HistoryType
<1>5. QueueType'
  <2>1. exec' \in [Nodes -> Seq(Tasks)]
    BY DEF Stop, ClusterType, QueueType
  <2>2. \A c \in Links, m \in Nodes : Wire(c, m)' \in Seq(Messages)
    <3> SUFFICES ASSUME NEW c \in Links, NEW m \in Nodes PROVE Wire(c, m)' \in Seq(Messages)
      OBVIOUS
    <3>1. Wire(c, m) \in Seq(Messages) /\ <<>> \in Seq(Messages)
      BY DEF ClusterType, QueueType
    <3>2. Wire(c, m)' = <<>> \/ Wire(c, m)' = Wire(c, m)
      BY Stopped
    <3> QED BY <3>1, <3>2
  <2> QED BY <2>1, <2>2 DEF QueueType
<1> QED BY <1>1, <1>2, <1>3, <1>4, <1>5 DEF ClusterType

LEMMA FaultType ==
  ASSUME ClusterType, NEW n \in Nodes, Crash(n) \/ DiscoverFails(n)
  PROVE  ClusterType'
<1>1. Stop(n)
  BY DEF Crash, DiscoverFails
<1>2. disturbed' \in BOOLEAN
  BY DEF Crash, DiscoverFails, ClusterType, NodeType
<1> QED BY <1>1, <1>2, StopType

\* An error of Redis.
LEMMA RedisType ==
  ASSUME ClusterType, NEW n \in Nodes, RedisFails(n)
  PROVE  ClusterType'
<1>1. UNCHANGED <<life, net, data>> /\ disturbed' = TRUE
  BY DEF RedisFails
<1>2. phase' \in [Nodes -> Phases] /\ events' \in [Nodes -> Seq(Nodes)]
  <2>1. phase \in [Nodes -> Phases] /\ events \in [Nodes -> Seq(Nodes)]
    BY DEF ClusterType, NodeType
  <2>2. CASE AcquireFails(n)
    BY <2>1, <2>2 DEF AcquireFails, Phases
  <2>3. CASE RegisterFails(n)
    BY <2>1, <2>3 DEF RegisterFails, Phases
  <2>4. CASE ListenFails(n)
    BY <2>1, <2>4 DEF ListenFails, Phases
  <2>5. CASE ListenerFails(n)
    BY <2>1, <2>5 DEF ListenerFails, Phases
  <2> QED BY <2>2, <2>3, <2>4, <2>5 DEF RedisFails
<1>3. NodeType'
  BY <1>1, <1>2 DEF ClusterType, NodeType
<1>4. LinkType' /\ RouteType' /\ HistoryType'
  BY <1>1 DEF ClusterType, LinkType, RouteType, HistoryType, net, data
<1>5. QueueType'
  <2>1. exec' = exec /\ wire' = wire
    BY <1>1 DEF net
  <2>2. \A c \in Links, m \in Nodes : Wire(c, m)' = Wire(c, m)
    BY <2>1, SameWires
  <2> QED BY <2>1, <2>2 DEF ClusterType, QueueType
<1> QED BY <1>3, <1>4, <1>5 DEF ClusterType

\* The queues, when nothing is sent and one task is posted at most.
LEMMA QueueStep ==
  ASSUME QueueType, NEW n \in Nodes, wire' = wire,
         \/ exec' = exec
         \/ \E t \in Tasks : exec' = [exec EXCEPT ![n] = Append(@, t)]
  PROVE  QueueType'
<1>1. exec' \in [Nodes -> Seq(Tasks)]
  <2>1. exec \in [Nodes -> Seq(Tasks)] /\ exec[n] \in Seq(Tasks)
    BY DEF QueueType
  <2>2. \A t \in Tasks : Append(exec[n], t) \in Seq(Tasks)
    BY <2>1
  <2> QED BY <2>1, <2>2
<1>2. \A c \in Links, m \in Nodes : Wire(c, m)' = Wire(c, m)
  BY SameWires
<1> QED BY <1>1, <1>2 DEF QueueType

LEMMA DiscoverType ==
  ASSUME ClusterType, NEW n \in Nodes, Discover(n)
  PROVE  ClusterType'
<1> DEFINE c == Conn(n, Head(events[n]))
<1>1. events \in [Nodes -> Seq(Nodes)] /\ events[n] # <<>> /\ incoming \in [Nodes -> Seq(Links)]
      /\ life \in [Nodes -> Nat]
  BY DEF Discover, ClusterType, NodeType, LinkType
<1>2. Head(events[n]) \in Nodes /\ Tail(events[n]) \in Seq(Nodes)
  BY <1>1
<1>3. c \in Links /\ c.to \in Nodes
  BY <1>1, <1>2, ConnFacts
<1>4. incoming' = [incoming EXCEPT ![n] = Append(@, c), ![c.to] = Append(@, c)]
      /\ events' = [events EXCEPT ![n] = Tail(@)]
      /\ UNCHANGED <<phase, life, lock, conns, members, wire, exec, data, disturbed, cluster_faults>>
  BY DEF Discover
<1> HIDE DEF c
<1>5. NodeType'
  BY <1>1, <1>2, <1>4 DEF ClusterType, NodeType
<1>6. incoming' \in [Nodes -> Seq(Links)]
  <2>1. /\ \A m \in Nodes : incoming[m] \in Seq(Links)
        /\ \A q \in Seq(Links) : Append(q, c) \in Seq(Links)
    BY <1>1, <1>3
  <2>2. Append(incoming[n], c) \in Seq(Links) /\ Append(incoming[c.to], c) \in Seq(Links)
        /\ Append(Append(incoming[n], c), c) \in Seq(Links)
    BY <1>3, <2>1
  <2> QED BY <1>1, <1>3, <1>4, <2>2
<1>7. LinkType'
  BY <1>4, <1>6 DEF ClusterType, LinkType
<1>8. RouteType' /\ HistoryType'
  BY <1>4 DEF ClusterType, RouteType, HistoryType, data
<1>9. QueueType'
  BY <1>4, QueueStep DEF ClusterType
<1> QED BY <1>5, <1>7, <1>8, <1>9 DEF ClusterType

LEMMA NewConnType ==
  ASSUME ClusterType, NEW n \in Nodes, NewConn(n)
  PROVE  ClusterType'
<1> DEFINE c == Head(incoming[n])
           t == [op |-> "member_add", conn |-> c]
<1>1. incoming \in [Nodes -> Seq(Links)] /\ incoming[n] # <<>>
  BY DEF NewConn, ClusterType, LinkType
<1>2. c \in Links /\ Tail(incoming[n]) \in Seq(Links)
  BY <1>1
<1>3. t \in Tasks
  BY <1>2 DEF Tasks
<1>4. conns' = [conns EXCEPT ![n] = @ \cup {c}] /\ exec' = [exec EXCEPT ![n] = Append(@, t)]
      /\ incoming' = [incoming EXCEPT ![n] = Tail(@)]
      /\ UNCHANGED <<phase, life, lock, events, members, wire, data, disturbed, cluster_faults>>
  BY DEF NewConn
<1> HIDE DEF c, t
<1>5. NodeType' /\ RouteType' /\ HistoryType'
  BY <1>4 DEF ClusterType, NodeType, RouteType, HistoryType, data
<1>6. LinkType'
  BY <1>1, <1>2, <1>4 DEF ClusterType, LinkType
<1>7. QueueType'
  BY <1>3, <1>4, QueueStep DEF ClusterType
<1> QED BY <1>5, <1>6, <1>7 DEF ClusterType

\* The task for a message.
LEMMA TaskType ==
  ASSUME NEW n \in Nodes, NEW c \in Links, NEW msg \in Messages
  PROVE  Task(n, c, msg) \in Tasks
<1>1. CASE msg.type = "route_sync"
  <2>1. msg.filters \in Routes /\ Addr(n, c) \in Addrs
    BY <1>1, MessageFields, AddrType
  <2> QED BY <1>1, <2>1 DEF Task, Tasks
<1>2. CASE msg.type # "route_sync"
  <2>1. msg.filter \in Filters /\ msg.msg \in 1 .. MaxTunnelled
    BY <1>2, MessageFields
  <2> QED BY <1>2, <2>1 DEF Task, Tasks
<1> QED BY <1>1, <1>2

\* What is received is a message on a connection.
LEMMA ReceivedIs ==
  ASSUME ClusterType, NEW n \in Nodes, NEW c, ReceiveOn(n, c)
  PROVE  c \in Links /\ Head(Wire(c, n)) \in Messages /\ Wire(c, n) \in Seq(Messages)
<1>1. c \in Links
  BY DEF ReceiveOn, ClusterType, LinkType
<1>2. Wire(c, n) \in Seq(Messages) /\ Wire(c, n) # <<>>
  BY <1>1 DEF ReceiveOn, ClusterType, QueueType
<1> QED BY <1>1, <1>2

LEMMA ReceiveType ==
  ASSUME ClusterType, NEW n \in Nodes, NEW c, ReceiveOn(n, c)
  PROVE  ClusterType'
<1>1. c \in Links /\ Head(Wire(c, n)) \in Messages
  BY ReceivedIs
<1>2. Task(n, c, Head(Wire(c, n))) \in Tasks
  BY <1>1, TaskType
<1>3. exec' = [exec EXCEPT ![n] = Append(@, Task(n, c, Head(Wire(c, n))))]
      /\ UNCHANGED <<phase, life, lock, events, incoming, conns, members, data, disturbed, cluster_faults>>
  BY DEF ReceiveOn
<1>4. NodeType' /\ LinkType' /\ RouteType' /\ HistoryType'
  BY <1>3 DEF ClusterType, NodeType, LinkType, RouteType, HistoryType, data
<1>5. exec' \in [Nodes -> Seq(Tasks)]
  <2>1. exec \in [Nodes -> Seq(Tasks)]
    BY DEF ClusterType, QueueType
  <2>2. Append(exec[n], Task(n, c, Head(Wire(c, n)))) \in Seq(Tasks)
    BY <1>2, <2>1
  <2> QED BY <1>3, <2>1, <2>2
<1>6. \A d \in Links, m \in Nodes : Wire(d, m)' \in Seq(Messages)
  <2> SUFFICES ASSUME NEW d \in Links, NEW m \in Nodes PROVE Wire(d, m)' \in Seq(Messages)
    OBVIOUS
  <2>1. Wire(d, m) \in Seq(Messages)
    BY DEF ClusterType, QueueType
  <2>2. CASE d = c /\ m = n
    <3>1. Wire(d, m) # <<>> /\ Wire(d, m)' = Tail(Wire(d, m))
      BY <1>1, <2>2, ReceivedOn DEF ReceiveOn
    <3> QED BY <2>1, <3>1
  <2>3. CASE ~(d = c /\ m = n)
    BY <1>1, <2>1, <2>3, ReceivedOn
  <2> QED BY <2>2, <2>3
<1> QED BY <1>4, <1>5, <1>6 DEF ClusterType, QueueType

\* The message that a broker sends about its routes.
LEMMA SyncType ==
  ASSUME NEW r \in Routes
  PROVE  RouteSync(r) \in Messages
BY DEF RouteSync, Messages

LEMMA TunType ==
  ASSUME NEW f \in Filters, NEW m \in 1 .. MaxTunnelled
  PROVE  TunPublish(f, m) \in Messages
BY DEF TunPublish, Messages

\* Sending keeps the wires well-typed.
LEMMA SendType ==
  ASSUME QueueType, NEW n \in Nodes, NEW cs \in SUBSET Links, NEW msg, SendOn(n, cs, msg),
         cs = {} \/ msg \in Messages
  PROVE  \A c \in Links, m \in Nodes : Wire(c, m)' \in Seq(Messages)
<1> SUFFICES ASSUME NEW c \in Links, NEW m \in Nodes PROVE Wire(c, m)' \in Seq(Messages)
  OBVIOUS
<1>1. Wire(c, m) \in Seq(Messages)
  BY DEF QueueType
<1>2. CASE c \in cs /\ Live(c) /\ m = Other(n, c)
  <2>1. Wire(c, m)' = Append(Wire(c, m), msg)
    BY <1>2, SentOn
  <2>2. msg \in Messages
    BY <1>2
  <2>3. Append(Wire(c, m), msg) \in Seq(Messages)
    BY <1>1, <2>2, AppendProperties
  <2> QED BY <2>1, <2>3
<1>3. CASE ~(c \in cs /\ Live(c) /\ m = Other(n, c))
  BY <1>1, <1>3, SentOn
<1> QED BY <1>2, <1>3

\* The three kinds of tasks.
Rest(n) ==
  /\ exec[n] # <<>> /\ exec' = [exec EXCEPT ![n] = Tail(@)]
  /\ UNCHANGED <<phase, life, lock, events, incoming, conns, disturbed, cluster_faults>>
AddMember(n, c) == IsMemberAdd(Head(exec[n])) /\ c = Head(exec[n]).conn /\ Rest(n) /\ MemberAdd(n, c)
AddRoute(n, t)  == IsRouteAdd(t) /\ t = Head(exec[n]) /\ Rest(n) /\ RouteAdd(n, t)
HandOver(n, t)  == IsPublish(t) /\ t = Head(exec[n]) /\ Rest(n) /\ PublishTunnelled(n, t)

LEMMA RunTaskIs ==
  ASSUME ClusterType, NEW n \in Nodes, RunTask(n)
  PROVE  \/ \E c \in Links : AddMember(n, c)
         \/ \E t \in Tasks : AddRoute(n, t)
         \/ \E t \in Tasks : HandOver(n, t)
<1>1. Rest(n)
  BY DEF RunTask, Rest
<1>2. exec[n] \in Seq(Tasks) /\ exec[n] # <<>>
  BY <1>1 DEF ClusterType, QueueType, Rest
<1>3. Head(exec[n]) \in Tasks
  BY <1>2
<1>4. PICK t \in Tasks : t = Head(exec[n])
  BY <1>3
<1>5. \/ IsMemberAdd(t) /\ MemberAdd(n, t.conn)
      \/ IsRouteAdd(t) /\ RouteAdd(n, t)
      \/ IsPublish(t) /\ PublishTunnelled(n, t)
  BY <1>4 DEF RunTask, IsMemberAdd, IsRouteAdd, IsPublish
<1>6. CASE IsMemberAdd(t) /\ MemberAdd(n, t.conn)
  <2>1. t.conn \in Links
    BY <1>6, TaskFields
  <2> QED BY <1>1, <1>4, <1>6, <2>1 DEF AddMember
<1>7. CASE IsRouteAdd(t) /\ RouteAdd(n, t)
  BY <1>1, <1>4, <1>7 DEF AddRoute
<1>8. CASE IsPublish(t) /\ PublishTunnelled(n, t)
  BY <1>1, <1>4, <1>8 DEF HandOver
<1> QED BY <1>5, <1>6, <1>7, <1>8

LEMMA RestType ==
  ASSUME ClusterType, NEW n \in Nodes, Rest(n)
  PROVE  NodeType' /\ exec' \in [Nodes -> Seq(Tasks)]
         /\ incoming' = incoming /\ conns' = conns
<1>1. NodeType' /\ incoming' = incoming /\ conns' = conns
  BY DEF ClusterType, NodeType, Rest
<1>2. exec \in [Nodes -> Seq(Tasks)] /\ exec[n] # <<>> /\ exec' = [exec EXCEPT ![n] = Tail(@)]
  BY DEF ClusterType, QueueType, Rest
<1>3. Tail(exec[n]) \in Seq(Tasks)
  BY <1>2
<1> QED BY <1>1, <1>2, <1>3

LEMMA AddMemberType ==
  ASSUME ClusterType, NEW n \in Nodes, NEW c \in Links, AddMember(n, c)
  PROVE  ClusterType'
<1>1. NodeType' /\ exec' \in [Nodes -> Seq(Tasks)] /\ incoming' = incoming /\ conns' = conns
  BY RestType DEF AddMember
<1>2. members' = [members EXCEPT ![n] = {d \in @ : Addr(n, d) # Addr(n, c)} \cup {c}]
      /\ SyncRoutes(n, c) /\ UNCHANGED data
  BY DEF AddMember, MemberAdd
<1>3. LinkType'
  BY <1>1, <1>2 DEF ClusterType, LinkType
<1>4. RouteType' /\ HistoryType'
  BY <1>2 DEF ClusterType, RouteType, HistoryType, data
<1>5. QueueType'
  <2> DEFINE cs == IF localRoutes[n] = <<>> THEN {} ELSE {c}
  <2>1. localRoutes[n] \in Seq(Filters)
    BY DEF ClusterType, RouteType
  <2>2. cs = {} \/ RouteSync(localRoutes[n]) \in Messages
    BY <2>1, SyncType DEF Routes
  <2>3. cs \in SUBSET Links /\ SendOn(n, cs, RouteSync(localRoutes[n]))
    BY <1>2 DEF SyncRoutes
  <2>4. QueueType
    BY DEF ClusterType
  <2> HIDE DEF cs
  <2>5. \A d \in Links, m \in Nodes : Wire(d, m)' \in Seq(Messages)
    BY <2>2, <2>3, <2>4, SendType
  <2> QED BY <1>1, <2>5 DEF QueueType
<1> QED BY <1>1, <1>3, <1>4, <1>5 DEF ClusterType

LEMMA AddRouteType ==
  ASSUME ClusterType, NEW n \in Nodes, NEW t \in Tasks, AddRoute(n, t)
  PROVE  ClusterType'
<1>1. NodeType' /\ exec' \in [Nodes -> Seq(Tasks)] /\ incoming' = incoming /\ conns' = conns
  BY RestType DEF AddRoute
<1>2. t.addr \in Addrs /\ t.filters \in Routes
  BY TaskFields DEF AddRoute
<1>3. Head(t.filters) \in Filters /\ Range(t.filters) \subseteq Filters
  BY <1>2, FirstRoute
<1>4. /\ tree' = [tree EXCEPT ![n] = @ \cup {<<Head(t.filters), t.addr>>}]
      /\ route_table' = [route_table EXCEPT ![n] = @ \cup {<<f, t.addr>> : f \in Range(t.filters)}]
      /\ UNCHANGED <<members, wire, subs, localRoutes, got, cluster_published, late, pruned>>
  BY DEF AddRoute, RouteAdd
<1>5. LinkType' /\ HistoryType'
  BY <1>1, <1>4 DEF ClusterType, LinkType, HistoryType
<1>6. RouteType'
  <2>1. tree' \in [Nodes -> SUBSET (Filters \X Addrs)]
    BY <1>2, <1>3, <1>4 DEF ClusterType, RouteType
  <2>2. {<<f, t.addr>> : f \in Range(t.filters)} \subseteq Filters \X Addrs
    BY <1>2, <1>3
  <2>3. route_table' \in [Nodes -> SUBSET (Filters \X Addrs)]
    BY <1>4, <2>2 DEF ClusterType, RouteType
  <2> QED BY <1>4, <2>1, <2>3 DEF ClusterType, RouteType
<1>7. QueueType'
  <2>1. \A c \in Links, m \in Nodes : Wire(c, m)' = Wire(c, m)
    BY <1>4, SameWires
  <2> QED BY <1>1, <2>1 DEF ClusterType, QueueType
<1> QED BY <1>1, <1>5, <1>6, <1>7 DEF ClusterType

\* Handing a message on counts it.
LEMMA HandOnType ==
  ASSUME HistoryType, NEW n \in Nodes, NEW f, NEW m \in 1 .. MaxTunnelled, HandOn(n, f, m)
  PROVE  got' \in [Nodes -> [1 .. MaxTunnelled -> Nat]]
<1>1. got \in [Nodes -> [1 .. MaxTunnelled -> Nat]]
  BY DEF HistoryType
<1>2. PICK k \in Nat : k = got[n][m]
  BY <1>1
<1>3. k + 1 \in Nat
  BY <1>2
<1>4. PICK j \in Nat : got' = [got EXCEPT ![n][m] = j]
  BY <1>2, <1>3 DEF HandOn
<1>5. [got[n] EXCEPT ![m] = j] \in [1 .. MaxTunnelled -> Nat]
  BY <1>1
<1>6. got' = [got EXCEPT ![n] = [got[n] EXCEPT ![m] = j]]
  BY <1>4
<1> QED BY <1>1, <1>5, <1>6

LEMMA HandOverType ==
  ASSUME ClusterType, NEW n \in Nodes, NEW t \in Tasks, HandOver(n, t)
  PROVE  ClusterType'
<1>1. NodeType' /\ exec' \in [Nodes -> Seq(Tasks)] /\ incoming' = incoming /\ conns' = conns
  BY RestType DEF HandOver
<1>2. t.filter \in Filters /\ t.msg \in 1 .. MaxTunnelled
  BY TaskFields DEF HandOver
<1>3. HandOn(n, t.filter, t.msg) /\ wire' = wire
      /\ UNCHANGED <<members, subs, localRoutes, route_table, tree, cluster_published, late, pruned>>
  BY DEF HandOver, PublishTunnelled, Tunnelled
<1>4. LinkType' /\ RouteType'
  BY <1>1, <1>3 DEF ClusterType, LinkType, RouteType
<1>5. HistoryType'
  <2>1. got' \in [Nodes -> [1 .. MaxTunnelled -> Nat]]
    BY <1>2, <1>3, HandOnType DEF ClusterType
  <2> QED BY <1>3, <2>1 DEF ClusterType, HistoryType
<1>6. QueueType'
  <2>1. \A c \in Links, m \in Nodes : Wire(c, m)' = Wire(c, m)
    BY <1>3, SameWires
  <2> QED BY <1>1, <2>1 DEF ClusterType, QueueType
<1> QED BY <1>1, <1>4, <1>5, <1>6 DEF ClusterType

LEMMA SubscribeType ==
  ASSUME ClusterType, NEW n \in Nodes, NEW f \in Filters, Subscribe(n, f)
  PROVE  ClusterType'
<1>1. /\ subs' = [subs EXCEPT ![n] = @ \cup {f}]
      /\ localRoutes' = [localRoutes EXCEPT ![n] = <<f>> \o @]
      /\ SendOn(n, members[n], RouteSync(<<f>>))
      /\ late' = late \cup {<<n, c, f>> : c \in members[n]}
      /\ UNCHANGED <<phase, life, lock, events, incoming, conns, members, exec, route_table,
                     tree, got, cluster_published, pruned, disturbed, cluster_faults>>
  BY DEF Subscribe
<1>2. NodeType' /\ LinkType' /\ HistoryType'
  BY <1>1 DEF ClusterType, NodeType, LinkType, HistoryType
<1>3. members[n] \in SUBSET Links
  BY DEF ClusterType, LinkType
<1>4. RouteType'
  <2>1. <<f>> \o localRoutes[n] \in Seq(Filters)
    BY DEF ClusterType, RouteType
  <2>2. localRoutes' \in [Nodes -> Seq(Filters)]
    BY <1>1, <2>1 DEF ClusterType, RouteType
  <2>3. late' \subseteq Nodes \X Links \X Filters
    BY <1>1, <1>3 DEF ClusterType, RouteType
  <2> QED BY <1>1, <2>2, <2>3 DEF ClusterType, RouteType
<1>5. QueueType'
  <2>1. <<f>> \in Routes
    BY DEF Routes
  <2>2. \A d \in Links, m \in Nodes : Wire(d, m)' \in Seq(Messages)
    BY <1>1, <1>3, <2>1, SyncType, SendType DEF ClusterType
  <2> QED BY <1>1, <2>2 DEF ClusterType, QueueType
<1> QED BY <1>2, <1>4, <1>5 DEF ClusterType

LEMMA UnsubscribeType ==
  ASSUME ClusterType, NEW n \in Nodes, NEW f \in Filters, Unsubscribe(n, f)
  PROVE  ClusterType'
<1>1. /\ subs' = [subs EXCEPT ![n] = @ \ {f}]
      /\ tree' = [tree EXCEPT ![n] = {x \in @ : x[1] # f}]
      /\ pruned' = pruned \cup {<<n, f>>}
      /\ UNCHANGED <<phase, life, lock, events, net, localRoutes, route_table, got, cluster_published,
                     late, disturbed, cluster_faults>>
  BY DEF Unsubscribe
<1>2. NodeType' /\ LinkType' /\ HistoryType'
  BY <1>1 DEF ClusterType, NodeType, LinkType, HistoryType, net
<1>3. RouteType'
  BY <1>1 DEF ClusterType, RouteType
<1>4. QueueType'
  BY <1>1, QueueStep DEF ClusterType, net
<1> QED BY <1>2, <1>3, <1>4 DEF ClusterType

LEMMA PublishType ==
  ASSUME MaxTunnelled \in Nat, ClusterType, NEW n \in Nodes, NEW f \in Filters, ClientPublish(n, f)
  PROVE  ClusterType'
<1>1. /\ cluster_published < MaxTunnelled /\ cluster_published' = cluster_published + 1
      /\ HandOn(n, f, cluster_published + 1) /\ Tunnel(n, f, cluster_published + 1)
      /\ UNCHANGED <<phase, life, lock, events, incoming, conns, members, exec, subs,
                     localRoutes, route_table, tree, late, pruned, disturbed, cluster_faults>>
  BY DEF ClientPublish
<1>2. cluster_published \in Nat /\ cluster_published + 1 \in 1 .. MaxTunnelled
  BY <1>1 DEF ClusterType, HistoryType
<1>3. NodeType' /\ LinkType' /\ RouteType'
  BY <1>1 DEF ClusterType, NodeType, LinkType, RouteType
<1>4. got' \in [Nodes -> [1 .. MaxTunnelled -> Nat]]
  BY <1>1, <1>2, HandOnType DEF ClusterType
<1>5. HistoryType'
  BY <1>1, <1>2, <1>4 DEF HistoryType
<1>6. QueueType'
  <2> DEFINE cs == {c \in members[n] : Addr(n, c) \in MatchedMembers(n, f)}
  <2>1. cs \in SUBSET Links /\ SendOn(n, cs, TunPublish(f, cluster_published + 1))
    BY <1>1 DEF ClusterType, LinkType, Tunnel
  <2>2. TunPublish(f, cluster_published + 1) \in Messages
    BY <1>2, TunType
  <2> HIDE DEF cs
  <2>3. \A d \in Links, m \in Nodes : Wire(d, m)' \in Seq(Messages)
    BY <2>1, <2>2, SendType DEF ClusterType
  <2> QED BY <1>1, <2>3 DEF ClusterType, QueueType
<1> QED BY <1>3, <1>5, <1>6 DEF ClusterType

\* A step of the specification, one disjunct per line.
Step ==
  \/ Registration
  \/ \E n \in Nodes : RedisFails(n)
  \/ \E n \in Nodes : Crash(n) \/ DiscoverFails(n)
  \/ \E n \in Nodes : Discover(n)
  \/ \E n \in Nodes : NewConn(n)
  \/ \E n \in Nodes : Receive(n)
  \/ \E n \in Nodes : RunTask(n)
  \/ \E n \in Nodes, f \in Filters : Subscribe(n, f)
  \/ \E n \in Nodes, f \in Filters : Unsubscribe(n, f)
  \/ \E n \in Nodes, f \in Filters : ClientPublish(n, f)

LEMMA NextIs == ClusterNext => Step
BY DEF ClusterNext, Step, Registration, Registers, Quiet

LEMMA TypeNext ==
  ASSUME MaxTunnelled \in Nat, ClusterType, ClusterNext
  PROVE  ClusterType'
<1>1. CASE Registration
  BY <1>1, RegistrationType
<1>2. CASE \E n \in Nodes : Crash(n) \/ DiscoverFails(n)
  BY <1>2, FaultType
<1>3. CASE \E n \in Nodes : Discover(n)
  BY <1>3, DiscoverType
<1>4. CASE \E n \in Nodes : NewConn(n)
  BY <1>4, NewConnType
<1>5. CASE \E n \in Nodes : Receive(n)
  BY <1>5, ReceiveIs, ReceiveType
<1>6. CASE \E n \in Nodes : RunTask(n)
  BY <1>6, RunTaskIs, AddMemberType, AddRouteType, HandOverType
<1>7. CASE \E n \in Nodes, f \in Filters : Subscribe(n, f)
  BY <1>7, SubscribeType
<1>8. CASE \E n \in Nodes, f \in Filters : Unsubscribe(n, f)
  BY <1>8, UnsubscribeType
<1>9. CASE \E n \in Nodes, f \in Filters : ClientPublish(n, f)
  BY <1>9, PublishType
<1>10. CASE \E n \in Nodes : RedisFails(n)
  BY <1>10, RedisType
<1> QED BY <1>1, <1>2, <1>3, <1>4, <1>5, <1>6, <1>7, <1>8, <1>9, <1>10, NextIs DEF Step
-----------------------------------------------------------------------------
(* RouteHasMember.                                                         *)

\* A broker whose queue and members do not change.
LEMMA AnnouncedSame ==
  ASSUME NEW m \in Nodes, exec'[m] = exec[m], members'[m] = members[m], NEW a, NEW k
  PROVE  Announced(m, a, k) <=> Announced(m, a, k)'
BY DEF Announced, Addr

\* A task is posted.
LEMMA AnnouncedPosted ==
  ASSUME ClusterType, NEW n \in Nodes, NEW t \in Tasks, exec'[n] = Append(exec[n], t),
         members'[n] = members[n], NEW a, NEW k \in 0 .. Len(exec[n]), Announced(n, a, k)
  PROVE  Announced(n, a, k)'
<1>1. exec[n] \in Seq(Tasks)
  BY DEF ClusterType, QueueType
<1>2. Len(exec[n]) \in Nat /\ \A i \in 1 .. Len(exec[n]) : exec'[n][i] = exec[n][i]
  BY <1>1, Appended
<1>3. \A i \in 1 .. k : exec'[n][i] = exec[n][i]
  BY <1>2
<1>4. CASE \E c \in members[n] : Addr(n, c) = a
  BY <1>4 DEF Announced, Addr
<1>5. CASE \E i \in 1 .. k : IsMemberAdd(exec[n][i]) /\ Addr(n, exec[n][i].conn) = a
  <2>1. PICK i \in 1 .. k : IsMemberAdd(exec[n][i]) /\ Addr(n, exec[n][i].conn) = a
    BY <1>5
  <2>2. exec'[n][i] = exec[n][i]
    BY <1>3
  <2> QED BY <2>1, <2>2 DEF Announced, Addr, IsMemberAdd
<1> QED BY <1>4, <1>5 DEF Announced

\* A task is run; if it adds a member, that member is there, and every address stays.
Keeps(n) == \A d \in members[n] : \E e \in members'[n] : Addr(n, e) = Addr(n, d)
Arrives(n) == IsMemberAdd(exec[n][1]) => \E e \in members'[n] : Addr(n, e) = Addr(n, exec[n][1].conn)

LEMMA AnnouncedRun ==
  ASSUME ClusterType, NEW n \in Nodes, Rest(n), Keeps(n), Arrives(n),
         NEW a, NEW k \in 0 .. Len(exec[n]), NEW j \in Nat, k <= j + 1, Announced(n, a, k)
  PROVE  Announced(n, a, j)'
<1>1. exec[n] \in Seq(Tasks) /\ exec[n] # <<>> /\ exec'[n] = Tail(exec[n])
  BY DEF ClusterType, QueueType, Rest
<1>2. Len(exec[n]) \in Nat /\ \A i \in 1 .. Len(exec[n]) - 1 : exec'[n][i] = exec[n][i + 1]
  BY <1>1, Shortened
<1>3. CASE \E c \in members[n] : Addr(n, c) = a
  BY <1>3 DEF Announced, Addr, Keeps
<1>4. CASE \E i \in 1 .. k : IsMemberAdd(exec[n][i]) /\ Addr(n, exec[n][i].conn) = a
  <2>1. PICK i \in 1 .. k : IsMemberAdd(exec[n][i]) /\ Addr(n, exec[n][i].conn) = a
    BY <1>4
  <2>2. CASE i = 1
    BY <2>1, <2>2 DEF Announced, Addr, Arrives
  <2>3. CASE i # 1
    <3>1. i - 1 \in 1 .. Len(exec[n]) - 1 /\ i - 1 \in 1 .. j /\ (i - 1) + 1 = i
      BY <1>2, <2>3
    <3>2. exec'[n][i - 1] = exec[n][i]
      BY <1>2, <3>1
    <3> QED BY <2>1, <3>1, <3>2 DEF Announced, Addr, IsMemberAdd
  <2> QED BY <2>2, <2>3
<1> QED BY <1>3, <1>4 DEF Announced

\* The invariant at one broker.
MemberInvAt(n) ==
  /\ \A x \in tree[n] : \E c \in members[n] : Addr(n, c) = x[2]
  /\ \A i \in DOMAIN exec[n] : IsRouteAdd(exec[n][i]) => Announced(n, exec[n][i].addr, i - 1)
  /\ \A c \in conns[n] : Announced(n, Addr(n, c), Len(exec[n]))

LEMMA MemberInvIs == MemberInv <=> \A n \in Nodes : MemberInvAt(n)
BY DEF MemberInv, MemberOfRoute, RoutesBehind, ReadsBehind, MemberInvAt

LEMMA MemberInvSame ==
  ASSUME NEW m \in Nodes, MemberInvAt(m), exec'[m] = exec[m], members'[m] = members[m],
         conns'[m] \subseteq conns[m], tree'[m] \subseteq tree[m]
  PROVE  MemberInvAt(m)'
<1>1. \A a, k : Announced(m, a, k) => Announced(m, a, k)'
  BY AnnouncedSame
<1>2. \A x \in tree'[m] : \E c \in members'[m] : Addr(m, c) = x[2]
  BY DEF MemberInvAt
<1>3. \A i \in DOMAIN exec'[m] : IsRouteAdd(exec'[m][i]) => Announced(m, exec[m][i].addr, i - 1)
  BY DEF MemberInvAt
<1>4. \A c \in conns'[m] : Announced(m, Addr(m, c), Len(exec[m]))
  BY DEF MemberInvAt
<1>5. \A i \in DOMAIN exec'[m] :
        Announced(m, exec[m][i].addr, i - 1) => Announced(m, exec[m][i].addr, i - 1)'
  BY <1>1
<1> QED BY <1>1, <1>2, <1>3, <1>4 DEF MemberInvAt, Addr, IsRouteAdd

LEMMA MemberInvPosted ==
  ASSUME ClusterType, NEW n \in Nodes, MemberInvAt(n), NEW t \in Tasks,
         exec'[n] = Append(exec[n], t), members'[n] = members[n], tree'[n] = tree[n],
         IsRouteAdd(t) => Announced(n, t.addr, Len(exec[n])),
         \A c \in conns'[n] : c \in conns[n] \/ (IsMemberAdd(t) /\ t.conn = c)
  PROVE  MemberInvAt(n)'
<1>1. exec[n] \in Seq(Tasks)
  BY DEF ClusterType, QueueType
<1>2. /\ Len(exec[n]) \in Nat /\ DOMAIN exec[n] = 1 .. Len(exec[n])
      /\ DOMAIN exec'[n] = 1 .. Len(exec[n]) + 1 /\ Len(exec'[n]) = Len(exec[n]) + 1
      /\ \A i \in 1 .. Len(exec[n]) : exec'[n][i] = exec[n][i]
      /\ exec'[n][Len(exec[n]) + 1] = t
  BY <1>1, Appended
<1>3. \A a : \A k \in 0 .. Len(exec[n]) : Announced(n, a, k) => Announced(n, a, k)'
  BY AnnouncedPosted
<1>4. \A x \in tree'[n] : \E c \in members'[n] : Addr(n, c) = x[2]
  BY DEF MemberInvAt
<1>5. ASSUME NEW i \in DOMAIN exec'[n], IsRouteAdd(exec'[n][i])
      PROVE  Announced(n, exec[n][i].addr, i - 1)'
  <2>1. CASE i \in 1 .. Len(exec[n])
    <3>1. exec'[n][i] = exec[n][i] /\ i - 1 \in 0 .. Len(exec[n]) /\ i \in DOMAIN exec[n]
      BY <1>2, <2>1
    <3>2. Announced(n, exec[n][i].addr, i - 1)
      BY <1>5, <3>1 DEF MemberInvAt
    <3>3. PICK a : a = exec[n][i].addr
      OBVIOUS
    <3>4. Announced(n, a, i - 1)'
      BY <1>3, <3>1, <3>2, <3>3
    <3>5. exec'[n][i].addr = a
      BY <3>1, <3>3
    <3> QED BY <3>4, <3>5
  <2>2. CASE i = Len(exec[n]) + 1
    <3>1. exec'[n][i] = t /\ i - 1 = Len(exec[n]) /\ i - 1 \in 0 .. Len(exec[n])
      BY <1>2, <2>2
    <3>2. Announced(n, t.addr, i - 1)
      BY <1>5, <3>1
    <3>3. Announced(n, t.addr, i - 1)'
      BY <1>3, <3>1, <3>2
    <3> QED BY <3>1, <3>3
  <2> QED BY <1>2, <2>1, <2>2
<1>6. ASSUME NEW c \in conns'[n] PROVE Announced(n, Addr(n, c), Len(exec[n]))'
  <2>1. PICK l \in Nat : l = Len(exec'[n]) /\ l = Len(exec[n]) + 1
    BY <1>2
  <2>2. CASE c \in conns[n]
    <3>1. Announced(n, Addr(n, c), Len(exec[n]))
      BY <2>2 DEF MemberInvAt
    <3>2. PICK k \in Nat : k = Len(exec[n]) /\ l = k + 1 /\ k \in 0 .. Len(exec[n])
      BY <1>2, <2>1
    <3>3. Announced(n, Addr(n, c), k)'
      BY <1>3, <3>1, <3>2 DEF Addr
    <3>4. \A i \in 1 .. k : i \in 1 .. l
      BY <3>2
    <3>5. Announced(n, Addr(n, c), l)'
      BY <3>3, <3>4 DEF Announced
    <3> QED BY <2>1, <3>5
  <2>3. CASE IsMemberAdd(t) /\ t.conn = c
    <3>1. exec'[n][l] = t /\ l \in 1 .. l
      BY <1>2, <2>1
    <3>2. Announced(n, Addr(n, c), l)'
      BY <2>3, <3>1 DEF Announced, IsMemberAdd, Addr
    <3> QED BY <2>1, <3>2
  <2> QED BY <2>2, <2>3
<1> QED BY <1>4, <1>5, <1>6 DEF MemberInvAt, Addr, IsRouteAdd

LEMMA MemberInvRun ==
  ASSUME ClusterType, NEW n \in Nodes, MemberInvAt(n), Rest(n), Keeps(n), Arrives(n),
         \A x \in tree'[n] : x \in tree[n] \/ (IsRouteAdd(exec[n][1]) /\ x[2] = exec[n][1].addr)
  PROVE  MemberInvAt(n)'
<1>1. exec[n] \in Seq(Tasks) /\ exec[n] # <<>> /\ exec'[n] = Tail(exec[n]) /\ conns' = conns
  BY DEF ClusterType, QueueType, Rest
<1>2. /\ Len(exec[n]) \in Nat \ {0} /\ DOMAIN exec[n] = 1 .. Len(exec[n])
      /\ DOMAIN exec'[n] = 1 .. Len(exec[n]) - 1 /\ Len(exec'[n]) = Len(exec[n]) - 1
      /\ \A i \in 1 .. Len(exec[n]) - 1 : exec'[n][i] = exec[n][i + 1]
  BY <1>1, Shortened
<1>3. \A a : \A k \in 0 .. Len(exec[n]) : \A j \in Nat :
        k <= j + 1 /\ Announced(n, a, k) => Announced(n, a, j)'
  BY AnnouncedRun
<1>4. ASSUME NEW x \in tree'[n] PROVE \E c \in members'[n] : Addr(n, c) = x[2]
  <2>1. CASE x \in tree[n]
    BY <2>1 DEF MemberInvAt, Keeps
  <2>2. CASE IsRouteAdd(exec[n][1]) /\ x[2] = exec[n][1].addr
    <3>1. 1 \in DOMAIN exec[n] /\ 1 - 1 = 0
      BY <1>2
    <3>2. Announced(n, x[2], 0)
      BY <2>2, <3>1 DEF MemberInvAt
    <3>3. \A i \in 1 .. 0 : FALSE
      OBVIOUS
    <3>4. \E c \in members[n] : Addr(n, c) = x[2]
      BY <3>2, <3>3 DEF Announced
    <3> QED BY <3>4 DEF Keeps
  <2> QED BY <2>1, <2>2
<1>5. ASSUME NEW i \in DOMAIN exec'[n], IsRouteAdd(exec'[n][i])
      PROVE  Announced(n, exec[n][i].addr, i - 1)'
  <2>1. /\ exec'[n][i] = exec[n][i + 1] /\ i \in Nat /\ i \in 0 .. Len(exec[n]) /\ i + 1 \in DOMAIN exec[n]
        /\ i - 1 \in Nat /\ i <= (i - 1) + 1 /\ (i + 1) - 1 = i
    BY <1>2
  <2>2. PICK a : a = exec[n][i + 1].addr
    OBVIOUS
  <2>3. Announced(n, a, i)
    BY <1>5, <2>1, <2>2 DEF MemberInvAt
  <2>4. Announced(n, a, i - 1)'
    BY <1>3, <2>1, <2>3
  <2>5. exec'[n][i].addr = a
    BY <2>1, <2>2
  <2> QED BY <2>4, <2>5
<1>6. ASSUME NEW c \in conns'[n] PROVE Announced(n, Addr(n, c), Len(exec[n]))'
  <2>1. PICK k \in Nat : k = Len(exec[n]) /\ k \in 0 .. Len(exec[n])
    BY <1>2
  <2>2. PICK j \in Nat : j = Len(exec'[n]) /\ k <= j + 1
    BY <1>2, <2>1
  <2>3. Announced(n, Addr(n, c), k)
    BY <1>1, <2>1 DEF MemberInvAt
  <2>4. Announced(n, Addr(n, c), j)'
    BY <1>3, <2>1, <2>2, <2>3 DEF Addr
  <2> QED BY <2>2, <2>4
<1> QED BY <1>4, <1>5, <1>6 DEF MemberInvAt, Addr, IsRouteAdd

\* The step at a broker's own and at the other brokers.
LEMMA MemberNewConn ==
  ASSUME ClusterType, MemberInv, NEW n \in Nodes, NewConn(n), NEW m \in Nodes
  PROVE  MemberInvAt(m)'
<1> DEFINE c == Head(incoming[n])
           t == [op |-> "member_add", conn |-> c]
<1>0. MemberInvAt(m)
  BY MemberInvIs
<1>1. incoming[n] \in Seq(Links) /\ incoming[n] # <<>>
  BY DEF NewConn, ClusterType, LinkType
<1>2. c \in Links
  BY <1>1
<1>3. t \in Tasks /\ IsMemberAdd(t) /\ ~IsRouteAdd(t) /\ t.conn = c
  BY <1>2 DEF Tasks, IsMemberAdd, IsRouteAdd
<1>4. conns' = [conns EXCEPT ![n] = @ \cup {c}] /\ exec' = [exec EXCEPT ![n] = Append(@, t)]
      /\ members' = members /\ tree' = tree
  BY DEF NewConn, data
<1>5. exec \in [Nodes -> Seq(Tasks)] /\ conns \in [Nodes -> SUBSET Links]
  BY DEF ClusterType, QueueType, LinkType
<1> HIDE DEF c, t
<1>6. CASE m = n
  <2>1. exec'[n] = Append(exec[n], t) /\ conns'[n] = conns[n] \cup {c}
    BY <1>4, <1>5
  <2> QED BY <1>0, <1>3, <1>4, <1>6, <2>1, MemberInvPosted
<1>7. CASE m # n
  <2>1. exec'[m] = exec[m] /\ conns'[m] = conns[m]
    BY <1>4, <1>5, <1>7
  <2> QED BY <1>0, <1>4, <2>1, MemberInvSame
<1> QED BY <1>6, <1>7

LEMMA MemberReceive ==
  ASSUME ClusterType, MemberInv, NEW n \in Nodes, NEW c, ReceiveOn(n, c), NEW m \in Nodes
  PROVE  MemberInvAt(m)'
<1> DEFINE t == Task(n, c, Head(Wire(c, n)))
<1>0. MemberInvAt(m)
  BY MemberInvIs
<1>1. c \in Links /\ Head(Wire(c, n)) \in Messages
  BY ReceivedIs
<1>2. t \in Tasks
  BY <1>1, TaskType
<1>3. IsRouteAdd(t) => t.addr = Addr(n, c)
  BY DEF Task, IsRouteAdd
<1>4. c \in conns[n] /\ exec' = [exec EXCEPT ![n] = Append(@, t)]
      /\ members' = members /\ tree' = tree /\ conns' = conns
  BY DEF ReceiveOn, data
<1>5. exec \in [Nodes -> Seq(Tasks)]
  BY DEF ClusterType, QueueType
<1> HIDE DEF t
<1>6. CASE m = n
  <2>1. exec'[n] = Append(exec[n], t)
    BY <1>4, <1>5
  <2>2. Announced(n, Addr(n, c), Len(exec[n]))
    BY <1>0, <1>4, <1>6 DEF MemberInvAt
  <2> QED BY <1>0, <1>2, <1>3, <1>4, <1>6, <2>1, <2>2, MemberInvPosted
<1>7. CASE m # n
  <2>1. exec'[m] = exec[m]
    BY <1>4, <1>5, <1>7
  <2> QED BY <1>0, <1>4, <2>1, MemberInvSame
<1> QED BY <1>6, <1>7

\* The rest of a task: the queues of the other brokers, and the first task.
LEMMA RestFacts ==
  ASSUME ClusterType, NEW n \in Nodes, Rest(n)
  PROVE  /\ exec[n] \in Seq(Tasks) /\ exec[n] # <<>> /\ exec'[n] = Tail(exec[n])
         /\ Head(exec[n]) = exec[n][1] /\ conns' = conns
         /\ \A m \in Nodes : m # n => exec'[m] = exec[m]
<1>1. exec \in [Nodes -> Seq(Tasks)] /\ exec[n] # <<>> /\ exec' = [exec EXCEPT ![n] = Tail(@)]
      /\ conns' = conns
  BY DEF ClusterType, QueueType, Rest
<1> QED BY <1>1

LEMMA MemberAddMember ==
  ASSUME ClusterType, MemberInv, NEW n \in Nodes, NEW c \in Links, AddMember(n, c), NEW m \in Nodes
  PROVE  MemberInvAt(m)'
<1>0. MemberInvAt(m)
  BY MemberInvIs
<1>1. Rest(n) /\ c = Head(exec[n]).conn /\ tree' = tree
      /\ members' = [members EXCEPT ![n] = {d \in @ : Addr(n, d) # Addr(n, c)} \cup {c}]
  BY DEF AddMember, MemberAdd, data
<1>2. Head(exec[n]) = exec[n][1] /\ conns' = conns /\ \A k \in Nodes : k # n => exec'[k] = exec[k]
  BY <1>1, RestFacts
<1>3. members \in [Nodes -> SUBSET Links]
  BY DEF ClusterType, LinkType
<1>4. members'[n] = {d \in members[n] : Addr(n, d) # Addr(n, c)} \cup {c}
  BY <1>1, <1>3
<1>5. Keeps(n)
  BY <1>4 DEF Keeps
<1>6. Arrives(n)
  BY <1>1, <1>2, <1>4 DEF Arrives
<1>7. CASE m = n
  BY <1>0, <1>1, <1>5, <1>6, <1>7, MemberInvRun
<1>8. CASE m # n
  <2>1. members'[m] = members[m]
    BY <1>1, <1>3, <1>8
  <2> QED BY <1>0, <1>1, <1>2, <1>8, <2>1, MemberInvSame
<1> QED BY <1>7, <1>8

LEMMA MemberAddRoute ==
  ASSUME ClusterType, MemberInv, NEW n \in Nodes, NEW t \in Tasks, AddRoute(n, t), NEW m \in Nodes
  PROVE  MemberInvAt(m)'
<1>0. MemberInvAt(m)
  BY MemberInvIs
<1>1. Rest(n) /\ t = Head(exec[n]) /\ IsRouteAdd(t) /\ members' = members
      /\ tree' = [tree EXCEPT ![n] = @ \cup {<<Head(t.filters), t.addr>>}]
  BY DEF AddRoute, RouteAdd
<1>2. Head(exec[n]) = exec[n][1] /\ conns' = conns /\ \A k \in Nodes : k # n => exec'[k] = exec[k]
  BY <1>1, RestFacts
<1>3. tree \in [Nodes -> SUBSET (Filters \X Addrs)]
  BY DEF ClusterType, RouteType
<1>4. Keeps(n)
  BY <1>1 DEF Keeps
<1>5. Arrives(n)
  BY <1>1, <1>2 DEF Arrives, IsMemberAdd, IsRouteAdd
<1>6. CASE m = n
  <2>1. tree'[n] = tree[n] \cup {<<Head(t.filters), t.addr>>}
    BY <1>1, <1>3
  <2>2. \A x \in tree'[n] : x \in tree[n] \/ (IsRouteAdd(exec[n][1]) /\ x[2] = exec[n][1].addr)
    BY <1>1, <1>2, <2>1
  <2> QED BY <1>0, <1>1, <1>4, <1>5, <1>6, <2>2, MemberInvRun
<1>7. CASE m # n
  <2>1. tree'[m] = tree[m]
    BY <1>1, <1>3, <1>7
  <2> QED BY <1>0, <1>1, <1>2, <1>7, <2>1, MemberInvSame
<1> QED BY <1>6, <1>7

LEMMA MemberHandOver ==
  ASSUME ClusterType, MemberInv, NEW n \in Nodes, NEW t \in Tasks, HandOver(n, t), NEW m \in Nodes
  PROVE  MemberInvAt(m)'
<1>0. MemberInvAt(m)
  BY MemberInvIs
<1>1. Rest(n) /\ t = Head(exec[n]) /\ IsPublish(t) /\ members' = members /\ tree' = tree
  BY DEF HandOver, PublishTunnelled
<1>2. Head(exec[n]) = exec[n][1] /\ conns' = conns /\ \A k \in Nodes : k # n => exec'[k] = exec[k]
  BY <1>1, RestFacts
<1>3. Keeps(n)
  BY <1>1 DEF Keeps
<1>4. Arrives(n)
  BY <1>1, <1>2 DEF Arrives, IsMemberAdd, IsPublish
<1>5. CASE m = n
  BY <1>0, <1>1, <1>3, <1>4, <1>5, MemberInvRun
<1>6. CASE m # n
  BY <1>0, <1>1, <1>2, <1>6, MemberInvSame
<1> QED BY <1>5, <1>6

LEMMA MemberStop ==
  ASSUME ClusterType, MemberInv, NEW n \in Nodes, Stop(n), NEW m \in Nodes
  PROVE  MemberInvAt(m)'
<1>0. MemberInvAt(m)
  BY MemberInvIs
<1>1. conns' = [conns EXCEPT ![n] = {}] /\ members' = [members EXCEPT ![n] = {}]
      /\ exec' = [exec EXCEPT ![n] = <<>>] /\ tree' = [tree EXCEPT ![n] = {}]
  BY DEF Stop
<1>2. exec \in [Nodes -> Seq(Tasks)] /\ members \in [Nodes -> SUBSET Links]
      /\ conns \in [Nodes -> SUBSET Links] /\ tree \in [Nodes -> SUBSET (Filters \X Addrs)]
  BY DEF ClusterType, QueueType, LinkType, RouteType
<1>3. CASE m = n
  <2>1. conns'[n] = {} /\ tree'[n] = {} /\ exec'[n] = <<>>
    BY <1>1, <1>2
  <2>2. DOMAIN exec'[n] = {}
    BY <2>1
  <2> QED BY <1>3, <2>1, <2>2 DEF MemberInvAt
<1>4. CASE m # n
  <2>1. conns'[m] = conns[m] /\ tree'[m] = tree[m] /\ exec'[m] = exec[m] /\ members'[m] = members[m]
    BY <1>1, <1>2, <1>4
  <2> QED BY <1>0, <2>1, MemberInvSame
<1> QED BY <1>3, <1>4

LEMMA MemberUnsubscribe ==
  ASSUME ClusterType, MemberInv, NEW n \in Nodes, NEW f \in Filters, Unsubscribe(n, f), NEW m \in Nodes
  PROVE  MemberInvAt(m)'
<1>0. MemberInvAt(m)
  BY MemberInvIs
<1>1. tree' = [tree EXCEPT ![n] = {x \in @ : x[1] # f}] /\ conns' = conns /\ exec' = exec
      /\ members' = members
  BY DEF Unsubscribe, net
<1>2. tree'[m] \subseteq tree[m]
  BY <1>1 DEF ClusterType, RouteType
<1> QED BY <1>0, <1>1, <1>2, MemberInvSame

LEMMA MemberNext ==
  ASSUME ClusterType, MemberInv, ClusterNext
  PROVE  MemberInv'
<1> SUFFICES ASSUME NEW m \in Nodes PROVE MemberInvAt(m)'
  BY DEF MemberInv, MemberOfRoute, RoutesBehind, ReadsBehind, MemberInvAt
<1>0. MemberInvAt(m)
  BY MemberInvIs
<1>1. CASE exec' = exec /\ members' = members /\ conns' = conns /\ tree' = tree
  BY <1>0, <1>1, MemberInvSame
<1>2. CASE Registration
  <2>1. exec' = exec /\ members' = members /\ conns' = conns /\ tree' = tree
    BY <1>2 DEF Registration, Registers, Quiet, LockExpires, Start, Acquire, Register, Listen,
                Release, net, data
  <2> QED BY <1>1, <2>1
<1>3. CASE \E n \in Nodes : Crash(n) \/ DiscoverFails(n)
  BY <1>3, MemberStop DEF Crash, DiscoverFails
<1>4. CASE \E n \in Nodes : Discover(n)
  BY <1>1, <1>4 DEF Discover, data
<1>5. CASE \E n \in Nodes : NewConn(n)
  BY <1>5, MemberNewConn
<1>6. CASE \E n \in Nodes : Receive(n)
  BY <1>6, ReceiveIs, MemberReceive
<1>7. CASE \E n \in Nodes : RunTask(n)
  BY <1>7, RunTaskIs, MemberAddMember, MemberAddRoute, MemberHandOver
<1>8. CASE \E n \in Nodes, f \in Filters : Subscribe(n, f)
  BY <1>1, <1>8 DEF Subscribe
<1>9. CASE \E n \in Nodes, f \in Filters : Unsubscribe(n, f)
  BY <1>9, MemberUnsubscribe
<1>10. CASE \E n \in Nodes, f \in Filters : ClientPublish(n, f)
  BY <1>1, <1>10 DEF ClientPublish
<1>11. CASE \E n \in Nodes : RedisFails(n)
  BY <1>1, <1>11 DEF RedisFails, net, data
<1> QED BY <1>2, <1>3, <1>4, <1>5, <1>6, <1>7, <1>8, <1>9, <1>10, <1>11, NextIs DEF Step
-----------------------------------------------------------------------------
(* The connections: steps that leave the registration alone.               *)

\* Nothing new is held, and nothing current is lost.
SameHeld ==
  \A m \in Nodes : \A c \in Links :
    (Held(m, c)' => Held(m, c)) /\ (Current(c) /\ Held(m, c) => Held(m, c)')
SameSeen == \A c \in Links : Seen(c)' => Seen(c)
SameNodes == UNCHANGED <<phase, life, lock, events>>

MeetInv == LockInv /\ EventInv /\ EndsInv /\ LifeInv /\ OneWay /\ Meeting

LEMMA SameLives ==
  ASSUME life' = life
  PROVE  /\ \A c : Current(c)' <=> Current(c)
         /\ \A n, m : Conn(n, m)' = Conn(n, m)
BY DEF Current, Conn

LEMMA SameMade ==
  ASSUME ClusterType, SameHeld, SameNodes, NEW n \in Nodes, NEW m \in Nodes
  PROVE  Made(n, m)' <=> Made(n, m)
<1>1. life \in [Nodes -> Nat] /\ life' = life /\ events' = events
  BY DEF ClusterType, NodeType, SameNodes
<1>2. PICK c \in Links : c = Conn(n, m) /\ Current(c)
  BY <1>1, ConnFacts
<1>3. Conn(n, m)' = c
  BY <1>1, <1>2, SameLives
<1>4. Held(n, c)' <=> Held(n, c)
  BY <1>2 DEF SameHeld
<1>5. Held(n, Conn(n, m))' <=> Held(n, c)'
  BY <1>3 DEF Held, Waits, Adds, IsMemberAdd
<1>6. Held(n, Conn(n, m)) <=> Held(n, c)
  BY <1>2
<1>7. m \in Range(events[n])' <=> m \in Range(events[n])
  BY <1>1
<1> QED BY <1>4, <1>5, <1>6, <1>7 DEF Made

LEMMA MeetSame ==
  ASSUME ClusterType, MeetInv, SameHeld, SameSeen, SameNodes
  PROVE  MeetInv'
<1>1. phase' = phase /\ life' = life /\ lock' = lock /\ events' = events
  BY DEF SameNodes
<1>2. \A n \in Nodes : /\ Listening(n)' <=> Listening(n)
                       /\ Registered(n)' <=> Registered(n)
                       /\ Critical(n)' <=> Critical(n)
  BY <1>1 DEF Listening, Registered, Critical
<1>3. LockInv'
  BY <1>1, <1>2 DEF MeetInv, LockInv
<1>4. EventInv'
  BY <1>1, <1>2 DEF MeetInv, EventInv
<1>5. EndsInv'
  BY DEF MeetInv, EndsInv, SameHeld
<1>6. LifeInv'
  <2> SUFFICES ASSUME NEW c \in Links, Seen(c)'
               PROVE  /\ c.from # c.to /\ c.lives[1] <= life'[c.from] /\ c.lives[2] <= life'[c.to]
                      /\ Current(c)' => /\ Listening(c.from)' /\ Registered(c.to)'
                                        /\ Held(c.from, c)' /\ Held(c.to, c)'
    BY DEF LifeInv
  <2>1. Seen(c)
    BY DEF SameSeen
  <2>2. c.from \in Nodes /\ c.to \in Nodes
    BY DEF Links
  <2>3. c.from # c.to /\ c.lives[1] <= life'[c.from] /\ c.lives[2] <= life'[c.to]
    BY <1>1, <2>1 DEF MeetInv, LifeInv
  <2>4. Current(c)' => Current(c)
    BY <1>1, SameLives
  <2>5. Current(c) => Listening(c.from) /\ Registered(c.to) /\ Held(c.from, c) /\ Held(c.to, c)
    BY <2>1 DEF MeetInv, LifeInv
  <2>6. Current(c) => Held(c.from, c)' /\ Held(c.to, c)'
    BY <2>2, <2>5 DEF SameHeld
  <2>7. Current(c) => Listening(c.from)' /\ Registered(c.to)'
    BY <1>2, <2>2, <2>5
  <2> QED BY <2>3, <2>4, <2>6, <2>7
<1>7. \A n, m \in Nodes : Made(n, m)' <=> Made(n, m)
  BY SameMade
<1>8. OneWay'
  BY <1>7 DEF MeetInv, OneWay
<1>9. Meeting'
  BY <1>2, <1>7 DEF MeetInv, Meeting
<1> QED BY <1>3, <1>4, <1>5, <1>6, <1>8, <1>9 DEF MeetInv
-----------------------------------------------------------------------------
(* The connections: registration.                                          *)

\* Nothing happens to the connections.
SameLinks == UNCHANGED <<life, incoming, members, exec, late>>

LEMMA SameLinksHeld ==
  ASSUME SameLinks
  PROVE  /\ \A m, c : Held(m, c)' <=> Held(m, c)
         /\ \A c : Seen(c)' <=> Seen(c)
         /\ \A c : Current(c)' <=> Current(c)
         /\ \A n, m : Held(n, Conn(n, m))' <=> Held(n, Conn(n, m))
<1>1. \A m, c : Held(m, c)' <=> Held(m, c)
  BY DEF SameLinks, Held, Waits, Adds, IsMemberAdd
<1>2. \A c : Seen(c)' <=> Seen(c)
  BY <1>1 DEF Seen, SameLinks
<1>3. \A c : Current(c)' <=> Current(c)
  BY DEF Current, SameLinks
<1>4. ASSUME NEW n, NEW m PROVE Held(n, Conn(n, m))' <=> Held(n, Conn(n, m))
  <2>1. Conn(n, m)' = Conn(n, m)
    BY DEF Conn, SameLinks
  <2> QED BY <2>1 DEF SameLinks, Held, Waits, Adds, IsMemberAdd
<1> QED BY <1>1, <1>2, <1>3, <1>4

\* The phases of registration go forward.
Forward ==
  \A n \in Nodes : (Listening(n) => Listening(n)') /\ (Registered(n) => Registered(n)')

LEMMA LifeForward ==
  ASSUME ClusterType, EndsInv, LifeInv, SameLinks, Forward
  PROVE  EndsInv' /\ LifeInv'
<1>1. life' = life
  BY DEF SameLinks
<1>2. EndsInv'
  BY SameLinksHeld DEF EndsInv
<1>3. LifeInv'
  <2> SUFFICES ASSUME NEW c \in Links, Seen(c)'
               PROVE  /\ c.from # c.to /\ c.lives[1] <= life'[c.from] /\ c.lives[2] <= life'[c.to]
                      /\ Current(c)' => /\ Listening(c.from)' /\ Registered(c.to)'
                                        /\ Held(c.from, c)' /\ Held(c.to, c)'
    BY DEF LifeInv
  <2>1. Seen(c)
    BY SameLinksHeld
  <2>2. c.from \in Nodes /\ c.to \in Nodes
    BY DEF Links
  <2>3. c.from # c.to /\ c.lives[1] <= life'[c.from] /\ c.lives[2] <= life'[c.to]
    BY <1>1, <2>1 DEF LifeInv
  <2>4. ASSUME Current(c)'
        PROVE  Listening(c.from)' /\ Registered(c.to)' /\ Held(c.from, c)' /\ Held(c.to, c)'
    <3>1. Current(c)
      BY <2>4, SameLinksHeld
    <3>2. Listening(c.from) /\ Registered(c.to) /\ Held(c.from, c) /\ Held(c.to, c)
      BY <2>1, <3>1 DEF LifeInv
    <3> QED BY <2>2, <3>2, SameLinksHeld DEF Forward
  <2> QED BY <2>3, <2>4
<1> QED BY <1>2, <1>3

\* Whoever has connected or been told listens, and the other has registered.
LEMMA MadeMeans ==
  ASSUME ClusterType, EventInv, LifeInv, NEW n \in Nodes, NEW m \in Nodes, Made(n, m)
  PROVE  Listening(n) /\ Registered(m) /\ n # m
<1>1. CASE m \in Range(events[n])
  BY <1>1 DEF EventInv
<1>2. CASE Held(n, Conn(n, m))
  <2>1. life \in [Nodes -> Nat]
    BY DEF ClusterType, NodeType
  <2>2. PICK c \in Links : c = Conn(n, m) /\ Current(c) /\ c.from = n /\ c.to = m
    BY <2>1, ConnFacts
  <2>3. Seen(c)
    BY <1>2, <2>2 DEF Seen
  <2> QED BY <2>2, <2>3 DEF LifeInv
<1> QED BY <1>1, <1>2 DEF Made

\* Who is registering is alone in it.
LEMMA OneCritical ==
  ASSUME LockInv, NEW n \in Nodes, NEW m \in Nodes, Critical(n), Critical(m)
  PROVE  n = m
BY DEF LockInv

\* The phases that count.
LEMMA PhaseFacts ==
  ASSUME NEW n
  PROVE  /\ Listening(n) => Registered(n)
         /\ Registered(n) => Listening(n) \/ phase[n] = "listening"
         /\ phase[n] \in {"registering", "listening", "releasing"} <=> Critical(n)
BY DEF Listening, Registered, Critical

LEMMA QuietForward ==
  ASSUME ClusterType, Quiet
  PROVE  Forward /\ SameLinks /\ events' = events
<1>1. SameLinks /\ events' = events
  BY DEF Quiet, LockExpires, Start, Acquire, Listen, Release, SameLinks, net, data
<1>2. phase \in [Nodes -> Phases]
  BY DEF ClusterType, NodeType
<1>3. ASSUME LockExpires PROVE Forward
  <2>1. phase' = phase
    BY <1>3 DEF LockExpires
  <2>2. ASSUME NEW n \in Nodes
        PROVE  (Listening(n) => Listening(n)') /\ (Registered(n) => Registered(n)')
    BY <2>1 DEF Listening, Registered
  <2> QED BY <2>2 DEF Forward
<1>4. ASSUME NEW n \in Nodes, Start(n) PROVE Forward
  BY <1>2, <1>4 DEF Start, Forward, Listening, Registered
<1>5. ASSUME NEW n \in Nodes, Acquire(n) PROVE Forward
  BY <1>2, <1>5 DEF Acquire, Forward, Listening, Registered
<1>6. ASSUME NEW n \in Nodes, Listen(n) PROVE Forward
  BY <1>2, <1>6 DEF Listen, Forward, Listening, Registered
<1>7. ASSUME NEW n \in Nodes, Release(n) PROVE Forward
  BY <1>2, <1>7 DEF Release, Forward, Listening, Registered
<1> QED BY <1>1, <1>3, <1>4, <1>5, <1>6, <1>7 DEF Quiet

LEMMA QuietLock ==
  ASSUME ClusterType, Nobody \notin Nodes, LockInv, Quiet, ~disturbed'
  PROVE  LockInv'
<1>1. phase \in [Nodes -> Phases]
  BY DEF ClusterType, NodeType
<1>2. CASE LockExpires
  <2>1. lock \notin Nodes /\ phase' = phase
    BY <1>2 DEF LockExpires
  <2> QED BY <2>1 DEF LockInv, Critical
<1>3. ASSUME NEW n \in Nodes, Start(n) PROVE LockInv'
  BY <1>1, <1>3 DEF Start, LockInv, Critical
<1>4. ASSUME NEW n \in Nodes, Acquire(n) PROVE LockInv'
  BY <1>1, <1>4 DEF Acquire, LockFree, LockInv, Critical
<1>5. ASSUME NEW n \in Nodes, Listen(n) PROVE LockInv'
  BY <1>1, <1>5 DEF Listen, LockInv, Critical
<1>6. ASSUME NEW n \in Nodes, Release(n) PROVE LockInv'
  <2>1. phase' = [phase EXCEPT ![n] = "up"] /\ Critical(n)
    BY <1>6 DEF Release, Critical
  <2>2. lock = n
    BY <2>1 DEF LockInv
  <2>3. \A m \in Nodes : m # n => ~Critical(m)
    BY <2>2 DEF LockInv
  <2>4. \A m \in Nodes : ~Critical(m)'
    BY <1>1, <2>1, <2>3 DEF Critical
  <2> QED BY <2>4 DEF LockInv
<1> QED BY <1>2, <1>3, <1>4, <1>5, <1>6 DEF Quiet

\* While a broker that has the lock starts to listen, no other one does.
LEMMA QuietMeeting ==
  ASSUME ClusterType, LockInv, Meeting, Quiet,
         NEW n \in Nodes, NEW m \in Nodes, n # m, Listening(n)', Registered(m)'
  PROVE  Made(n, m) \/ Made(m, n)
<1>1. phase \in [Nodes -> Phases]
  BY DEF ClusterType, NodeType
<1>2. Registered(m)
  <2>1. CASE LockExpires
    BY <2>1 DEF LockExpires, Registered
  <2>2. ASSUME NEW k \in Nodes, Start(k) \/ Acquire(k) PROVE Registered(m)
    BY <1>1, <2>2 DEF Start, Acquire, Registered
  <2>3. ASSUME NEW k \in Nodes, Listen(k) PROVE Registered(m)
    BY <1>1, <2>3 DEF Listen, Registered
  <2>4. ASSUME NEW k \in Nodes, Release(k) PROVE Registered(m)
    BY <1>1, <2>4 DEF Release, Registered
  <2> QED BY <2>1, <2>2, <2>3, <2>4 DEF Quiet
<1>3. CASE Listening(n)
  BY <1>2, <1>3 DEF Meeting
<1>4. CASE ~Listening(n)
  <2>1. phase[n] = "listening"
    <3>1. CASE LockExpires
      BY <1>4, <3>1 DEF LockExpires, Listening
    <3>2. ASSUME NEW k \in Nodes, Start(k) \/ Acquire(k) PROVE FALSE
      BY <1>1, <1>4, <3>2 DEF Start, Acquire, Listening
    <3>3. ASSUME NEW k \in Nodes, Listen(k) PROVE phase[n] = "listening"
      BY <1>1, <1>4, <3>3 DEF Listen, Listening
    <3>4. ASSUME NEW k \in Nodes, Release(k) PROVE FALSE
      BY <1>1, <1>4, <3>4 DEF Release, Listening
    <3> QED BY <3>1, <3>2, <3>3, <3>4 DEF Quiet
  <2>2. Critical(n) /\ Registered(n)
    BY <2>1 DEF Critical, Registered
  <2>3. ~Critical(m)
    BY <2>2, OneCritical
  <2>4. Listening(m)
    BY <1>2, <2>3 DEF Critical, Registered, Listening
  <2> QED BY <2>2, <2>4 DEF Meeting
<1> QED BY <1>3, <1>4

LEMMA QuietMeets ==
  ASSUME ClusterType, Nobody \notin Nodes, MeetInv, Quiet, ~disturbed'
  PROVE  MeetInv'
<1>1. Forward /\ SameLinks /\ events' = events
  BY QuietForward
<1>2. LockInv'
  BY QuietLock DEF MeetInv
<1>3. EventInv'
  BY <1>1 DEF MeetInv, EventInv, Forward
<1>4. EndsInv' /\ LifeInv'
  BY <1>1, LifeForward DEF MeetInv
<1>5. \A n, m \in Nodes : Made(n, m)' <=> Made(n, m)
  BY <1>1, SameLinksHeld DEF Made
<1>6. OneWay'
  BY <1>5 DEF MeetInv, OneWay
<1>7. Meeting'
  BY <1>5, QuietMeeting DEF MeetInv, Meeting
<1> QED BY <1>2, <1>3, <1>4, <1>6, <1>7 DEF MeetInv

\* A registration is heard by all that listen, and the broker itself does not yet.
LEMMA RegistersMeets ==
  ASSUME ClusterType, MeetInv, Registers
  PROVE  MeetInv'
<1> PICK n \in Nodes : Register(n)
  BY DEF Registers
<1>1. /\ phase[n] = "registering" /\ phase' = [phase EXCEPT ![n] = "listening"]
      /\ events' = [m \in Nodes |-> IF Listening(m) THEN Append(events[m], n) ELSE events[m]]
      /\ lock' = lock /\ SameLinks
  BY DEF Register, SameLinks, net, data
<1>2. phase \in [Nodes -> Phases] /\ events \in [Nodes -> Seq(Nodes)]
  BY DEF ClusterType, NodeType
<1>3. /\ \A m \in Nodes : Listening(m)' <=> Listening(m)
      /\ \A m \in Nodes : Registered(m)' <=> Registered(m) \/ m = n
      /\ \A m \in Nodes : Critical(m)' <=> Critical(m)
      /\ ~Listening(n) /\ ~Registered(n) /\ Critical(n)
  BY <1>1, <1>2 DEF Listening, Registered, Critical
<1>4. \A m \in Nodes : Range(events'[m]) = IF Listening(m) THEN Range(events[m]) \cup {n} ELSE Range(events[m])
  <2> SUFFICES ASSUME NEW m \in Nodes
               PROVE  Range(events'[m]) = IF Listening(m) THEN Range(events[m]) \cup {n} ELSE Range(events[m])
    OBVIOUS
  <2>1. events[m] \in Seq(Nodes)
    BY <1>2
  <2>2. Range(Append(events[m], n)) = Range(events[m]) \cup {n}
    BY <2>1, RangeFacts
  <2>3. events'[m] = IF Listening(m) THEN Append(events[m], n) ELSE events[m]
    BY <1>1
  <2> QED BY <2>2, <2>3
<1>5. LockInv'
  BY <1>1, <1>3 DEF MeetInv, LockInv
<1>6. EventInv'
  <2> SUFFICES ASSUME NEW k \in Nodes, NEW m \in Nodes, m \in Range(events'[k])
               PROVE  Listening(k)' /\ Registered(m)' /\ k # m
    BY DEF EventInv
  <2>1. CASE m \in Range(events[k])
    BY <1>3, <2>1 DEF MeetInv, EventInv
  <2>2. CASE m = n /\ Listening(k)
    BY <1>3, <2>2
  <2> QED BY <1>4, <2>1, <2>2
<1>7. EndsInv' /\ LifeInv'
  <2>1. Forward
    BY <1>3 DEF Forward
  <2> QED BY <1>1, <2>1, LifeForward DEF MeetInv
<1>8. \A k, m \in Nodes : Made(k, m)' <=> Made(k, m) \/ (m = n /\ Listening(k))
  <2> SUFFICES ASSUME NEW k \in Nodes, NEW m \in Nodes
               PROVE  Made(k, m)' <=> Made(k, m) \/ (m = n /\ Listening(k))
    OBVIOUS
  <2>1. Held(k, Conn(k, m))' <=> Held(k, Conn(k, m))
    BY <1>1, SameLinksHeld
  <2>2. m \in Range(events'[k]) <=> m \in Range(events[k]) \/ (m = n /\ Listening(k))
    BY <1>4
  <2> QED BY <2>1, <2>2 DEF Made
<1>9. \A m \in Nodes : ~Made(n, m)
  BY <1>3, MadeMeans DEF MeetInv
<1>10. OneWay'
  <2> SUFFICES ASSUME NEW k \in Nodes, NEW m \in Nodes, Made(k, m)', Made(m, k)' PROVE FALSE
    BY DEF OneWay
  <2>1. Made(k, m) \/ (m = n /\ Listening(k))
    BY <1>8
  <2>2. Made(m, k) \/ (k = n /\ Listening(m))
    BY <1>8
  <2>3. ~(Made(k, m) /\ Made(m, k))
    BY DEF MeetInv, OneWay
  <2> QED BY <1>3, <1>9, <2>1, <2>2, <2>3
<1>11. Meeting'
  <2> SUFFICES ASSUME NEW k \in Nodes, NEW m \in Nodes, k # m, Listening(k)', Registered(m)'
               PROVE  Made(k, m)' \/ Made(m, k)'
    BY DEF Meeting
  <2>1. Listening(k) /\ (Registered(m) \/ m = n)
    BY <1>3
  <2>2. Registered(m) => Made(k, m) \/ Made(m, k)
    BY <2>1 DEF MeetInv, Meeting
  <2> QED BY <1>8, <2>1, <2>2
<1> QED BY <1>5, <1>6, <1>7, <1>10, <1>11 DEF MeetInv
-----------------------------------------------------------------------------
(* The connections: a broker stops, a broker is discovered.                *)

\* A broker that stops holds nothing; the others hold what they held.
LEMMA StopHeld ==
  ASSUME ClusterType, NEW n \in Nodes, Stop(n), NEW m \in Nodes, NEW c
  PROVE  Held(m, c)' <=> m # n /\ Held(m, c)
<1>1. incoming' = [incoming EXCEPT ![n] = <<>>] /\ members' = [members EXCEPT ![n] = {}]
      /\ exec' = [exec EXCEPT ![n] = <<>>]
  BY DEF Stop
<1>2. exec \in [Nodes -> Seq(Tasks)] /\ members \in [Nodes -> SUBSET Links]
      /\ incoming \in [Nodes -> Seq(Links)]
  BY DEF ClusterType, QueueType, LinkType
<1>3. CASE m = n
  <2>1. incoming'[n] = <<>> /\ members'[n] = {} /\ exec'[n] = <<>>
    BY <1>1, <1>2
  <2>2. Range(incoming'[n]) = {} /\ DOMAIN exec'[n] = {}
    BY <2>1 DEF Range
  <2>3. ~Held(m, c)'
    BY <1>3, <2>1, <2>2 DEF Held, Waits
  <2> QED BY <1>3, <2>3
<1>4. CASE m # n
  <2>1. incoming'[m] = incoming[m] /\ members'[m] = members[m] /\ exec'[m] = exec[m]
    BY <1>1, <1>2, <1>4
  <2> QED BY <1>4, <2>1 DEF Held, Waits, Adds, IsMemberAdd
<1> QED BY <1>3, <1>4

\* What stopping does to the brokers.
LEMMA StopNodes ==
  ASSUME ClusterType, NEW n \in Nodes, Stop(n)
  PROVE  /\ phase'[n] = "off" /\ life'[n] = life[n] + 1 /\ events'[n] = <<>> /\ life[n] \in Nat
         /\ \A m \in Nodes : m # n => phase'[m] = phase[m] /\ life'[m] = life[m] /\ events'[m] = events[m]
         /\ \A m \in Nodes : /\ Listening(m)' <=> m # n /\ Listening(m)
                             /\ Registered(m)' <=> m # n /\ Registered(m)
                             /\ Critical(m)' <=> m # n /\ Critical(m)
<1>1. phase' = [phase EXCEPT ![n] = "off"] /\ life' = [life EXCEPT ![n] = @ + 1]
      /\ events' = [events EXCEPT ![n] = <<>>]
  BY DEF Stop
<1>2. phase \in [Nodes -> Phases] /\ life \in [Nodes -> Nat] /\ events \in [Nodes -> Seq(Nodes)]
  BY DEF ClusterType, NodeType
<1>3. /\ phase'[n] = "off" /\ life'[n] = life[n] + 1 /\ events'[n] = <<>> /\ life[n] \in Nat
      /\ \A m \in Nodes : m # n => phase'[m] = phase[m] /\ life'[m] = life[m] /\ events'[m] = events[m]
  BY <1>1, <1>2
<1>4. \A m \in Nodes : /\ Listening(m)' <=> m # n /\ Listening(m)
                       /\ Registered(m)' <=> m # n /\ Registered(m)
                       /\ Critical(m)' <=> m # n /\ Critical(m)
  BY <1>1, <1>2 DEF Listening, Registered, Critical
<1> QED BY <1>3, <1>4

\* A connection of the stopped broker belongs to the past, the others are as current as before.
LEMMA StopCurrent ==
  ASSUME ClusterType, LifeInv, NEW n \in Nodes, Stop(n), NEW c \in Links, Seen(c)
  PROVE  /\ Current(c)' <=> n \notin {c.from, c.to} /\ Current(c)
         /\ c.lives[1] <= life'[c.from] /\ c.lives[2] <= life'[c.to]
<1>1. PICK l \in Nat : l = life[n] /\ life'[n] = l + 1
  BY StopNodes
<1>2. c.from \in Nodes /\ c.to \in Nodes /\ c.lives \in Nat \X Nat
  BY DEF Links
<1>3. PICK x \in Nat, y \in Nat : c.lives = <<x, y>>
  BY <1>2
<1>4. x <= life[c.from] /\ y <= life[c.to]
  BY <1>3 DEF LifeInv
<1>5. \A m \in Nodes : m # n => life'[m] = life[m]
  BY StopNodes
<1>6. CASE c.from = n
  <2>1. x # l + 1 /\ x <= l + 1
    BY <1>1, <1>4, <1>6
  <2>2. ~Current(c)'
    BY <1>1, <1>3, <1>6, <2>1 DEF Current
  <2>3. y <= life'[c.to]
    BY <1>1, <1>2, <1>4, <1>5
  <2> QED BY <1>1, <1>3, <1>6, <2>1, <2>2, <2>3
<1>7. CASE c.to = n
  <2>1. y # l + 1 /\ y <= l + 1
    BY <1>1, <1>4, <1>7
  <2>2. ~Current(c)'
    BY <1>1, <1>3, <1>7, <2>1 DEF Current
  <2>3. x <= life'[c.from]
    BY <1>1, <1>2, <1>4, <1>5
  <2> QED BY <1>1, <1>3, <1>7, <2>1, <2>2, <2>3
<1>8. CASE c.from # n /\ c.to # n
  <2>1. life'[c.from] = life[c.from] /\ life'[c.to] = life[c.to]
    BY <1>2, <1>5, <1>8
  <2> QED BY <1>3, <1>4, <1>8, <2>1 DEF Current
<1> QED BY <1>6, <1>7, <1>8

LEMMA StopSeen ==
  ASSUME ClusterType, NEW n \in Nodes, Stop(n), NEW c, Seen(c)'
  PROVE  Seen(c)
<1>1. late' \subseteq late
  BY DEF Stop
<1>2. \A m \in Nodes : Held(m, c)' => Held(m, c)
  BY StopHeld
<1> QED BY <1>1, <1>2 DEF Seen

\* Nobody has made or will make a connection with the stopped broker.
LEMMA StopMade ==
  ASSUME ClusterType, EventInv, LifeInv, NEW n \in Nodes, Stop(n),
         \A m \in Nodes : n \notin Range(events[m]),
         NEW k \in Nodes, NEW m \in Nodes
  PROVE  Made(k, m)' <=> k # n /\ m # n /\ Made(k, m)
<1>1. life \in [Nodes -> Nat] /\ life' \in [Nodes -> Nat]
  <2>1. life \in [Nodes -> Nat] /\ life' = [life EXCEPT ![n] = @ + 1]
    BY DEF ClusterType, NodeType, Stop
  <2> QED BY <2>1
<1>2. CASE k = n
  <2>1. ~Held(n, Conn(n, m))'
    <3>1. PICK c : c = Conn(n, m)'
      OBVIOUS
    <3>2. ~Held(n, c)'
      BY StopHeld
    <3> QED BY <3>1, <3>2 DEF Held, Waits, Adds, IsMemberAdd
  <2>2. Range(events'[n]) = {}
    BY StopNodes DEF Range
  <2> QED BY <1>2, <2>1, <2>2 DEF Made
<1>3. CASE k # n /\ m = n
  <2>1. Range(events'[k]) = Range(events[k])
    BY <1>3, StopNodes
  <2>2. ~Held(k, Conn(k, m))'
    <3>1. PICK l \in Nat : l = life[n] /\ life'[n] = l + 1
      BY StopNodes
    <3>2. PICK c \in Links : c = Conn(k, n)' /\ c.to = n /\ c.lives[2] = l + 1
      <4> DEFINE e == [from |-> k, to |-> n, lives |-> <<life'[k], life'[n]>>]
      <4>1. e \in Links /\ e.to = n /\ e.lives[2] = l + 1
        BY <1>1, <3>1 DEF Links
      <4>2. Conn(k, n)' = e
        BY DEF Conn
      <4> HIDE DEF e
      <4> QED BY <4>1, <4>2
    <3>3. ASSUME Held(k, c)' PROVE FALSE
      <4>1. Held(k, c)
        BY <3>3, StopHeld
      <4>2. c.lives[2] <= life[n]
        BY <3>2, <4>1 DEF LifeInv, Seen
      <4> QED BY <3>1, <3>2, <4>2
    <3> QED BY <1>3, <3>2, <3>3 DEF Held, Waits, Adds, IsMemberAdd
  <2> QED BY <1>3, <2>1, <2>2 DEF Made
<1>4. CASE k # n /\ m # n
  <2>1. life'[k] = life[k] /\ life'[m] = life[m] /\ events'[k] = events[k]
    BY <1>4, StopNodes
  <2>2. PICK c : c = Conn(k, m)
    OBVIOUS
  <2>3. Conn(k, m)' = c
    BY <2>1, <2>2 DEF Conn
  <2>4. Held(k, c)' <=> Held(k, c)
    BY <1>4, StopHeld
  <2>5. Held(k, Conn(k, m))' <=> Held(k, c)'
    BY <2>3 DEF Held, Waits, Adds, IsMemberAdd
  <2> QED BY <1>4, <2>1, <2>2, <2>4, <2>5 DEF Made
<1> QED BY <1>2, <1>3, <1>4

LEMMA StopMeets ==
  ASSUME ClusterType, MeetInv, NEW n \in Nodes, Stop(n),
         \A m \in Nodes : n \notin Range(events[m])
  PROVE  MeetInv'
<1>1. LockInv'
  <2>1. lock' = IF lock = n THEN Gone ELSE lock
    BY DEF Stop
  <2>2. \A m \in Nodes : Critical(m)' => m # n /\ lock = m
    BY StopNodes DEF MeetInv, LockInv
  <2> QED BY <2>1, <2>2 DEF LockInv
<1>2. EventInv'
  <2> SUFFICES ASSUME NEW k \in Nodes, NEW m \in Nodes, m \in Range(events'[k])
               PROVE  Listening(k)' /\ Registered(m)' /\ k # m
    BY DEF EventInv
  <2>1. k # n
    BY StopNodes DEF Range
  <2>2. m \in Range(events[k]) /\ m # n
    BY <2>1, StopNodes
  <2>3. Listening(k) /\ Registered(m) /\ k # m
    BY <2>2 DEF MeetInv, EventInv
  <2> QED BY <2>1, <2>2, <2>3, StopNodes
<1>3. EndsInv'
  BY StopHeld DEF MeetInv, EndsInv
<1>4. LifeInv'
  <2> SUFFICES ASSUME NEW c \in Links, Seen(c)'
               PROVE  /\ c.from # c.to /\ c.lives[1] <= life'[c.from] /\ c.lives[2] <= life'[c.to]
                      /\ Current(c)' => /\ Listening(c.from)' /\ Registered(c.to)'
                                        /\ Held(c.from, c)' /\ Held(c.to, c)'
    BY DEF LifeInv
  <2>1. Seen(c)
    BY StopSeen
  <2>2. c.from \in Nodes /\ c.to \in Nodes
    BY DEF Links
  <2>3. c.from # c.to /\ c.lives[1] <= life'[c.from] /\ c.lives[2] <= life'[c.to]
    BY <2>1, StopCurrent DEF MeetInv, LifeInv
  <2>4. ASSUME Current(c)'
        PROVE  Listening(c.from)' /\ Registered(c.to)' /\ Held(c.from, c)' /\ Held(c.to, c)'
    <3>1. Current(c) /\ c.from # n /\ c.to # n
      BY <2>1, <2>4, StopCurrent DEF MeetInv
    <3>2. Listening(c.from) /\ Registered(c.to) /\ Held(c.from, c) /\ Held(c.to, c)
      BY <2>1, <3>1 DEF MeetInv, LifeInv
    <3>3. Listening(c.from)' /\ Registered(c.to)'
      BY <2>2, <3>1, <3>2, StopNodes
    <3>4. Held(c.from, c)' /\ Held(c.to, c)'
      BY <2>2, <3>1, <3>2, StopHeld
    <3> QED BY <3>3, <3>4
  <2> QED BY <2>3, <2>4
<1>5. \A k, m \in Nodes : Made(k, m)' <=> k # n /\ m # n /\ Made(k, m)
  BY StopMade DEF MeetInv
<1>6. OneWay'
  BY <1>5 DEF MeetInv, OneWay
<1>7. Meeting'
  BY <1>5, StopNodes DEF MeetInv, Meeting
<1> QED BY <1>1, <1>2, <1>3, <1>4, <1>6, <1>7 DEF MeetInv

\* What discovery does: both ends hold the new connection.
LEMMA DiscoverFacts ==
  ASSUME ClusterType, EventInv, NEW n \in Nodes, Discover(n)
  PROVE  \E m \in Nodes : \E c \in Links :
           /\ c = Conn(n, m) /\ Current(c) /\ c.from = n /\ c.to = m
           /\ m # n /\ Listening(n) /\ Registered(m)
           /\ Range(events[n]) = {m} \cup Range(events'[n])
           /\ \A k \in Nodes : k # n => events'[k] = events[k]
           /\ \A k \in {n, m} : incoming'[k] = Append(incoming[k], c)
           /\ \A k \in Nodes \ {n, m} : incoming'[k] = incoming[k]
           /\ UNCHANGED <<phase, life, lock, conns, members, wire, exec, data, disturbed, cluster_faults>>
<1>1. events \in [Nodes -> Seq(Nodes)] /\ events[n] # <<>> /\ incoming \in [Nodes -> Seq(Links)]
      /\ life \in [Nodes -> Nat]
  BY DEF Discover, ClusterType, NodeType, LinkType
<1>2. PICK m \in Nodes : m = Head(events[n])
  BY <1>1
<1>3. Range(events[n]) = {m} \cup Range(Tail(events[n]))
  <2>1. events[n] \in Seq(Nodes)
    BY <1>1
  <2> QED BY <1>1, <1>2, <2>1, RangeFacts
<1>4. m # n /\ Listening(n) /\ Registered(m)
  BY <1>3 DEF EventInv
<1>5. PICK c \in Links : c = Conn(n, m) /\ Current(c) /\ c.from = n /\ c.to = m
  BY <1>1, ConnFacts
<1>6. incoming' = [incoming EXCEPT ![n] = Append(@, c), ![m] = Append(@, c)]
      /\ events' = [events EXCEPT ![n] = Tail(@)]
      /\ UNCHANGED <<phase, life, lock, conns, members, wire, exec, data, disturbed, cluster_faults>>
  BY <1>2, <1>5 DEF Discover
<1>7. /\ events'[n] = Tail(events[n]) /\ \A k \in Nodes : k # n => events'[k] = events[k]
  BY <1>1, <1>6
<1>8. /\ incoming'[n] = Append(incoming[n], c) /\ incoming'[m] = Append(incoming[m], c)
      /\ \A k \in Nodes \ {n, m} : incoming'[k] = incoming[k]
  BY <1>1, <1>4, <1>6
<1> QED BY <1>3, <1>4, <1>5, <1>6, <1>7, <1>8

LEMMA DiscoverMeets ==
  ASSUME ClusterType, MeetInv, NEW n \in Nodes, Discover(n)
  PROVE  MeetInv'
<1>1. PICK m \in Nodes : \E c \in Links :
           /\ c = Conn(n, m) /\ Current(c) /\ c.from = n /\ c.to = m
           /\ m # n /\ Listening(n) /\ Registered(m)
           /\ Range(events[n]) = {m} \cup Range(events'[n])
           /\ \A k \in Nodes : k # n => events'[k] = events[k]
           /\ \A k \in {n, m} : incoming'[k] = Append(incoming[k], c)
           /\ \A k \in Nodes \ {n, m} : incoming'[k] = incoming[k]
           /\ UNCHANGED <<phase, life, lock, conns, members, wire, exec, data, disturbed, cluster_faults>>
  BY DiscoverFacts DEF MeetInv
<1>2. PICK c \in Links :
           /\ c = Conn(n, m) /\ Current(c) /\ c.from = n /\ c.to = m
           /\ m # n /\ Listening(n) /\ Registered(m)
           /\ Range(events[n]) = {m} \cup Range(events'[n])
           /\ \A k \in Nodes : k # n => events'[k] = events[k]
           /\ \A k \in {n, m} : incoming'[k] = Append(incoming[k], c)
           /\ \A k \in Nodes \ {n, m} : incoming'[k] = incoming[k]
           /\ UNCHANGED <<phase, life, lock, conns, members, wire, exec, data, disturbed, cluster_faults>>
  BY <1>1
<1>3. phase' = phase /\ life' = life /\ lock' = lock /\ members' = members /\ exec' = exec /\ late' = late
  BY <1>2 DEF data
<1>4. \A k \in Nodes : /\ Listening(k)' <=> Listening(k)
                       /\ Registered(k)' <=> Registered(k)
                       /\ Critical(k)' <=> Critical(k)
  BY <1>3 DEF Listening, Registered, Critical
<1>5. \A k \in Nodes : \A d \in Links : Held(k, d)' <=> Held(k, d) \/ (k \in {n, m} /\ d = c)
  <2> SUFFICES ASSUME NEW k \in Nodes, NEW d \in Links
               PROVE  Held(k, d)' <=> Held(k, d) \/ (k \in {n, m} /\ d = c)
    OBVIOUS
  <2>1. Waits(k, d)' <=> Waits(k, d)
    BY <1>3 DEF Waits, Adds, IsMemberAdd
  <2>2. incoming[k] \in Seq(Links)
    BY DEF ClusterType, LinkType
  <2>3. d \in Range(incoming'[k]) <=> d \in Range(incoming[k]) \/ (k \in {n, m} /\ d = c)
    <3>1. Range(Append(incoming[k], c)) = Range(incoming[k]) \cup {c}
      BY <2>2, RangeFacts
    <3>2. CASE k \in {n, m}
      BY <1>2, <3>1, <3>2
    <3>3. CASE k \notin {n, m}
      BY <1>2, <3>3
    <3> QED BY <3>2, <3>3
  <2> QED BY <1>3, <2>1, <2>3 DEF Held
<1>6. \A d \in Links : Seen(d)' => Seen(d) \/ d = c
  BY <1>3, <1>5 DEF Seen
<1>7. \A d : Current(d)' <=> Current(d)
  BY <1>3, SameLives
<1>8. LockInv'
  BY <1>3, <1>4 DEF MeetInv, LockInv
<1>9. EventInv'
  <2> SUFFICES ASSUME NEW k \in Nodes, NEW j \in Nodes, j \in Range(events'[k])
               PROVE  Listening(k)' /\ Registered(j)' /\ k # j
    BY DEF EventInv
  <2>1. j \in Range(events[k])
    BY <1>2
  <2> QED BY <1>4, <2>1 DEF MeetInv, EventInv
<1>10. EndsInv'
  BY <1>2, <1>5 DEF MeetInv, EndsInv
<1>11. LifeInv'
  <2> SUFFICES ASSUME NEW d \in Links, Seen(d)'
               PROVE  /\ d.from # d.to /\ d.lives[1] <= life'[d.from] /\ d.lives[2] <= life'[d.to]
                      /\ Current(d)' => /\ Listening(d.from)' /\ Registered(d.to)'
                                        /\ Held(d.from, d)' /\ Held(d.to, d)'
    BY DEF LifeInv
  <2>1. CASE Seen(d)
    <3>1. d.from \in Nodes /\ d.to \in Nodes
      BY DEF Links
    <3>2. d.from # d.to /\ d.lives[1] <= life'[d.from] /\ d.lives[2] <= life'[d.to]
      BY <1>3, <2>1 DEF MeetInv, LifeInv
    <3>3. Current(d) => Listening(d.from) /\ Registered(d.to) /\ Held(d.from, d) /\ Held(d.to, d)
      BY <2>1 DEF MeetInv, LifeInv
    <3> QED BY <1>4, <1>5, <1>7, <3>1, <3>2, <3>3
  <2>2. CASE d = c
    <3>1. PICK x \in Nat, y \in Nat : x = life[n] /\ y = life[m]
      BY DEF ClusterType, NodeType
    <3>2. d.lives = <<x, y>>
      BY <1>2, <2>2, <3>1 DEF Current
    <3>3. d.lives[1] <= life'[d.from] /\ d.lives[2] <= life'[d.to]
      BY <1>2, <1>3, <2>2, <3>1, <3>2
    <3>4. Held(n, d)' /\ Held(m, d)'
      BY <1>5, <2>2
    <3> QED BY <1>2, <1>4, <2>2, <3>3, <3>4
  <2> QED BY <1>6, <2>1, <2>2
<1>12. ASSUME NEW k \in Nodes, NEW j \in Nodes PROVE Made(k, j)' <=> Made(k, j)
  <2>0. life \in [Nodes -> Nat]
    BY DEF ClusterType, NodeType
  <2>1. PICK d \in Links : d = Conn(k, j) /\ d.from = k /\ d.to = j
    BY <2>0, ConnFacts
  <2>2. Conn(k, j)' = d
    BY <1>3, <2>1, SameLives
  <2>3. Held(k, Conn(k, j))' <=> Held(k, d)'
    BY <2>2 DEF Held, Waits, Adds, IsMemberAdd
  <2>4. d = c <=> k = n /\ j = m
    BY <1>2, <2>1
  <2>5. Held(k, d)' <=> Held(k, d) \/ (k = n /\ j = m)
    BY <1>2, <1>5, <2>4
  <2>6. j \in Range(events[k]) <=> j \in Range(events'[k]) \/ (k = n /\ j = m)
    BY <1>2
  <2> QED BY <2>1, <2>3, <2>5, <2>6 DEF Made
<1>13. OneWay'
  BY <1>12 DEF MeetInv, OneWay
<1>14. Meeting'
  BY <1>4, <1>12 DEF MeetInv, Meeting
<1> QED BY <1>8, <1>9, <1>10, <1>11, <1>13, <1>14 DEF MeetInv
-----------------------------------------------------------------------------
(* The connections: their order.                                           *)

LEMMA SameAge ==
  ASSUME NEW n, NEW d, AgeOf(n, d), exec'[n] = exec[n], members'[n] = members[n],
         incoming'[n] = incoming[n]
  PROVE  AgeOf(n, d)'
<1>1. \A i, c : Adds(n, i, c)' <=> Adds(n, i, c)
  BY DEF Adds, IsMemberAdd
<1>2. \A c : Waits(n, c)' <=> Waits(n, c)
  BY <1>1 DEF Waits
<1> QED BY <1>1, <1>2 DEF AgeOf

\* The tasks of a queue that is lengthened or shortened.
LEMMA AddsPosted ==
  ASSUME ClusterType, NEW n \in Nodes, NEW t \in Tasks, exec'[n] = Append(exec[n], t)
  PROVE  /\ DOMAIN exec[n] = 1 .. Len(exec[n]) /\ DOMAIN exec'[n] = 1 .. Len(exec[n]) + 1
         /\ Len(exec[n]) \in Nat
         /\ \A i \in DOMAIN exec[n] : \A c : Adds(n, i, c)' <=> Adds(n, i, c)
         /\ \A l \in Nat : l = Len(exec[n]) + 1 => \A c : Adds(n, l, c)' <=> IsMemberAdd(t) /\ t.conn = c
         /\ \A c : Waits(n, c)' <=> Waits(n, c) \/ (IsMemberAdd(t) /\ t.conn = c)
<1>1. exec[n] \in Seq(Tasks)
  BY DEF ClusterType, QueueType
<1>2. /\ Len(exec[n]) \in Nat /\ DOMAIN exec[n] = 1 .. Len(exec[n])
      /\ DOMAIN exec'[n] = 1 .. Len(exec[n]) + 1
      /\ \A i \in 1 .. Len(exec[n]) : exec'[n][i] = exec[n][i]
      /\ exec'[n][Len(exec[n]) + 1] = t
  BY <1>1, Appended
<1>3. \A i \in DOMAIN exec[n] : \A c : Adds(n, i, c)' <=> Adds(n, i, c)
  BY <1>2 DEF Adds, IsMemberAdd
<1>4. PICK l \in Nat : l = Len(exec[n]) + 1 /\ exec'[n][l] = t
  BY <1>2
<1>5. \A c : Adds(n, l, c)' <=> IsMemberAdd(t) /\ t.conn = c
  BY <1>4 DEF Adds, IsMemberAdd
<1>6. DOMAIN exec'[n] = DOMAIN exec[n] \cup {l}
  BY <1>2, <1>4
<1>7. \A c : Waits(n, c)' <=> Waits(n, c) \/ (IsMemberAdd(t) /\ t.conn = c)
  BY <1>3, <1>5, <1>6 DEF Waits
<1> QED BY <1>2, <1>3, <1>4, <1>5, <1>7

LEMMA AddsRun ==
  ASSUME ClusterType, NEW n \in Nodes, Rest(n)
  PROVE  /\ DOMAIN exec[n] = 1 .. Len(exec[n]) /\ DOMAIN exec'[n] = 1 .. Len(exec[n]) - 1
         /\ Len(exec[n]) \in Nat \ {0}
         /\ \A i \in DOMAIN exec'[n] : \A c : Adds(n, i, c)' <=> Adds(n, i + 1, c)
         /\ \A c : Waits(n, c) <=> Waits(n, c)' \/ Adds(n, 1, c)
<1>1. exec[n] \in Seq(Tasks) /\ exec[n] # <<>> /\ exec'[n] = Tail(exec[n])
  BY RestFacts
<1>2. /\ Len(exec[n]) \in Nat \ {0} /\ DOMAIN exec[n] = 1 .. Len(exec[n])
      /\ DOMAIN exec'[n] = 1 .. Len(exec[n]) - 1
      /\ \A i \in 1 .. Len(exec[n]) - 1 : exec'[n][i] = exec[n][i + 1]
  BY <1>1, Shortened
<1>3. \A i \in DOMAIN exec'[n] : \A c : Adds(n, i, c)' <=> Adds(n, i + 1, c)
  BY <1>2 DEF Adds, IsMemberAdd
<1>4. ASSUME NEW c, Waits(n, c) PROVE Waits(n, c)' \/ Adds(n, 1, c)
  <2>1. PICK i \in DOMAIN exec[n] : Adds(n, i, c)
    BY <1>4 DEF Waits
  <2>2. CASE i = 1
    BY <2>1, <2>2
  <2>3. CASE i # 1
    <3>1. i - 1 \in DOMAIN exec'[n] /\ (i - 1) + 1 = i
      BY <1>2, <2>3
    <3>2. Adds(n, i - 1, c)'
      BY <1>3, <2>1, <3>1
    <3> QED BY <3>1, <3>2 DEF Waits
  <2> QED BY <2>2, <2>3
<1>5. ASSUME NEW c, Waits(n, c)' PROVE Waits(n, c)
  <2>1. PICK i \in DOMAIN exec'[n] : Adds(n, i, c)'
    BY <1>5 DEF Waits
  <2>2. i + 1 \in DOMAIN exec[n] /\ Adds(n, i + 1, c)
    BY <1>2, <1>3, <2>1
  <2> QED BY <2>2 DEF Waits
<1>6. ASSUME NEW c, Adds(n, 1, c) PROVE Waits(n, c)
  <2>1. 1 \in DOMAIN exec[n]
    BY <1>2
  <2> QED BY <1>6, <2>1 DEF Waits
<1> QED BY <1>2, <1>3, <1>4, <1>5, <1>6

\* A task that adds no member is posted.
LEMMA AgePosted ==
  ASSUME ClusterType, NEW n \in Nodes, NEW d \in Links, AgeOf(n, d), NEW t \in Tasks,
         exec'[n] = Append(exec[n], t), ~IsMemberAdd(t),
         members'[n] = members[n], incoming'[n] = incoming[n]
  PROVE  AgeOf(n, d)'
<1>1. PICK l \in Nat : l = Len(exec[n]) + 1
  BY AddsPosted
<1>2. /\ DOMAIN exec[n] = 1 .. l - 1 /\ DOMAIN exec'[n] = 1 .. l
      /\ \A i \in DOMAIN exec[n] : \A c : Adds(n, i, c)' <=> Adds(n, i, c)
      /\ \A c : ~Adds(n, l, c)'
      /\ \A c : Waits(n, c)' <=> Waits(n, c)
  BY <1>1, AddsPosted
<1>3. ASSUME NEW i \in DOMAIN exec'[n], NEW j \in DOMAIN exec'[n], NEW c \in Links, i < j,
             Adds(n, i, d)', Adds(n, j, c)'
      PROVE  Same(c, d)
  <2>1. i # l /\ j # l
    BY <1>2, <1>3
  <2>2. i \in DOMAIN exec[n] /\ j \in DOMAIN exec[n]
    BY <1>2, <2>1
  <2>3. Adds(n, i, d) /\ Adds(n, j, c)
    BY <1>2, <1>3, <2>2
  <2> QED BY <1>3, <2>2, <2>3 DEF AgeOf
<1> QED BY <1>2, <1>3 DEF AgeOf

\* The first connection of incoming becomes a task.
LEMMA AgeNewConn ==
  ASSUME ClusterType, NEW n \in Nodes, NEW d \in Links, AgeOf(n, d), NEW t \in Tasks, NEW h \in Links,
         exec'[n] = Append(exec[n], t), IsMemberAdd(t), t.conn = h, incoming[n] # <<>>,
         h = Head(incoming[n]), members'[n] = members[n], incoming'[n] = Tail(incoming[n])
  PROVE  AgeOf(n, d)'
<1>0. incoming[n] \in Seq(Links)
  BY DEF ClusterType, LinkType
<1>1. PICK l \in Nat : l = Len(exec[n]) + 1
  BY AddsPosted
<1>2. /\ DOMAIN exec[n] = 1 .. l - 1 /\ DOMAIN exec'[n] = 1 .. l
      /\ \A i \in DOMAIN exec[n] : \A c : Adds(n, i, c)' <=> Adds(n, i, c)
      /\ \A c : Adds(n, l, c)' <=> c = h
      /\ \A c : Waits(n, c)' <=> Waits(n, c) \/ c = h
  BY <1>1, AddsPosted
<1>3. /\ Range(incoming'[n]) \subseteq Range(incoming[n]) /\ h \in Range(incoming[n])
  BY <1>0, RangeFacts
<1>4. PICK k \in Nat : k = Len(incoming[n])
  BY <1>0
<1>5. /\ DOMAIN incoming[n] = 1 .. k /\ DOMAIN incoming'[n] = 1 .. k - 1 /\ k > 0
      /\ \A i \in 1 .. k - 1 : incoming'[n][i] = incoming[n][i + 1]
      /\ incoming[n][1] = h
  BY <1>0, <1>4, Shortened
<1>6. ASSUME d \in members'[n], NEW c \in Links, Waits(n, c)' \/ c \in Range(incoming'[n])
      PROVE  Same(c, d)
  BY <1>2, <1>3, <1>6 DEF AgeOf
<1>7. ASSUME NEW i \in DOMAIN exec'[n], NEW j \in DOMAIN exec'[n], NEW c \in Links, i < j,
             Adds(n, i, d)', Adds(n, j, c)'
      PROVE  Same(c, d)
  <2>1. i \in DOMAIN exec[n] /\ (j \in DOMAIN exec[n] \/ j = l)
    BY <1>2, <1>7
  <2>2. Adds(n, i, d)
    BY <1>2, <1>7, <2>1
  <2>3. CASE j \in DOMAIN exec[n]
    <3>1. Adds(n, j, c)
      BY <1>2, <1>7, <2>3
    <3> QED BY <1>7, <2>1, <2>2, <2>3, <3>1 DEF AgeOf
  <2>4. CASE j = l
    <3>1. c = h /\ Waits(n, d)
      BY <1>2, <1>7, <2>1, <2>2, <2>4 DEF Waits
    <3> QED BY <1>3, <3>1 DEF AgeOf
  <2> QED BY <2>1, <2>3, <2>4
<1>8. ASSUME Waits(n, d)', NEW c \in Range(incoming'[n]) PROVE Same(c, d)
  <2>1. CASE Waits(n, d)
    BY <1>3, <1>8, <2>1 DEF AgeOf
  <2>2. CASE d = h
    <3>1. PICK i \in 1 .. k - 1 : c = incoming'[n][i]
      BY <1>5, <1>8 DEF Range
    <3>2. c = incoming[n][i + 1] /\ 1 \in DOMAIN incoming[n] /\ i + 1 \in DOMAIN incoming[n] /\ 1 < i + 1
      BY <1>5, <3>1
    <3> QED BY <1>5, <2>2, <3>2 DEF AgeOf
  <2> QED BY <1>2, <1>8, <2>1, <2>2
<1>9. ASSUME NEW i \in DOMAIN incoming'[n], NEW j \in DOMAIN incoming'[n], i < j, incoming'[n][i] = d
      PROVE  Same(incoming'[n][j], d)
  <2>1. i + 1 \in DOMAIN incoming[n] /\ j + 1 \in DOMAIN incoming[n] /\ i + 1 < j + 1
    BY <1>5, <1>9
  <2>2. incoming[n][i + 1] = d /\ incoming'[n][j] = incoming[n][j + 1]
    BY <1>5, <1>9
  <2> QED BY <2>1, <2>2 DEF AgeOf
<1> QED BY <1>6, <1>7, <1>8, <1>9 DEF AgeOf, Same

\* A task is run; a member that it adds is older than what comes behind.
LEMMA AgeRun ==
  ASSUME ClusterType, NEW n \in Nodes, NEW d \in Links, AgeOf(n, d), Rest(n),
         d \in members'[n] => d \in members[n] \/ Adds(n, 1, d), incoming'[n] = incoming[n]
  PROVE  AgeOf(n, d)'
<1>1. PICK l \in Nat : l = Len(exec[n])
  BY AddsRun
<1>2. /\ DOMAIN exec[n] = 1 .. l /\ DOMAIN exec'[n] = 1 .. l - 1 /\ l > 0
      /\ \A i \in DOMAIN exec'[n] : \A c : Adds(n, i, c)' <=> Adds(n, i + 1, c)
      /\ \A c : Waits(n, c) <=> Waits(n, c)' \/ Adds(n, 1, c)
  BY <1>1, AddsRun
<1>3. ASSUME d \in members'[n], NEW c \in Links, Waits(n, c)' \/ c \in Range(incoming'[n])
      PROVE  Same(c, d)
  <2>1. CASE d \in members[n]
    BY <1>2, <1>3, <2>1 DEF AgeOf
  <2>2. CASE Adds(n, 1, d) /\ Waits(n, c)'
    <3>1. PICK j \in DOMAIN exec'[n] : Adds(n, j, c)'
      BY <2>2 DEF Waits
    <3>2. Adds(n, j + 1, c) /\ 1 \in DOMAIN exec[n] /\ j + 1 \in DOMAIN exec[n] /\ 1 < j + 1
      BY <1>2, <3>1
    <3> QED BY <2>2, <3>2 DEF AgeOf
  <2>3. CASE Adds(n, 1, d) /\ c \in Range(incoming'[n])
    BY <1>2, <2>3 DEF AgeOf
  <2> QED BY <1>3, <2>1, <2>2, <2>3
<1>4. ASSUME NEW i \in DOMAIN exec'[n], NEW j \in DOMAIN exec'[n], NEW c \in Links, i < j,
             Adds(n, i, d)', Adds(n, j, c)'
      PROVE  Same(c, d)
  <2>1. i + 1 \in DOMAIN exec[n] /\ j + 1 \in DOMAIN exec[n] /\ i + 1 < j + 1
    BY <1>2, <1>4
  <2>2. Adds(n, i + 1, d) /\ Adds(n, j + 1, c)
    BY <1>2, <1>4
  <2> QED BY <2>1, <2>2 DEF AgeOf
<1>5. ASSUME Waits(n, d)', NEW c \in Range(incoming'[n]) PROVE Same(c, d)
  BY <1>2, <1>5 DEF AgeOf
<1>6. ASSUME NEW i \in DOMAIN incoming'[n], NEW j \in DOMAIN incoming'[n], i < j, incoming'[n][i] = d
      PROVE  Same(incoming'[n][j], d)
  BY <1>6 DEF AgeOf
<1> QED BY <1>3, <1>4, <1>5, <1>6 DEF AgeOf, Same

\* A connection of now is put into incoming.
LEMMA AgeIncoming ==
  ASSUME ClusterType, NEW n \in Nodes, NEW d \in Links, AgeOf(n, d), Current(d), NEW h \in Links, Current(h),
         exec'[n] = exec[n], members'[n] = members[n], incoming'[n] = Append(incoming[n], h)
  PROVE  AgeOf(n, d)'
<1>0. incoming[n] \in Seq(Links)
  BY DEF ClusterType, LinkType
<1>1. \A i, c : Adds(n, i, c)' <=> Adds(n, i, c)
  BY DEF Adds, IsMemberAdd
<1>2. \A c : Waits(n, c)' <=> Waits(n, c)
  BY <1>1 DEF Waits
<1>3. Same(h, d)
  <2>1. ASSUME h.from = d.from, h.to = d.to PROVE h = d
    <3>1. h.lives = d.lives
      BY <2>1 DEF Current
    <3> QED BY <2>1, <3>1, LinkEquality
  <2> QED BY <2>1 DEF Same
<1>4. Range(incoming'[n]) = Range(incoming[n]) \cup {h}
  BY <1>0, RangeFacts
<1>5. PICK k \in Nat : k = Len(incoming[n]) + 1
  BY <1>0
<1>6. /\ DOMAIN incoming[n] = 1 .. k - 1 /\ DOMAIN incoming'[n] = 1 .. k
      /\ \A i \in DOMAIN incoming[n] : incoming'[n][i] = incoming[n][i]
      /\ incoming'[n][k] = h
  BY <1>0, <1>5, Appended
<1>7. ASSUME NEW i \in DOMAIN incoming'[n], NEW j \in DOMAIN incoming'[n], i < j, incoming'[n][i] = d
      PROVE  Same(incoming'[n][j], d)
  <2>1. i \in DOMAIN incoming[n] /\ (j \in DOMAIN incoming[n] \/ j = k)
    BY <1>6, <1>7
  <2>2. CASE j = k
    BY <1>3, <1>6, <2>2
  <2>3. CASE j \in DOMAIN incoming[n]
    BY <1>6, <1>7, <2>1, <2>3 DEF AgeOf
  <2> QED BY <2>1, <2>2, <2>3
<1>8. ASSUME d \in members'[n], NEW c \in Links, Waits(n, c)' \/ c \in Range(incoming'[n])
      PROVE  Same(c, d)
  BY <1>2, <1>3, <1>4, <1>8 DEF AgeOf
<1>9. ASSUME Waits(n, d)', NEW c \in Range(incoming'[n]) PROVE Same(c, d)
  BY <1>2, <1>3, <1>4, <1>9 DEF AgeOf
<1>10. ASSUME NEW i \in DOMAIN exec'[n], NEW j \in DOMAIN exec'[n], NEW c \in Links, i < j,
             Adds(n, i, d)', Adds(n, j, c)'
      PROVE  Same(c, d)
  BY <1>1, <1>10 DEF AgeOf
<1> QED BY <1>7, <1>8, <1>9, <1>10 DEF AgeOf, Same
-----------------------------------------------------------------------------
(* The connections: every step.                                            *)

LEMMA LinkInvIs == LinkInv <=> MeetInv /\ AgeInv
BY DEF LinkInv, MeetInv

\* A step at one broker only.
OnlyAt(n) ==
  \A m \in Nodes : m # n => exec'[m] = exec[m] /\ incoming'[m] = incoming[m] /\ members'[m] = members[m]
HeldAt(n) ==
  \A c \in Links : (Held(n, c)' => Held(n, c)) /\ (Current(c) /\ Held(n, c) => Held(n, c)')
AgeAt(n) == \A d \in Links : d.from = n /\ Current(d) => AgeOf(n, d)'

LEMMA SameHeldAt ==
  ASSUME NEW m, exec'[m] = exec[m], incoming'[m] = incoming[m], members'[m] = members[m], NEW c
  PROVE  Held(m, c)' <=> Held(m, c)
BY DEF Held, Waits, Adds, IsMemberAdd

LEMMA LinkAt ==
  ASSUME ClusterType, LinkInv, SameNodes, NEW n \in Nodes, OnlyAt(n), HeldAt(n), AgeAt(n),
         \A m \in Nodes : \A c \in Links : \A f \in Filters :
           <<m, c, f>> \in late' => <<m, c, f>> \in late \/ Held(m, c)
  PROVE  LinkInv'
<1>1. MeetInv /\ AgeInv
  BY LinkInvIs
<1>2. SameHeld
  <2> SUFFICES ASSUME NEW m \in Nodes, NEW c \in Links
               PROVE  (Held(m, c)' => Held(m, c)) /\ (Current(c) /\ Held(m, c) => Held(m, c)')
    BY DEF SameHeld
  <2>1. CASE m = n
    BY <2>1 DEF HeldAt
  <2>2. CASE m # n
    BY <2>2, SameHeldAt DEF OnlyAt
  <2> QED BY <2>1, <2>2
<1>3. SameSeen
  <2> SUFFICES ASSUME NEW c \in Links, Seen(c)' PROVE Seen(c)
    BY DEF SameSeen
  <2>1. CASE \E m \in Nodes : Held(m, c)'
    BY <1>2, <2>1 DEF SameHeld, Seen
  <2>2. CASE \E m \in Nodes, f \in Filters : <<m, c, f>> \in late'
    BY <2>2 DEF Seen
  <2> QED BY <2>1, <2>2 DEF Seen
<1>4. MeetInv'
  BY <1>1, <1>2, <1>3, MeetSame
<1>5. AgeInv'
  <2> SUFFICES ASSUME NEW m \in Nodes, NEW d \in Links, d.from = m, Current(d)' PROVE AgeOf(m, d)'
    BY DEF AgeInv
  <2>1. Current(d)
    BY SameLives DEF SameNodes
  <2>2. CASE m = n
    BY <2>1, <2>2 DEF AgeAt
  <2>3. CASE m # n
    <3>1. AgeOf(m, d)
      BY <1>1, <2>1 DEF AgeInv
    <3> QED BY <2>3, <3>1, SameAge DEF OnlyAt
  <2> QED BY <2>2, <2>3
<1> QED BY <1>4, <1>5 DEF LinkInv, MeetInv

LEMMA LinkNewConn ==
  ASSUME ClusterType, LinkInv, NEW n \in Nodes, NewConn(n)
  PROVE  LinkInv'
<1> DEFINE h == Head(incoming[n])
           t == [op |-> "member_add", conn |-> h]
<1>1. incoming \in [Nodes -> Seq(Links)] /\ incoming[n] # <<>> /\ incoming[n] \in Seq(Links)
      /\ exec \in [Nodes -> Seq(Tasks)]
  BY DEF NewConn, ClusterType, LinkType, QueueType
<1>2. h \in Links
  BY <1>1
<1>3. t \in Tasks /\ IsMemberAdd(t) /\ t.conn = h
  BY <1>2 DEF Tasks, IsMemberAdd
<1>4. exec' = [exec EXCEPT ![n] = Append(@, t)] /\ incoming' = [incoming EXCEPT ![n] = Tail(@)]
      /\ UNCHANGED <<phase, life, lock, events, members, wire, data, disturbed, cluster_faults>>
  BY DEF NewConn
<1> HIDE DEF h, t
<1>5. SameNodes /\ members' = members /\ late' = late
  BY <1>4 DEF SameNodes, data
<1>6. exec'[n] = Append(exec[n], t) /\ incoming'[n] = Tail(incoming[n]) /\ OnlyAt(n)
  BY <1>1, <1>4 DEF OnlyAt
<1>7. HeldAt(n)
  <2>1. Range(incoming[n]) = {h} \cup Range(incoming'[n])
    BY <1>1, <1>6, RangeFacts DEF h
  <2>2. \A c : Waits(n, c)' <=> Waits(n, c) \/ c = h
    BY <1>3, <1>6, AddsPosted
  <2> QED BY <1>5, <2>1, <2>2 DEF HeldAt, Held
<1>8. AgeAt(n)
  <2> SUFFICES ASSUME NEW d \in Links, d.from = n, Current(d) PROVE AgeOf(n, d)'
    BY DEF AgeAt
  <2>1. AgeOf(n, d)
    BY DEF LinkInv, AgeInv
  <2>2. h = Head(incoming[n])
    BY DEF h
  <2> QED BY <1>1, <1>2, <1>3, <1>5, <1>6, <2>1, <2>2, AgeNewConn
<1> QED BY <1>5, <1>6, <1>7, <1>8, LinkAt

LEMMA LinkReceive ==
  ASSUME ClusterType, LinkInv, NEW n \in Nodes, NEW c, ReceiveOn(n, c)
  PROVE  LinkInv'
<1> DEFINE t == Task(n, c, Head(Wire(c, n)))
<1>1. t \in Tasks
  BY ReceivedIs, TaskType
<1>2. ~IsMemberAdd(t)
  BY DEF Task, IsMemberAdd
<1>3. exec' = [exec EXCEPT ![n] = Append(@, t)]
      /\ UNCHANGED <<phase, life, lock, events, incoming, conns, members, data, disturbed, cluster_faults>>
  BY DEF ReceiveOn
<1>4. exec \in [Nodes -> Seq(Tasks)]
  BY DEF ClusterType, QueueType
<1> HIDE DEF t
<1>5. SameNodes /\ members' = members /\ late' = late /\ incoming' = incoming
  BY <1>3 DEF SameNodes, data
<1>6. exec'[n] = Append(exec[n], t) /\ OnlyAt(n)
  BY <1>3, <1>4, <1>5 DEF OnlyAt
<1>7. HeldAt(n)
  <2>1. \A d : Waits(n, d)' <=> Waits(n, d)
    BY <1>1, <1>2, <1>6, AddsPosted
  <2> QED BY <1>5, <2>1 DEF HeldAt, Held
<1>8. AgeAt(n)
  <2> SUFFICES ASSUME NEW d \in Links, d.from = n, Current(d) PROVE AgeOf(n, d)'
    BY DEF AgeAt
  <2>1. AgeOf(n, d)
    BY DEF LinkInv, AgeInv
  <2> QED BY <1>1, <1>2, <1>5, <1>6, <2>1, AgePosted
<1> QED BY <1>5, <1>6, <1>7, <1>8, LinkAt

\* The first task.
LEMMA FirstAdds ==
  ASSUME ClusterType, NEW n \in Nodes, Rest(n)
  PROVE  /\ \A c : Adds(n, 1, c) <=> IsMemberAdd(Head(exec[n])) /\ Head(exec[n]).conn = c
         /\ \A c : Waits(n, c) <=> Waits(n, c)' \/ Adds(n, 1, c)
         /\ SameNodes /\ incoming' = incoming
<1>1. Head(exec[n]) = exec[n][1]
  BY RestFacts
<1>2. SameNodes /\ incoming' = incoming
  BY DEF Rest, SameNodes
<1> QED BY <1>1, <1>2, AddsRun DEF Adds

LEMMA LinkRest ==
  ASSUME ClusterType, LinkInv, NEW n \in Nodes, Rest(n), ~IsMemberAdd(Head(exec[n])), members' = members,
         late' = late
  PROVE  LinkInv'
<1>1. \A c : ~Adds(n, 1, c)
  BY FirstAdds
<1>2. SameNodes /\ incoming' = incoming /\ \A c : Waits(n, c)' <=> Waits(n, c)
  BY <1>1, FirstAdds
<1>3. OnlyAt(n)
  BY <1>2, RestFacts DEF OnlyAt
<1>4. HeldAt(n)
  BY <1>2 DEF HeldAt, Held
<1>5. AgeAt(n)
  <2> SUFFICES ASSUME NEW d \in Links, d.from = n, Current(d) PROVE AgeOf(n, d)'
    BY DEF AgeAt
  <2>1. AgeOf(n, d)
    BY DEF LinkInv, AgeInv
  <2> QED BY <1>2, <2>1, AgeRun
<1> QED BY <1>2, <1>3, <1>4, <1>5, LinkAt

\* A current member is not replaced: nothing else of its address comes behind it.
LEMMA NotReplaced ==
  ASSUME ClusterType, LinkInv, NEW n \in Nodes, NEW c \in Links, AddMember(n, c),
         NEW d \in members[n], Current(d)
  PROVE  d \in members'[n]
<1>0. Rest(n) /\ c = Head(exec[n]).conn /\ IsMemberAdd(Head(exec[n]))
      /\ members' = [members EXCEPT ![n] = {e \in @ : Addr(n, e) # Addr(n, c)} \cup {c}]
  BY DEF AddMember, MemberAdd
<1>1. members \in [Nodes -> SUBSET Links] /\ d \in Links
  BY DEF ClusterType, LinkType
<1>2. members'[n] = {e \in members[n] : Addr(n, e) # Addr(n, c)} \cup {c}
  BY <1>0, <1>1
<1>3. Waits(n, c)
  BY <1>0, FirstAdds
<1>4. ASSUME Addr(n, d) = Addr(n, c) PROVE d = c
  <2>1. CASE d.from = n /\ c.from = n /\ d.to = c.to
    <3>1. AgeOf(n, d)
      BY <1>1, <2>1 DEF LinkInv, AgeInv
    <3>2. Same(c, d)
      BY <1>3, <3>1 DEF AgeOf
    <3> QED BY <2>1, <3>2 DEF Same
  <2> QED BY <1>1, <1>4, <2>1, AddrInjective
<1> QED BY <1>2, <1>4

LEMMA LinkAddMember ==
  ASSUME ClusterType, LinkInv, NEW n \in Nodes, NEW c \in Links, AddMember(n, c)
  PROVE  LinkInv'
<1>0. Rest(n) /\ c = Head(exec[n]).conn /\ IsMemberAdd(Head(exec[n])) /\ late' = late
      /\ members' = [members EXCEPT ![n] = {e \in @ : Addr(n, e) # Addr(n, c)} \cup {c}]
  BY DEF AddMember, MemberAdd, data
<1>1. members \in [Nodes -> SUBSET Links]
  BY DEF ClusterType, LinkType
<1>2. members'[n] \subseteq members[n] \cup {c} /\ c \in members'[n]
      /\ \A m \in Nodes : m # n => members'[m] = members[m]
  BY <1>0, <1>1
<1>3. \A d : Adds(n, 1, d) <=> d = c
  BY <1>0, FirstAdds
<1>4. SameNodes /\ incoming' = incoming /\ \A d : Waits(n, d) <=> Waits(n, d)' \/ d = c
  BY <1>0, <1>3, FirstAdds
<1>5. OnlyAt(n)
  BY <1>0, <1>2, <1>4, RestFacts DEF OnlyAt
<1>6. HeldAt(n)
  <2> SUFFICES ASSUME NEW d \in Links
               PROVE  (Held(n, d)' => Held(n, d)) /\ (Current(d) /\ Held(n, d) => Held(n, d)')
    BY DEF HeldAt
  <2>1. Held(n, d)' => Held(n, d)
    BY <1>2, <1>4 DEF Held
  <2>2. Current(d) /\ d \in members[n] => d \in members'[n]
    BY NotReplaced
  <2>3. d = c => d \in members'[n]
    BY <1>2
  <2> QED BY <1>4, <2>1, <2>2, <2>3 DEF Held
<1>7. AgeAt(n)
  <2> SUFFICES ASSUME NEW d \in Links, d.from = n, Current(d) PROVE AgeOf(n, d)'
    BY DEF AgeAt
  <2>1. AgeOf(n, d)
    BY DEF LinkInv, AgeInv
  <2>2. d \in members'[n] => d \in members[n] \/ Adds(n, 1, d)
    BY <1>2, <1>3
  <2> QED BY <1>0, <1>4, <2>1, <2>2, AgeRun
<1> QED BY <1>0, <1>4, <1>5, <1>6, <1>7, LinkAt

\* The steps that change no connection.
LEMMA LinkData ==
  ASSUME ClusterType, LinkInv, SameNodes, UNCHANGED <<incoming, members, exec>>,
         \A m \in Nodes : \A c \in Links : \A f \in Filters :
           <<m, c, f>> \in late' => <<m, c, f>> \in late \/ c \in members[m]
  PROVE  LinkInv'
<1>1. MeetInv /\ AgeInv
  BY LinkInvIs
<1>2. \A m \in Nodes : \A c \in Links : Held(m, c)' <=> Held(m, c)
  BY SameHeldAt
<1>3. SameHeld
  BY <1>2 DEF SameHeld
<1>4. SameSeen
  BY <1>2 DEF SameSeen, Seen, Held
<1>5. MeetInv'
  BY <1>1, <1>3, <1>4, MeetSame
<1>6. AgeInv'
  <2> SUFFICES ASSUME NEW m \in Nodes, NEW d \in Links, d.from = m, Current(d)' PROVE AgeOf(m, d)'
    BY DEF AgeInv
  <2>1. Current(d)
    BY SameLives DEF SameNodes
  <2>2. AgeOf(m, d)
    BY <1>1, <2>1 DEF AgeInv
  <2> QED BY <2>2, SameAge
<1> QED BY <1>5, <1>6 DEF LinkInv, MeetInv

LEMMA LinkSubscribe ==
  ASSUME ClusterType, LinkInv, NEW n \in Nodes, NEW f \in Filters, Subscribe(n, f)
  PROVE  LinkInv'
<1>1. late' = late \cup {<<n, c, f>> : c \in members[n]} /\ SameNodes /\ UNCHANGED <<incoming, members, exec>>
  BY DEF Subscribe, SameNodes
<1>2. ASSUME NEW m \in Nodes, NEW c \in Links, NEW g \in Filters, <<m, c, g>> \in late'
      PROVE  <<m, c, g>> \in late \/ c \in members[m]
  BY <1>1, <1>2
<1> QED BY <1>1, <1>2, LinkData

LEMMA LinkDiscover ==
  ASSUME ClusterType, LinkInv, NEW n \in Nodes, Discover(n)
  PROVE  LinkInv'
<1>1. MeetInv /\ AgeInv
  BY LinkInvIs
<1>2. MeetInv'
  BY <1>1, DiscoverMeets
<1>3. PICK m \in Nodes : \E c \in Links :
           /\ c = Conn(n, m) /\ Current(c) /\ c.from = n /\ c.to = m
           /\ m # n /\ Listening(n) /\ Registered(m)
           /\ Range(events[n]) = {m} \cup Range(events'[n])
           /\ \A k \in Nodes : k # n => events'[k] = events[k]
           /\ \A k \in {n, m} : incoming'[k] = Append(incoming[k], c)
           /\ \A k \in Nodes \ {n, m} : incoming'[k] = incoming[k]
           /\ UNCHANGED <<phase, life, lock, conns, members, wire, exec, data, disturbed, cluster_faults>>
  BY <1>1, DiscoverFacts DEF MeetInv
<1>4. PICK c \in Links :
           /\ Current(c)
           /\ \A k \in {n, m} : incoming'[k] = Append(incoming[k], c)
           /\ \A k \in Nodes \ {n, m} : incoming'[k] = incoming[k]
           /\ life' = life /\ members' = members /\ exec' = exec
  BY <1>3
<1>5. AgeInv'
  <2> SUFFICES ASSUME NEW k \in Nodes, NEW d \in Links, d.from = k, Current(d)' PROVE AgeOf(k, d)'
    BY DEF AgeInv
  <2>1. Current(d)
    BY <1>4, SameLives
  <2>2. AgeOf(k, d)
    BY <1>1, <2>1 DEF AgeInv
  <2>3. CASE k \in {n, m}
    BY <1>4, <2>1, <2>2, <2>3, AgeIncoming
  <2>4. CASE k \notin {n, m}
    BY <1>4, <2>2, <2>4, SameAge
  <2> QED BY <2>3, <2>4
<1> QED BY <1>2, <1>5 DEF LinkInv, MeetInv

\* A broker that somebody still has to hear of does not stop undisturbed.
LEMMA StopUndisturbed ==
  ASSUME NEW n \in Nodes, Crash(n) \/ DiscoverFails(n), ~disturbed'
  PROVE  Stop(n) /\ \A m \in Nodes : n \notin Range(events[m])
BY DEF Crash, DiscoverFails

LEMMA LinkStop ==
  ASSUME ClusterType, LinkInv, NEW n \in Nodes, Stop(n), \A m \in Nodes : n \notin Range(events[m])
  PROVE  LinkInv'
<1>1. MeetInv /\ AgeInv
  BY LinkInvIs
<1>2. MeetInv'
  BY <1>1, StopMeets
<1>3. AgeInv'
  <2> SUFFICES ASSUME NEW k \in Nodes, NEW d \in Links, d.from = k, Current(d)' PROVE AgeOf(k, d)'
    BY DEF AgeInv
  <2>1. CASE ~Held(k, d)'
    <3>1. d \notin members'[k] /\ ~Waits(k, d)' /\ d \notin Range(incoming'[k])
      BY <2>1 DEF Held
    <3>2. \A i \in DOMAIN exec'[k] : ~Adds(k, i, d)'
      BY <3>1 DEF Waits
    <3>3. \A i \in DOMAIN incoming'[k] : incoming'[k][i] # d
      BY <3>1 DEF Range
    <3> QED BY <3>1, <3>2, <3>3 DEF AgeOf
  <2>2. CASE Held(k, d)'
    <3>1. k # n /\ Held(k, d)
      BY <2>2, StopHeld
    <3>2. Seen(d)
      BY <3>1 DEF Seen
    <3>3. Current(d)
      BY <1>1, <3>2, StopCurrent DEF MeetInv
    <3>4. AgeOf(k, d)
      BY <1>1, <3>3 DEF AgeInv
    <3>5. exec'[k] = exec[k] /\ members'[k] = members[k] /\ incoming'[k] = incoming[k]
      BY <3>1 DEF Stop, ClusterType, QueueType, LinkType
    <3> QED BY <3>4, <3>5, SameAge
  <2> QED BY <2>1, <2>2
<1> QED BY <1>2, <1>3 DEF LinkInv, MeetInv

LEMMA LinkRegistration ==
  ASSUME ClusterType, Nobody \notin Nodes, LinkInv, Registration, ~disturbed'
  PROVE  LinkInv'
<1>1. MeetInv /\ AgeInv
  BY LinkInvIs
<1>2. MeetInv'
  BY <1>1, QuietMeets, RegistersMeets DEF Registration
<1>3. life' = life /\ exec' = exec /\ members' = members /\ incoming' = incoming
  BY DEF Registration, Registers, Quiet, LockExpires, Start, Acquire, Register, Listen, Release, net
<1>4. AgeInv'
  <2> SUFFICES ASSUME NEW k \in Nodes, NEW d \in Links, d.from = k, Current(d)' PROVE AgeOf(k, d)'
    BY DEF AgeInv
  <2>1. Current(d)
    BY <1>3, SameLives
  <2>2. AgeOf(k, d)
    BY <1>1, <2>1 DEF AgeInv
  <2> QED BY <1>3, <2>2, SameAge
<1> QED BY <1>2, <1>4 DEF LinkInv, MeetInv

LEMMA LinkNext ==
  ASSUME ClusterType, Nobody \notin Nodes, LinkInv, ClusterNext, ~disturbed'
  PROVE  LinkInv'
<1>1. CASE Registration
  BY <1>1, LinkRegistration
<1>2. CASE \E n \in Nodes : Crash(n) \/ DiscoverFails(n)
  BY <1>2, StopUndisturbed, LinkStop
<1>3. CASE \E n \in Nodes : Discover(n)
  BY <1>3, LinkDiscover
<1>4. CASE \E n \in Nodes : NewConn(n)
  BY <1>4, LinkNewConn
<1>5. CASE \E n \in Nodes : Receive(n)
  BY <1>5, ReceiveIs, LinkReceive
<1>6. CASE \E n \in Nodes : RunTask(n)
  <2> PICK n \in Nodes : RunTask(n)
    BY <1>6
  <2>1. ASSUME NEW t \in Tasks, AddRoute(n, t) PROVE LinkInv'
    <3>1. Rest(n) /\ ~IsMemberAdd(Head(exec[n])) /\ members' = members /\ late' = late
      BY <2>1 DEF AddRoute, RouteAdd, IsMemberAdd, IsRouteAdd
    <3> QED BY <3>1, LinkRest
  <2>2. ASSUME NEW t \in Tasks, HandOver(n, t) PROVE LinkInv'
    <3>1. Rest(n) /\ ~IsMemberAdd(Head(exec[n])) /\ members' = members /\ late' = late
      BY <2>2 DEF HandOver, PublishTunnelled, IsMemberAdd, IsPublish
    <3> QED BY <3>1, LinkRest
  <2> QED BY <2>1, <2>2, RunTaskIs, LinkAddMember
<1>7. CASE \E n \in Nodes, f \in Filters : Subscribe(n, f)
  BY <1>7, LinkSubscribe
<1>8. CASE \E n \in Nodes, f \in Filters : Unsubscribe(n, f)
  <2>1. SameNodes /\ UNCHANGED <<incoming, members, exec, late>>
    BY <1>8 DEF Unsubscribe, SameNodes, net
  <2> QED BY <2>1, LinkData
<1>9. CASE \E n \in Nodes, f \in Filters : ClientPublish(n, f)
  <2>1. SameNodes /\ UNCHANGED <<incoming, members, exec, late>>
    BY <1>9 DEF ClientPublish, SameNodes
  <2> QED BY <2>1, LinkData
<1>10. CASE \E n \in Nodes : RedisFails(n)
  BY <1>10 DEF RedisFails
<1> QED BY <1>1, <1>2, <1>3, <1>4, <1>5, <1>6, <1>7, <1>8, <1>9, <1>10, NextIs DEF Step
-----------------------------------------------------------------------------
(* The routes.                                                             *)

\* What is on its way to m goes on, and what has arrived stays.
WireKept(m, c) ==
  \A msg \in Range(Wire(c, m)) :
    msg.type = "route_sync" => msg \in Range(Wire(c, m)') \/ Task(m, c, msg) \in Range(exec'[m])
TaskKept(m, t) ==
  \/ t \in Range(exec'[m])
  \/ /\ \A f \in Range(t.filters) : <<f, t.addr>> \in route_table'[m]
     /\ <<Head(t.filters), t.addr>> \in tree'[m]
TableKept(m) ==
  /\ \A t \in Range(exec[m]) : IsRouteAdd(t) => TaskKept(m, t)
  /\ \A x \in route_table[m] : x \in route_table'[m]
  /\ \A f, a : <<f, a>> \in tree[m] => <<f, a>> \in tree'[m] \/ <<m, f>> \in pruned'
  /\ \A f : <<m, f>> \in pruned => <<m, f>> \in pruned'

LEMMA ToldKept ==
  ASSUME NEW m, NEW c, NEW f, WireKept(m, c), TableKept(m)
  PROVE  /\ Told(m, c, f) => Told(m, c, f)'
         /\ ToldFirst(m, c, f) => ToldFirst(m, c, f)'
<1>0. PICK a : a = Addr(m, c)
  OBVIOUS
<1>1. Addr(m, c)' = a
  BY <1>0 DEF Addr
<1>2. ASSUME NEW msg, msg.type = "route_sync"
      PROVE  /\ IsRouteAdd(Task(m, c, msg)) /\ Task(m, c, msg).addr = a
             /\ Task(m, c, msg).filters = msg.filters
  BY <1>0, <1>2 DEF Task, IsRouteAdd
<1>3. Told(m, c, f)' <=> \/ \E msg \in Range(Wire(c, m)') : Syncs(msg, f)
                         \/ \E t \in Range(exec'[m]) : Routed(t, a, f)
                         \/ <<f, a>> \in route_table'[m]
  BY <1>1 DEF Told, Syncs, Routed, IsRouteAdd
<1>4. ToldFirst(m, c, f)' <=> \/ \E msg \in Range(Wire(c, m)') : SyncsFirst(msg, f)
                              \/ \E t \in Range(exec'[m]) : RoutedFirst(t, a, f)
                              \/ <<f, a>> \in tree'[m]
                              \/ <<m, f>> \in pruned'
  BY <1>1 DEF ToldFirst, SyncsFirst, RoutedFirst, IsRouteAdd
<1>5. ASSUME NEW msg \in Range(Wire(c, m)), Syncs(msg, f) PROVE Told(m, c, f)'
  <2>1. msg \in Range(Wire(c, m)') \/ Task(m, c, msg) \in Range(exec'[m])
    BY <1>5 DEF WireKept, Syncs
  <2>2. Routed(Task(m, c, msg), a, f)
    BY <1>2, <1>5 DEF Syncs, Routed
  <2> QED BY <1>3, <1>5, <2>1, <2>2
<1>6. ASSUME NEW msg \in Range(Wire(c, m)), SyncsFirst(msg, f) PROVE ToldFirst(m, c, f)'
  <2>1. msg \in Range(Wire(c, m)') \/ Task(m, c, msg) \in Range(exec'[m])
    BY <1>6 DEF WireKept, SyncsFirst
  <2>2. RoutedFirst(Task(m, c, msg), a, f)
    BY <1>2, <1>6 DEF SyncsFirst, RoutedFirst
  <2> QED BY <1>4, <1>6, <2>1, <2>2
<1>7. ASSUME NEW t \in Range(exec[m]), Routed(t, a, f) PROVE Told(m, c, f)'
  <2>1. TaskKept(m, t)
    BY <1>7 DEF TableKept, Routed
  <2>2. CASE t \in Range(exec'[m])
    BY <1>3, <1>7, <2>2
  <2>3. CASE \A g \in Range(t.filters) : <<g, t.addr>> \in route_table'[m]
    BY <1>3, <1>7, <2>3 DEF Routed
  <2> QED BY <2>1, <2>2, <2>3 DEF TaskKept
<1>8. ASSUME NEW t \in Range(exec[m]), RoutedFirst(t, a, f) PROVE ToldFirst(m, c, f)'
  <2>1. TaskKept(m, t)
    BY <1>8 DEF TableKept, RoutedFirst
  <2>2. CASE t \in Range(exec'[m])
    BY <1>4, <1>8, <2>2
  <2>3. CASE <<Head(t.filters), t.addr>> \in tree'[m]
    BY <1>4, <1>8, <2>3 DEF RoutedFirst
  <2> QED BY <2>1, <2>2, <2>3 DEF TaskKept
<1>9. <<f, a>> \in route_table[m] => Told(m, c, f)'
  BY <1>3 DEF TableKept
<1>10. <<f, a>> \in tree[m] \/ <<m, f>> \in pruned => ToldFirst(m, c, f)'
  BY <1>4 DEF TableKept
<1> QED BY <1>0, <1>5, <1>6, <1>7, <1>8, <1>9, <1>10 DEF Told, ToldFirst

\* A broker whose queue and tables do not change, and a wire that is left alone.
LEMMA TableSame ==
  ASSUME NEW m, exec'[m] = exec[m], route_table'[m] = route_table[m], tree'[m] = tree[m],
         \A f : <<m, f>> \in pruned => <<m, f>> \in pruned'
  PROVE  TableKept(m)
BY DEF TableKept, TaskKept

LEMMA WireSame ==
  ASSUME NEW m, NEW c, Wire(c, m)' = Wire(c, m)
  PROVE  WireKept(m, c)
BY DEF WireKept

\* A wire on which something is sent.
LEMMA WireSent ==
  ASSUME ClusterType, NEW n \in Nodes, NEW cs \in SUBSET Links, NEW msg, cs = {} \/ msg \in Messages,
         SendOn(n, cs, msg), NEW m \in Nodes, NEW c \in Links
  PROVE  WireKept(m, c)
<1>1. Wire(c, m) \in Seq(Messages)
  BY DEF ClusterType, QueueType
<1>2. CASE c \in cs /\ Live(c) /\ m = Other(n, c)
  <2>1. Wire(c, m)' = Append(Wire(c, m), msg)
    BY <1>2, SentOn
  <2>3. msg \in Messages
    BY <1>2
  <2>2. Range(Append(Wire(c, m), msg)) = Range(Wire(c, m)) \cup {msg}
    BY <1>1, <2>3, RangeFacts
  <2> QED BY <2>1, <2>2 DEF WireKept
<1>3. CASE ~(c \in cs /\ Live(c) /\ m = Other(n, c))
  BY <1>3, SentOn, WireSame
<1> QED BY <1>2, <1>3

\* Steps that change neither the members nor the local routes.
SameSpread == UNCHANGED <<life, members, localRoutes, late>>
AllKept == \A m \in Nodes : TableKept(m) /\ \A c \in Links : WireKept(m, c)

LEMMA SpreadKept ==
  ASSUME ClusterType, SpreadInv, SameSpread, AllKept
  PROVE  SpreadInv'
<1>1. members \in [Nodes -> SUBSET Links]
  BY DEF ClusterType, LinkType
<1>2. \A c : Current(c)' <=> Current(c)
  BY SameLives DEF SameSpread
<1>3. \A n \in Nodes : \A c \in members[n] : Other(n, c)' = Other(n, c) /\ Other(n, c) \in Nodes /\ c \in Links
  BY <1>1, AddrType DEF Other
<1>4. \A m \in Nodes, c \in Links : \A f :
        (Told(m, c, f) => Told(m, c, f)') /\ (ToldFirst(m, c, f) => ToldFirst(m, c, f)')
  BY ToldKept DEF AllKept
<1>5. ToldInv'
  <2> SUFFICES ASSUME NEW n \in Nodes, NEW c \in members'[n], Current(c)', NEW f \in Range(localRoutes'[n])
               PROVE  Told(Other(n, c), c, f)'
    BY DEF ToldInv
  <2>1. c \in members[n] /\ Current(c) /\ f \in Range(localRoutes[n])
    BY <1>2 DEF SameSpread
  <2>2. PICK m \in Nodes : m = Other(n, c)
    BY <1>3, <2>1
  <2>3. Told(m, c, f)
    BY <2>1, <2>2 DEF SpreadInv, ToldInv
  <2>4. Told(m, c, f)'
    <3>1. c \in Links
      BY <1>3, <2>1
    <3> QED BY <1>4, <2>3, <3>1, Zenon
  <2> QED BY <1>3, <2>1, <2>2, <2>4
<1>6. FirstInv'
  <2> SUFFICES ASSUME NEW n \in Nodes, NEW c \in members'[n], Current(c)', NEW f \in Filters,
                      <<n, c, f>> \in late' \/ localRoutes'[n] = <<f>>
               PROVE  ToldFirst(Other(n, c), c, f)'
    BY DEF FirstInv
  <2>1. c \in members[n] /\ Current(c) /\ (<<n, c, f>> \in late \/ localRoutes[n] = <<f>>)
    BY <1>2 DEF SameSpread
  <2>2. PICK m \in Nodes : m = Other(n, c)
    BY <1>3, <2>1
  <2>3. ToldFirst(m, c, f)
    BY <2>1, <2>2 DEF SpreadInv, FirstInv
  <2>4. ToldFirst(m, c, f)'
    <3>1. c \in Links
      BY <1>3, <2>1
    <3> QED BY <1>4, <2>3, <3>1, Zenon
  <2> QED BY <1>3, <2>1, <2>2, <2>4
<1>7. LateInv'
  BY <1>2 DEF SpreadInv, LateInv, SameSpread
<1> QED BY <1>5, <1>6, <1>7 DEF SpreadInv

LEMMA TablePosted ==
  ASSUME ClusterType, NEW m \in Nodes, NEW t \in Tasks, exec'[m] = Append(exec[m], t),
         UNCHANGED <<route_table, tree, pruned>>
  PROVE  TableKept(m) /\ t \in Range(exec'[m])
<1>1. exec[m] \in Seq(Tasks)
  BY DEF ClusterType, QueueType
<1>2. Range(exec'[m]) = Range(exec[m]) \cup {t}
  BY <1>1, RangeFacts
<1> QED BY <1>2 DEF TableKept, TaskKept

LEMMA TableRun ==
  ASSUME ClusterType, NEW n \in Nodes, Rest(n), ~IsRouteAdd(Head(exec[n])),
         UNCHANGED <<route_table, tree, pruned>>
  PROVE  \A m \in Nodes : TableKept(m)
<1>1. exec[n] \in Seq(Tasks) /\ exec[n] # <<>> /\ exec'[n] = Tail(exec[n])
      /\ \A m \in Nodes : m # n => exec'[m] = exec[m]
  BY RestFacts
<1>2. Range(exec[n]) = {Head(exec[n])} \cup Range(exec'[n])
  BY <1>1, RangeFacts
<1>3. TableKept(n)
  BY <1>2 DEF TableKept, TaskKept
<1>4. ASSUME NEW m \in Nodes, m # n PROVE TableKept(m)
  BY <1>1, <1>4, TableSame
<1> QED BY <1>3, <1>4

LEMMA SpreadNewConn ==
  ASSUME ClusterType, SpreadInv, NEW n \in Nodes, NewConn(n)
  PROVE  SpreadInv'
<1> DEFINE t == [op |-> "member_add", conn |-> Head(incoming[n])]
<1>1. incoming[n] \in Seq(Links) /\ incoming[n] # <<>> /\ exec \in [Nodes -> Seq(Tasks)]
  BY DEF NewConn, ClusterType, LinkType, QueueType
<1>2. Head(incoming[n]) \in Links
  BY <1>1
<1>3. t \in Tasks
  BY <1>2 DEF Tasks
<1>4. exec' = [exec EXCEPT ![n] = Append(@, t)] /\ wire' = wire
      /\ UNCHANGED <<route_table, tree, pruned>> /\ SameSpread
  BY DEF NewConn, data, SameSpread
<1> HIDE DEF t
<1>5. exec'[n] = Append(exec[n], t) /\ \A m \in Nodes : m # n => exec'[m] = exec[m]
  BY <1>1, <1>4
<1>6. \A m \in Nodes : TableKept(m)
  BY <1>3, <1>4, <1>5, TablePosted, TableSame
<1>7. \A m \in Nodes, c \in Links : WireKept(m, c)
  BY <1>4, SameWires, WireSame
<1> QED BY <1>4, <1>6, <1>7, SpreadKept DEF AllKept

LEMMA SpreadReceive ==
  ASSUME ClusterType, SpreadInv, NEW n \in Nodes, NEW c, ReceiveOn(n, c)
  PROVE  SpreadInv'
<1>1. c \in Links /\ Head(Wire(c, n)) \in Messages /\ Wire(c, n) \in Seq(Messages)
  BY ReceivedIs
<1>2. PICK h \in Messages : h = Head(Wire(c, n))
  BY <1>1
<1>3. PICK t \in Tasks : t = Task(n, c, h)
  BY <1>1, TaskType
<1>4. exec' = [exec EXCEPT ![n] = Append(@, t)] /\ Wire(c, n) # <<>>
      /\ UNCHANGED <<route_table, tree, pruned>> /\ SameSpread
  BY <1>2, <1>3 DEF ReceiveOn, data, SameSpread
<1>5. exec \in [Nodes -> Seq(Tasks)]
  BY DEF ClusterType, QueueType
<1>6. exec'[n] = Append(exec[n], t) /\ \A m \in Nodes : m # n => exec'[m] = exec[m]
  BY <1>4, <1>5
<1>7. \A m \in Nodes : TableKept(m)
  BY <1>4, <1>6, TablePosted, TableSame
<1>8. t \in Range(exec'[n])
  BY <1>4, <1>6, TablePosted
<1>9. ASSUME NEW m \in Nodes, NEW d \in Links PROVE WireKept(m, d)
  <2>1. CASE d = c /\ m = n
    <3>1. Wire(c, n)' = Tail(Wire(c, n))
      BY <1>1, ReceivedOn
    <3>2. Range(Wire(c, n)) = {h} \cup Range(Wire(c, n)')
      BY <1>1, <1>2, <1>4, <3>1, RangeFacts
    <3> QED BY <1>3, <1>8, <2>1, <3>2 DEF WireKept
  <2>2. CASE ~(d = c /\ m = n)
    BY <1>1, <2>2, ReceivedOn, WireSame
  <2> QED BY <2>1, <2>2
<1> QED BY <1>4, <1>7, <1>9, SpreadKept DEF AllKept

LEMMA SpreadAddRoute ==
  ASSUME ClusterType, SpreadInv, NEW n \in Nodes, NEW t \in Tasks, AddRoute(n, t)
  PROVE  SpreadInv'
<1>1. Rest(n) /\ t = Head(exec[n]) /\ UNCHANGED <<wire, pruned>>
      /\ tree' = [tree EXCEPT ![n] = @ \cup {<<Head(t.filters), t.addr>>}]
      /\ route_table' = [route_table EXCEPT ![n] = @ \cup {<<f, t.addr>> : f \in Range(t.filters)}]
  BY DEF AddRoute, RouteAdd
<1>2. SameSpread
  BY DEF AddRoute, RouteAdd, Rest, SameSpread
<1>3. tree \in [Nodes -> SUBSET (Filters \X Addrs)] /\ route_table \in [Nodes -> SUBSET (Filters \X Addrs)]
  BY DEF ClusterType, RouteType
<1>4. /\ tree'[n] = tree[n] \cup {<<Head(t.filters), t.addr>>}
      /\ route_table'[n] = route_table[n] \cup {<<f, t.addr>> : f \in Range(t.filters)}
      /\ \A m \in Nodes : m # n => tree'[m] = tree[m] /\ route_table'[m] = route_table[m]
  BY <1>1, <1>3
<1>5. exec[n] \in Seq(Tasks) /\ exec[n] # <<>> /\ exec'[n] = Tail(exec[n])
      /\ \A m \in Nodes : m # n => exec'[m] = exec[m]
  BY <1>1, RestFacts
<1>6. Range(exec[n]) = {t} \cup Range(exec'[n])
  BY <1>1, <1>5, RangeFacts
<1>7. TableKept(n)
  <2>1. \A u \in Range(exec[n]) : TaskKept(n, u)
    BY <1>4, <1>6 DEF TaskKept
  <2> QED BY <1>1, <1>4, <2>1 DEF TableKept
<1>8. \A m \in Nodes : TableKept(m)
  BY <1>1, <1>4, <1>5, <1>7, TableSame
<1>9. \A m \in Nodes, c \in Links : WireKept(m, c)
  BY <1>1, SameWires, WireSame
<1> QED BY <1>2, <1>8, <1>9, SpreadKept DEF AllKept

LEMMA SpreadHandOver ==
  ASSUME ClusterType, SpreadInv, NEW n \in Nodes, NEW t \in Tasks, HandOver(n, t)
  PROVE  SpreadInv'
<1>1. Rest(n) /\ ~IsRouteAdd(Head(exec[n])) /\ UNCHANGED <<wire, route_table, tree, pruned>>
  BY DEF HandOver, PublishTunnelled, Tunnelled, IsRouteAdd, IsPublish
<1>2. SameSpread
  BY DEF HandOver, PublishTunnelled, Rest, SameSpread
<1>3. \A m \in Nodes : TableKept(m)
  BY <1>1, TableRun
<1>4. \A m \in Nodes, c \in Links : WireKept(m, c)
  BY <1>1, SameWires, WireSame
<1> QED BY <1>2, <1>3, <1>4, SpreadKept DEF AllKept

LEMMA SpreadUnsubscribe ==
  ASSUME ClusterType, SpreadInv, NEW n \in Nodes, NEW f \in Filters, Unsubscribe(n, f)
  PROVE  SpreadInv'
<1>1. /\ tree' = [tree EXCEPT ![n] = {x \in @ : x[1] # f}] /\ pruned' = pruned \cup {<<n, f>>}
      /\ UNCHANGED <<exec, wire, route_table>> /\ SameSpread
  BY DEF Unsubscribe, net, SameSpread
<1>2. tree \in [Nodes -> SUBSET (Filters \X Addrs)]
  BY DEF ClusterType, RouteType
<1>3. tree'[n] = {x \in tree[n] : x[1] # f} /\ \A m \in Nodes : m # n => tree'[m] = tree[m]
  BY <1>1, <1>2
<1>4. TableKept(n)
  <2>1. ASSUME NEW g, NEW a, <<g, a>> \in tree[n] PROVE <<g, a>> \in tree'[n] \/ <<n, g>> \in pruned'
    <3>1. CASE g = f
      BY <1>1, <3>1
    <3>2. CASE g # f
      <4>1. <<g, a>>[1] # f
        BY <3>2
      <4> QED BY <1>3, <2>1, <4>1
    <3> QED BY <3>1, <3>2
  <2> QED BY <1>1, <2>1 DEF TableKept, TaskKept
<1>5. \A m \in Nodes : TableKept(m)
  BY <1>1, <1>3, <1>4, TableSame
<1>6. \A m \in Nodes, c \in Links : WireKept(m, c)
  BY <1>1, SameWires, WireSame
<1> QED BY <1>1, <1>5, <1>6, SpreadKept DEF AllKept

LEMMA SpreadPublish ==
  ASSUME MaxTunnelled \in Nat, ClusterType, SpreadInv, NEW n \in Nodes, NEW f \in Filters, ClientPublish(n, f)
  PROVE  SpreadInv'
<1> DEFINE cs == {c \in members[n] : Addr(n, c) \in MatchedMembers(n, f)}
<1>1. cluster_published \in Nat /\ cluster_published + 1 \in 1 .. MaxTunnelled
  BY DEF ClientPublish, ClusterType, HistoryType
<1>2. TunPublish(f, cluster_published + 1) \in Messages
  BY <1>1, TunType
<1>3. SendOn(n, cs, TunPublish(f, cluster_published + 1))
  BY DEF ClientPublish, Tunnel
<1>4. cs \in SUBSET Links
  BY DEF ClusterType, LinkType
<1>5. SameSpread /\ UNCHANGED <<exec, route_table, tree, pruned>>
  BY DEF ClientPublish, SameSpread
<1> HIDE DEF cs
<1>6. \A m \in Nodes, c \in Links : WireKept(m, c)
  BY <1>2, <1>3, <1>4, WireSent
<1>7. \A m \in Nodes : TableKept(m)
  BY <1>5, TableSame
<1> QED BY <1>5, <1>6, <1>7, SpreadKept DEF AllKept

LEMMA AllTold ==
  ASSUME AllKept
  PROVE  \A m \in Nodes, c \in Links : \A f :
           (Told(m, c, f) => Told(m, c, f)') /\ (ToldFirst(m, c, f) => ToldFirst(m, c, f)')
BY ToldKept DEF AllKept

\* The connections of now are alive and have two ends.
LEMMA LiveHeld ==
  ASSUME ClusterType, LinkInv, NEW n \in Nodes, NEW c \in Links, Held(n, c), Current(c)
  PROVE  /\ Live(c) /\ n \in {c.from, c.to} /\ Other(n, c) # n /\ Other(n, c) \in Nodes
         /\ n = Other(Other(n, c), c) /\ {c.from, c.to} = {n, Other(n, c)}
<1>1. Seen(c)
  BY DEF Seen
<1>2. n \in {c.from, c.to} /\ c.from # c.to /\ Listening(c.from) /\ Registered(c.to)
  BY <1>1 DEF LinkInv, EndsInv, LifeInv
<1>3. Live(c)
  BY <1>2 DEF Live, Listening, Registered, Current
<1> QED BY <1>2, <1>3, AddrType DEF Other

\* What is sent to a member is on the wire.
LEMMA SentTo ==
  ASSUME ClusterType, LinkInv, NEW n \in Nodes, NEW cs \in SUBSET Links, NEW msg \in Messages,
         SendOn(n, cs, msg), NEW c \in cs, Held(n, c), Current(c), NEW m, m = Other(n, c)
  PROVE  msg \in Range(Wire(c, m)')
<1>1. Live(c) /\ m \in Nodes /\ c \in Links
  BY LiveHeld
<1>2. Wire(c, m)' = Append(Wire(c, m), msg)
  <2>1. PICK d \in Links, p \in Nodes : d = c /\ p = m
    BY <1>1
  <2>2. d \in cs /\ Live(d) /\ p = Other(n, d) => Wire(d, p)' = Append(Wire(d, p), msg)
    BY SentOn, Zenon
  <2> QED BY <1>1, <2>1, <2>2
<1>3. Wire(c, m) \in Seq(Messages)
  BY <1>1 DEF ClusterType, QueueType
<1>4. Range(Append(Wire(c, m), msg)) = Range(Wire(c, m)) \cup {msg}
  BY <1>3, RangeFacts
<1> QED BY <1>2, <1>4

\* A message of routes tells its routes.
LEMMA SyncTells ==
  ASSUME NEW m, NEW c, NEW r, RouteSync(r) \in Range(Wire(c, m)')
  PROVE  /\ \A f \in Range(r) : Told(m, c, f)'
         /\ ToldFirst(m, c, Head(r))'
<1>1. RouteSync(r).type = "route_sync" /\ RouteSync(r).filters = r
  BY DEF RouteSync
<1>2. ASSUME NEW f \in Range(r) PROVE Told(m, c, f)'
  <2>1. Syncs(RouteSync(r), f)
    BY <1>1 DEF Syncs
  <2> QED BY <2>1 DEF Told, Syncs
<1>3. ASSUME NEW f, f = Head(r) PROVE ToldFirst(m, c, f)'
  <2>1. SyncsFirst(RouteSync(r), f)
    BY <1>1, <1>3 DEF SyncsFirst
  <2> QED BY <2>1 DEF ToldFirst, SyncsFirst
<1> QED BY <1>2, <1>3

LEMMA SpreadAddMember ==
  ASSUME ClusterType, LinkInv, SpreadInv, NEW n \in Nodes, NEW c \in Links, AddMember(n, c)
  PROVE  SpreadInv'
<1> DEFINE cs == IF localRoutes[n] = <<>> THEN {} ELSE {c}
           msg == RouteSync(localRoutes[n])
<1>1. Rest(n) /\ c = Head(exec[n]).conn /\ IsMemberAdd(Head(exec[n])) /\ UNCHANGED data
      /\ SendOn(n, cs, msg) /\ cs \in SUBSET Links
      /\ members' = [members EXCEPT ![n] = {d \in @ : Addr(n, d) # Addr(n, c)} \cup {c}]
  BY DEF AddMember, MemberAdd, SyncRoutes
<1>2. members \in [Nodes -> SUBSET Links] /\ localRoutes[n] \in Seq(Filters)
  BY DEF ClusterType, LinkType, RouteType
<1>3. /\ members'[n] \subseteq members[n] \cup {c} /\ members'[n] \subseteq Links
      /\ \A m \in Nodes : m # n => members'[m] = members[m]
  BY <1>1, <1>2
<1>4. cs = {} \/ msg \in Messages
  BY <1>2, SyncType DEF Routes
<1>5. UNCHANGED <<life, localRoutes, route_table, tree, late, pruned>>
  BY <1>1 DEF data, Rest
<1>6. \A d : Current(d)' <=> Current(d)
  BY <1>5, SameLives
<1>7. localRoutes[n] # <<>> => cs = {c} /\ msg \in Messages
  BY <1>4
<1>8. msg = RouteSync(localRoutes[n])
  OBVIOUS
<1> HIDE DEF cs, msg
<1>9. AllKept
  <2>1. ~IsRouteAdd(Head(exec[n]))
    BY <1>1 DEF IsMemberAdd, IsRouteAdd
  <2>2. \A m \in Nodes : TableKept(m)
    BY <1>1, <1>5, <2>1, TableRun
  <2>3. \A m \in Nodes, d \in Links : WireKept(m, d)
    BY <1>1, <1>4, WireSent
  <2> QED BY <2>2, <2>3 DEF AllKept
<1>10. Held(n, c)
  <2>1. Waits(n, c)
    BY <1>1, FirstAdds
  <2> QED BY <2>1 DEF Held
<1>11. ASSUME localRoutes[n] # <<>>, Current(c), NEW m, m = Other(n, c) PROVE msg \in Range(Wire(c, m)')
  BY <1>1, <1>7, <1>10, <1>11, SentTo
<1>12. \A k \in Nodes : \A d \in members'[k] :
         d \in Links /\ Other(k, d)' = Other(k, d) /\ Other(k, d) \in Nodes /\ (d \in members[k] \/ (k = n /\ d = c))
  <2> SUFFICES ASSUME NEW k \in Nodes, NEW d \in members'[k]
               PROVE  d \in Links /\ Other(k, d)' = Other(k, d) /\ Other(k, d) \in Nodes
                      /\ (d \in members[k] \/ (k = n /\ d = c))
    OBVIOUS
  <2>1. d \in Links /\ (d \in members[k] \/ (k = n /\ d = c))
    BY <1>2, <1>3
  <2> QED BY <2>1, AddrType DEF Other
<1>13. ToldInv'
  <2> SUFFICES ASSUME NEW k \in Nodes, NEW d \in members'[k], Current(d)', NEW f \in Range(localRoutes'[k])
               PROVE  Told(Other(k, d), d, f)'
    BY DEF ToldInv
  <2>1. Current(d) /\ f \in Range(localRoutes[k])
    BY <1>5, <1>6
  <2>2. PICK m \in Nodes : m = Other(k, d)
    BY <1>12
  <2>3. Told(m, d, f)'
    <3>1. CASE d \in members[k]
      <4>1. Told(m, d, f) /\ d \in Links
        BY <1>12, <2>1, <2>2, <3>1 DEF SpreadInv, ToldInv
      <4> QED BY <1>9, <4>1, AllTold
    <3>2. CASE k = n /\ d = c
      <4>1. localRoutes[n] # <<>>
        BY <2>1, <3>2 DEF Range
      <4>2. msg \in Range(Wire(d, m)')
        BY <1>11, <2>1, <2>2, <3>2, <4>1
      <4> QED BY <1>8, <2>1, <3>2, <4>2, SyncTells
    <3> QED BY <1>12, <3>1, <3>2
  <2> QED BY <1>12, <2>2, <2>3
<1>14. FirstInv'
  <2> SUFFICES ASSUME NEW k \in Nodes, NEW d \in members'[k], Current(d)', NEW f \in Filters,
                      <<k, d, f>> \in late' \/ localRoutes'[k] = <<f>>
               PROVE  ToldFirst(Other(k, d), d, f)'
    BY DEF FirstInv
  <2>1. Current(d) /\ (<<k, d, f>> \in late \/ localRoutes[k] = <<f>>) /\ d \in Links
    BY <1>5, <1>6, <1>12
  <2>2. PICK m \in Nodes : m = Other(k, d)
    BY <1>12
  <2>3. ToldFirst(m, d, f)'
    <3>1. CASE d \in members[k]
      <4>1. ToldFirst(m, d, f)
        BY <2>1, <2>2, <3>1 DEF SpreadInv, FirstInv
      <4> QED BY <1>9, <2>1, <4>1, AllTold
    <3>2. CASE k = n /\ d = c /\ localRoutes[k] = <<f>>
      <4>1. localRoutes[n] # <<>> /\ Head(localRoutes[n]) = f
        BY <3>2
      <4>2. msg \in Range(Wire(d, m)')
        BY <1>11, <2>1, <2>2, <3>2, <4>1
      <4>3. PICK r : r = localRoutes[n] /\ Head(r) = f
        BY <4>1
      <4>4. ToldFirst(m, d, Head(r))'
        BY <1>8, <4>2, <4>3, SyncTells
      <4> QED BY <4>3, <4>4
    <3>3. CASE <<k, d, f>> \in late
      <4>1. d \in members[k]
        BY <2>1, <3>3 DEF SpreadInv, LateInv
      <4> QED BY <3>1, <4>1
    <3> QED BY <1>12, <2>1, <3>1, <3>2, <3>3
  <2> QED BY <1>12, <2>2, <2>3
<1>15. LateInv'
  <2> SUFFICES ASSUME NEW k \in Nodes, NEW d \in Links, NEW f \in Filters, <<k, d, f>> \in late', Current(d)'
               PROVE  d \in members'[k]
    BY DEF LateInv
  <2>1. Current(d) /\ d \in members[k]
    BY <1>5, <1>6 DEF SpreadInv, LateInv
  <2>2. CASE k = n
    BY <2>1, <2>2, NotReplaced
  <2>3. CASE k # n
    BY <1>3, <2>1, <2>3
  <2> QED BY <2>2, <2>3
<1> QED BY <1>13, <1>14, <1>15 DEF SpreadInv

LEMMA SpreadSubscribe ==
  ASSUME ClusterType, LinkInv, SpreadInv, NEW n \in Nodes, NEW g \in Filters, Subscribe(n, g)
  PROVE  SpreadInv'
<1>1. /\ localRoutes' = [localRoutes EXCEPT ![n] = <<g>> \o @]
      /\ SendOn(n, members[n], RouteSync(<<g>>))
      /\ late' = late \cup {<<n, c, g>> : c \in members[n]}
      /\ UNCHANGED <<life, members, exec, route_table, tree, pruned>>
  BY DEF Subscribe
<1>2. members \in [Nodes -> SUBSET Links] /\ localRoutes \in [Nodes -> Seq(Filters)]
      /\ members[n] \in SUBSET Links /\ localRoutes[n] \in Seq(Filters)
  BY DEF ClusterType, LinkType, RouteType
<1>3. <<g>> \in Routes
  BY DEF Routes
<1>4. RouteSync(<<g>>) \in Messages
  BY <1>3, SyncType
<1>5. AllKept
  <2>1. \A m \in Nodes : TableKept(m)
    BY <1>1, TableSame
  <2>2. \A m \in Nodes, d \in Links : WireKept(m, d)
    BY <1>1, <1>2, <1>4, WireSent
  <2> QED BY <2>1, <2>2 DEF AllKept
<1>6. \A d : Current(d)' <=> Current(d)
  BY <1>1, SameLives
<1>7. /\ \A m \in Nodes : m # n => localRoutes'[m] = localRoutes[m]
      /\ \A f \in Range(localRoutes'[n]) : f = g \/ f \in Range(localRoutes[n])
      /\ \A f : localRoutes'[n] = <<f>> => f = g
  <2>1. localRoutes'[n] = <<g>> \o localRoutes[n] /\ \A m \in Nodes : m # n => localRoutes'[m] = localRoutes[m]
    BY <1>1, <1>2
  <2>2. /\ DOMAIN (<<g>> \o localRoutes[n]) = 1 .. Len(localRoutes[n]) + 1 /\ Len(localRoutes[n]) \in Nat
        /\ DOMAIN localRoutes[n] = 1 .. Len(localRoutes[n])
        /\ (<<g>> \o localRoutes[n])[1] = g
        /\ \A i \in 2 .. Len(localRoutes[n]) + 1 : (<<g>> \o localRoutes[n])[i] = localRoutes[n][i - 1]
    BY <1>2
  <2>3. ASSUME NEW f \in Range(localRoutes'[n]) PROVE f = g \/ f \in Range(localRoutes[n])
    <3>1. PICK i \in 1 .. Len(localRoutes[n]) + 1 : f = (<<g>> \o localRoutes[n])[i]
      BY <2>1, <2>2, <2>3 DEF Range
    <3>2. CASE i = 1
      BY <2>2, <3>1, <3>2
    <3>3. CASE i # 1
      <4>1. i \in 2 .. Len(localRoutes[n]) + 1 /\ i - 1 \in DOMAIN localRoutes[n]
        BY <2>2, <3>3
      <4> QED BY <2>2, <3>1, <4>1 DEF Range
    <3> QED BY <3>2, <3>3
  <2>4. \A f : <<f>>[1] = f
    OBVIOUS
  <2>5. \A f : localRoutes'[n] = <<f>> => f = g
    BY <2>1, <2>2, <2>4, Zenon
  <2> QED BY <2>1, <2>3, <2>5
<1>8. ASSUME NEW c \in members[n], Current(c), NEW m, m = Other(n, c)
      PROVE  Told(m, c, g)' /\ ToldFirst(m, c, g)'
  <2>1. Held(n, c)
    BY DEF Held
  <2>2. RouteSync(<<g>>) \in Range(Wire(c, m)')
    BY <1>1, <1>2, <1>4, <1>8, <2>1, SentTo
  <2>3. PICK r : r = <<g>>
    OBVIOUS
  <2>4. g \in Range(r) /\ Head(r) = g
    BY <2>3 DEF Range
  <2>5. (\A f \in Range(r) : Told(m, c, f)') /\ ToldFirst(m, c, Head(r))'
    BY <2>2, <2>3, SyncTells
  <2> QED BY <2>4, <2>5
<1>9. \A k \in Nodes : \A d \in members[k] :
         d \in Links /\ Other(k, d)' = Other(k, d) /\ Other(k, d) \in Nodes
  BY <1>2, AddrType DEF Other
<1>10. ToldInv'
  <2> SUFFICES ASSUME NEW k \in Nodes, NEW d \in members'[k], Current(d)', NEW f \in Range(localRoutes'[k])
               PROVE  Told(Other(k, d), d, f)'
    BY DEF ToldInv
  <2>1. Current(d) /\ d \in members[k]
    BY <1>1, <1>6
  <2>2. PICK m \in Nodes : m = Other(k, d)
    BY <1>9, <2>1
  <2>3. Told(m, d, f)'
    <3>1. CASE f \in Range(localRoutes[k])
      <4>1. Told(m, d, f) /\ d \in Links
        BY <1>9, <2>1, <2>2, <3>1 DEF SpreadInv, ToldInv
      <4> QED BY <1>5, <4>1, AllTold
    <3>2. CASE k = n /\ f = g
      BY <1>8, <2>1, <2>2, <3>2
    <3> QED BY <1>7, <3>1, <3>2
  <2> QED BY <1>9, <2>1, <2>2, <2>3
<1>11. FirstInv'
  <2> SUFFICES ASSUME NEW k \in Nodes, NEW d \in members'[k], Current(d)', NEW f \in Filters,
                      <<k, d, f>> \in late' \/ localRoutes'[k] = <<f>>
               PROVE  ToldFirst(Other(k, d), d, f)'
    BY DEF FirstInv
  <2>1. Current(d) /\ d \in members[k]
    BY <1>1, <1>6
  <2>2. PICK m \in Nodes : m = Other(k, d)
    BY <1>9, <2>1
  <2>3. <<k, d, f>> \in late \/ localRoutes[k] = <<f>> \/ (k = n /\ f = g)
    <3>1. <<k, d, f>> \in late' => <<k, d, f>> \in late \/ (k = n /\ f = g)
      BY <1>1
    <3> QED BY <1>7, <3>1
  <2>4. ToldFirst(m, d, f)'
    <3>1. CASE <<k, d, f>> \in late \/ localRoutes[k] = <<f>>
      <4>1. ToldFirst(m, d, f) /\ d \in Links
        BY <1>9, <2>1, <2>2, <3>1 DEF SpreadInv, FirstInv
      <4> QED BY <1>5, <4>1, AllTold
    <3>2. CASE k = n /\ f = g
      BY <1>8, <2>1, <2>2, <3>2
    <3> QED BY <2>3, <3>1, <3>2
  <2> QED BY <1>9, <2>1, <2>2, <2>4
<1>12. LateInv'
  <2> SUFFICES ASSUME NEW k \in Nodes, NEW d \in Links, NEW f \in Filters, <<k, d, f>> \in late', Current(d)'
               PROVE  d \in members[k]
    BY <1>1 DEF LateInv
  <2>1. Current(d)
    BY <1>6
  <2>2. <<k, d, f>> \in late \/ (k = n /\ d \in members[n])
    BY <1>1
  <2> QED BY <2>1, <2>2 DEF SpreadInv, LateInv
<1> QED BY <1>10, <1>11, <1>12 DEF SpreadInv

LEMMA SpreadStop ==
  ASSUME ClusterType, LinkInv, SpreadInv, NEW n \in Nodes, Stop(n)
  PROVE  SpreadInv'
<1>1. /\ members' = [members EXCEPT ![n] = {}] /\ exec' = [exec EXCEPT ![n] = <<>>]
      /\ localRoutes' = [localRoutes EXCEPT ![n] = <<>>]
      /\ route_table' = [route_table EXCEPT ![n] = {}] /\ tree' = [tree EXCEPT ![n] = {}]
      /\ late' \subseteq late /\ pruned' = {x \in pruned : x[1] # n}
  BY DEF Stop
<1>2. members \in [Nodes -> SUBSET Links] /\ exec \in [Nodes -> Seq(Tasks)]
      /\ localRoutes \in [Nodes -> Seq(Filters)]
      /\ route_table \in [Nodes -> SUBSET (Filters \X Addrs)] /\ tree \in [Nodes -> SUBSET (Filters \X Addrs)]
  BY DEF ClusterType, LinkType, QueueType, RouteType
<1>3. members'[n] = {} /\ \A m \in Nodes : m # n =>
        /\ members'[m] = members[m] /\ exec'[m] = exec[m] /\ localRoutes'[m] = localRoutes[m]
        /\ route_table'[m] = route_table[m] /\ tree'[m] = tree[m]
  BY <1>1, <1>2
<1>4. ASSUME NEW m \in Nodes, m # n PROVE TableKept(m)
  <2>1. ASSUME NEW f, <<m, f>> \in pruned PROVE <<m, f>> \in pruned'
    <3>1. <<m, f>>[1] # n
      BY <1>4
    <3> QED BY <1>1, <2>1, <3>1
  <2> QED BY <1>3, <1>4, <2>1, TableSame
<1>5. ASSUME NEW k \in Nodes, NEW d \in members'[k], Current(d)'
      PROVE  /\ d \in members[k] /\ d \in Links /\ k # n /\ Current(d) /\ Other(k, d)' = Other(k, d)
             /\ Other(k, d) \in Nodes \ {n} /\ \A f : /\ (Told(Other(k, d), d, f) => Told(Other(k, d), d, f)')
                                           /\ (ToldFirst(Other(k, d), d, f) => ToldFirst(Other(k, d), d, f)')
  <2>1. k # n /\ d \in members[k] /\ d \in Links
    BY <1>2, <1>3, <1>5
  <2>2. Held(k, d)
    BY <2>1 DEF Held
  <2>3. Seen(d)
    BY <2>2 DEF Seen
  <2>4. Current(d) /\ n \notin {d.from, d.to}
    BY <1>5, <2>1, <2>3, StopCurrent DEF LinkInv
  <2>5. PICK m \in Nodes : m = Other(k, d) /\ m # n
    BY <2>1, <2>2, <2>4, LiveHeld
  <2>6. Other(k, d)' = m
    BY <2>5 DEF Other
  <2>7. WireKept(m, d)
    BY <2>1, <2>4, Stopped, WireSame
  <2>8. \A f : (Told(m, d, f) => Told(m, d, f)') /\ (ToldFirst(m, d, f) => ToldFirst(m, d, f)')
    BY <1>4, <2>5, <2>7, ToldKept
  <2> QED BY <2>1, <2>4, <2>5, <2>6, <2>8
<1>6. ToldInv'
  <2> SUFFICES ASSUME NEW k \in Nodes, NEW d \in members'[k], Current(d)', NEW f \in Range(localRoutes'[k])
               PROVE  Told(Other(k, d), d, f)'
    BY DEF ToldInv
  <2>1. Told(Other(k, d), d, f)
    BY <1>3, <1>5 DEF SpreadInv, ToldInv
  <2> QED BY <1>5, <2>1
<1>7. FirstInv'
  <2> SUFFICES ASSUME NEW k \in Nodes, NEW d \in members'[k], Current(d)', NEW f \in Filters,
                      <<k, d, f>> \in late' \/ localRoutes'[k] = <<f>>
               PROVE  ToldFirst(Other(k, d), d, f)'
    BY DEF FirstInv
  <2>1. d \in members[k] /\ k # n /\ Current(d)
    BY <1>5
  <2>2. <<k, d, f>> \in late \/ localRoutes[k] = <<f>>
    BY <1>1, <1>3, <2>1
  <2>3. ToldFirst(Other(k, d), d, f)
    BY <2>1, <2>2 DEF SpreadInv, FirstInv
  <2> QED BY <1>5, <2>3
<1>8. LateInv'
  <2> SUFFICES ASSUME NEW k \in Nodes, NEW d \in Links, NEW f \in Filters, <<k, d, f>> \in late', Current(d)'
               PROVE  d \in members'[k]
    BY DEF LateInv
  <2>1. <<k, d, f>> \in late /\ k # n
    <3>1. <<k, d, f>>[1] = k
      OBVIOUS
    <3>2. late' = {x \in late : x[1] # n}
      BY DEF Stop
    <3> QED BY <3>1, <3>2
  <2>2. Seen(d)
    BY <2>1 DEF Seen
  <2>3. Current(d)
    BY <2>2, StopCurrent DEF LinkInv
  <2> QED BY <1>3, <2>1, <2>3 DEF SpreadInv, LateInv
<1> QED BY <1>6, <1>7, <1>8 DEF SpreadInv

LEMMA SpreadNext ==
  ASSUME MaxTunnelled \in Nat, ClusterType, LinkInv, SpreadInv, ClusterNext, ~disturbed'
  PROVE  SpreadInv'
<1>0. ASSUME SameSpread, UNCHANGED <<wire, exec, route_table, tree, pruned>> PROVE SpreadInv'
  <2>1. \A m \in Nodes : TableKept(m)
    BY <1>0, TableSame
  <2>2. \A m \in Nodes, c \in Links : WireKept(m, c)
    BY <1>0, SameWires, WireSame
  <2> QED BY <1>0, <2>1, <2>2, SpreadKept DEF AllKept
<1>1. CASE Registration
  <2>1. SameSpread /\ UNCHANGED <<wire, exec, route_table, tree, pruned>>
    BY <1>1 DEF Registration, Registers, Quiet, LockExpires, Start, Acquire, Register, Listen, Release,
                net, data, SameSpread
  <2> QED BY <1>0, <2>1
<1>2. CASE \E n \in Nodes : Crash(n) \/ DiscoverFails(n)
  BY <1>2, StopUndisturbed, SpreadStop
<1>3. CASE \E n \in Nodes : Discover(n)
  <2>1. SameSpread /\ UNCHANGED <<wire, exec, route_table, tree, pruned>>
    BY <1>3 DEF Discover, data, SameSpread
  <2> QED BY <1>0, <2>1
<1>4. CASE \E n \in Nodes : NewConn(n)
  BY <1>4, SpreadNewConn
<1>5. CASE \E n \in Nodes : Receive(n)
  BY <1>5, ReceiveIs, SpreadReceive
<1>6. CASE \E n \in Nodes : RunTask(n)
  BY <1>6, RunTaskIs, SpreadAddMember, SpreadAddRoute, SpreadHandOver
<1>7. CASE \E n \in Nodes, f \in Filters : Subscribe(n, f)
  BY <1>7, SpreadSubscribe
<1>8. CASE \E n \in Nodes, f \in Filters : Unsubscribe(n, f)
  BY <1>8, SpreadUnsubscribe
<1>9. CASE \E n \in Nodes, f \in Filters : ClientPublish(n, f)
  BY <1>9, SpreadPublish
<1>10. CASE \E n \in Nodes : RedisFails(n)
  BY <1>10 DEF RedisFails
<1> QED BY <1>1, <1>2, <1>3, <1>4, <1>5, <1>6, <1>7, <1>8, <1>9, <1>10, NextIs DEF Step
-----------------------------------------------------------------------------
(* The messages.                                                           *)

LEMMA UnderWaySame ==
  ASSUME NEW m, NEW c, Wire(c, m)' = Wire(c, m), NEW i, NEW x
  PROVE  UnderWay(m, c, i, x)' <=> UnderWay(m, c, i, x)
BY DEF UnderWay, Carries

\* What a broker sends is at the end of the wire.
LEMMA UnderWaySent ==
  ASSUME ClusterType, NEW n \in Nodes, NEW cs \in SUBSET Links, NEW msg, cs = {} \/ msg \in Messages,
         SendOn(n, cs, msg), NEW m \in Nodes, NEW c \in Links, NEW i \in Nat, NEW x
  PROVE  UnderWay(m, c, i, x)' =>
           \/ UnderWay(m, c, i, x)
           \/ /\ Carries(msg, x) /\ c \in cs /\ Live(c) /\ m = Other(n, c)
              /\ i = Len(Wire(c, m)) + 1
<1>1. Wire(c, m) \in Seq(Messages)
  BY DEF ClusterType, QueueType
<1>2. CASE c \in cs /\ Live(c) /\ m = Other(n, c)
  <2>0. c \in cs /\ Live(c) /\ m = Other(n, c) => Wire(c, m)' = Append(Wire(c, m), msg)
    BY SentOn
  <2>1. Wire(c, m)' = Append(Wire(c, m), msg)
    BY <1>2, <2>0
  <2>2. msg \in Messages
    BY <1>2
  <2>3. /\ DOMAIN Append(Wire(c, m), msg) = 1 .. Len(Wire(c, m)) + 1
        /\ DOMAIN Wire(c, m) = 1 .. Len(Wire(c, m)) /\ Len(Wire(c, m)) \in Nat
        /\ \A j \in 1 .. Len(Wire(c, m)) : Append(Wire(c, m), msg)[j] = Wire(c, m)[j]
        /\ Append(Wire(c, m), msg)[Len(Wire(c, m)) + 1] = msg
    BY <1>1, <2>2, Appended
  <2> HAVE UnderWay(m, c, i, x)'
  <2>4. i \in DOMAIN Append(Wire(c, m), msg) /\ Carries(Append(Wire(c, m), msg)[i], x)
    BY <2>1 DEF UnderWay, Carries
  <2>5. CASE i \in 1 .. Len(Wire(c, m))
    BY <2>3, <2>4, <2>5 DEF UnderWay
  <2>6. CASE i = Len(Wire(c, m)) + 1
    BY <1>2, <2>3, <2>4, <2>6
  <2>7. i \in 1 .. Len(Wire(c, m)) \/ i = Len(Wire(c, m)) + 1
    BY <2>3, <2>4
  <2> QED BY <2>5, <2>6, <2>7
<1>3. CASE ~(c \in cs /\ Live(c) /\ m = Other(n, c))
  <2>1. Wire(c, m)' = Wire(c, m)
    BY <1>3, SentOn
  <2> QED BY <2>1, UnderWaySame
<1> QED BY <1>2, <1>3

LEMMA UnderWayRead ==
  ASSUME ClusterType, NEW n \in Nodes, NEW c \in Links, ReceiveOn(n, c), NEW i \in Nat, NEW x
  PROVE  /\ UnderWay(n, c, i, x)' => UnderWay(n, c, i + 1, x) /\ i > 0
         /\ Carries(Head(Wire(c, n)), x) => UnderWay(n, c, 1, x)
<1>1. Wire(c, n) \in Seq(Messages) /\ Wire(c, n) # <<>>
  BY DEF ClusterType, QueueType, ReceiveOn
<1>2. Wire(c, n)' = Tail(Wire(c, n))
  BY ReceivedOn
<1>3. /\ DOMAIN Tail(Wire(c, n)) = 1 .. Len(Wire(c, n)) - 1 /\ DOMAIN Wire(c, n) = 1 .. Len(Wire(c, n))
      /\ Len(Wire(c, n)) \in Nat \ {0} /\ Head(Wire(c, n)) = Wire(c, n)[1]
      /\ \A j \in 1 .. Len(Wire(c, n)) - 1 : Tail(Wire(c, n))[j] = Wire(c, n)[j + 1]
  BY <1>1, Shortened
<1>4. ASSUME UnderWay(n, c, i, x)' PROVE UnderWay(n, c, i + 1, x) /\ i > 0
  <2>1. i \in DOMAIN Tail(Wire(c, n)) /\ Carries(Tail(Wire(c, n))[i], x)
    BY <1>2, <1>4 DEF UnderWay, Carries
  <2>2. i + 1 \in DOMAIN Wire(c, n) /\ i > 0 /\ Tail(Wire(c, n))[i] = Wire(c, n)[i + 1]
    BY <1>3, <2>1
  <2> QED BY <2>1, <2>2 DEF UnderWay
<1>5. ASSUME Carries(Head(Wire(c, n)), x) PROVE UnderWay(n, c, 1, x)
  <2>1. 1 \in DOMAIN Wire(c, n)
    BY <1>3
  <2> QED BY <1>3, <1>5, <2>1 DEF UnderWay
<1> QED BY <1>4, <1>5

LEMMA ToDoSame ==
  ASSUME NEW m, exec'[m] = exec[m], NEW i, NEW x
  PROVE  ToDo(m, i, x)' <=> ToDo(m, i, x)
BY DEF ToDo, HandsOn, IsPublish

LEMMA ToDoPosted ==
  ASSUME ClusterType, NEW n \in Nodes, NEW t \in Tasks, exec'[n] = Append(exec[n], t),
         NEW i \in Nat, NEW x, ToDo(n, i, x)'
  PROVE  ToDo(n, i, x) \/ (HandsOn(t, x) /\ i = Len(exec[n]) + 1)
<1>1. exec[n] \in Seq(Tasks)
  BY DEF ClusterType, QueueType
<1>2. /\ DOMAIN exec[n] = 1 .. Len(exec[n]) /\ DOMAIN exec'[n] = 1 .. Len(exec[n]) + 1
      /\ Len(exec[n]) \in Nat
      /\ \A j \in 1 .. Len(exec[n]) : exec'[n][j] = exec[n][j]
      /\ exec'[n][Len(exec[n]) + 1] = t
  BY <1>1, Appended
<1>3. i \in DOMAIN exec'[n] /\ HandsOn(exec'[n][i], x)
  BY DEF ToDo, HandsOn, IsPublish
<1>4. CASE i \in 1 .. Len(exec[n])
  BY <1>2, <1>3, <1>4 DEF ToDo
<1>5. CASE i = Len(exec[n]) + 1
  BY <1>2, <1>3, <1>5
<1>6. i \in 1 .. Len(exec[n]) \/ i = Len(exec[n]) + 1
  BY <1>2, <1>3
<1> QED BY <1>4, <1>5, <1>6

LEMMA ToDoRun ==
  ASSUME ClusterType, NEW n \in Nodes, Rest(n), NEW i \in Nat, NEW x
  PROVE  /\ ToDo(n, i, x)' => ToDo(n, i + 1, x) /\ i > 0
         /\ HandsOn(Head(exec[n]), x) => ToDo(n, 1, x)
<1>1. exec[n] \in Seq(Tasks) /\ exec[n] # <<>> /\ exec'[n] = Tail(exec[n])
  BY RestFacts
<1>2. /\ DOMAIN exec'[n] = 1 .. Len(exec[n]) - 1 /\ DOMAIN exec[n] = 1 .. Len(exec[n])
      /\ Len(exec[n]) \in Nat \ {0} /\ Head(exec[n]) = exec[n][1]
      /\ \A j \in 1 .. Len(exec[n]) - 1 : exec'[n][j] = exec[n][j + 1]
  BY <1>1, Shortened
<1>3. ASSUME ToDo(n, i, x)' PROVE ToDo(n, i + 1, x) /\ i > 0
  <2>1. i \in DOMAIN exec'[n] /\ HandsOn(exec'[n][i], x)
    BY <1>3 DEF ToDo, HandsOn, IsPublish
  <2>2. i + 1 \in DOMAIN exec[n] /\ i > 0 /\ exec'[n][i] = exec[n][i + 1]
    BY <1>2, <2>1
  <2> QED BY <2>1, <2>2 DEF ToDo
<1>4. ASSUME HandsOn(Head(exec[n]), x) PROVE ToDo(n, 1, x)
  <2>1. 1 \in DOMAIN exec[n]
    BY <1>2
  <2> QED BY <1>2, <1>4, <2>1 DEF ToDo
<1> QED BY <1>3, <1>4

\* A step that brings no message anywhere: what is there was there, s or u places behind.
WireShift(m, c) == \E s \in Nat : \A i, x \in Nat : UnderWay(m, c, i, x)' => UnderWay(m, c, i + s, x)
TaskShift(m)    == \E u \in Nat : \A i, x \in Nat : ToDo(m, i, x)' => ToDo(m, i + u, x)
NoNews == \A m \in Nodes : TaskShift(m) /\ \A c \in Links : WireShift(m, c)

LEMMA OnceShift ==
  ASSUME OnceInv, NoNews
  PROVE  WireOnce' /\ TaskOnce' /\ OnePlace'
<1>1. WireOnce'
  <2> SUFFICES ASSUME NEW n \in Nodes, NEW c \in Links, NEW d \in Links, NEW i \in Nat, NEW j \in Nat,
                      NEW x \in Nat, UnderWay(n, c, i, x)', UnderWay(n, d, j, x)'
               PROVE  c = d /\ i = j
    BY DEF WireOnce
  <2>1. PICK s \in Nat : UnderWay(n, c, i + s, x)
    BY DEF NoNews, WireShift
  <2>2. PICK t \in Nat : UnderWay(n, d, j + t, x)
    BY DEF NoNews, WireShift
  <2>3. i + s \in Nat /\ j + t \in Nat
    OBVIOUS
  <2>4. c = d
    BY <2>1, <2>2, <2>3 DEF OnceInv, WireOnce
  <2>5. PICK u \in Nat : UnderWay(n, c, i + u, x) /\ UnderWay(n, c, j + u, x)
    BY <2>4 DEF NoNews, WireShift
  <2>6. i + u \in Nat /\ j + u \in Nat
    OBVIOUS
  <2>7. i + u = j + u
    BY <2>5, <2>6 DEF OnceInv, WireOnce
  <2> QED BY <2>4, <2>7
<1>2. TaskOnce'
  <2> SUFFICES ASSUME NEW n \in Nodes, NEW i \in Nat, NEW j \in Nat, NEW x \in Nat,
                      ToDo(n, i, x)', ToDo(n, j, x)'
               PROVE  i = j
    BY DEF TaskOnce
  <2>1. PICK u \in Nat : ToDo(n, i + u, x) /\ ToDo(n, j + u, x)
    BY DEF NoNews, TaskShift
  <2>2. i + u \in Nat /\ j + u \in Nat
    OBVIOUS
  <2>3. i + u = j + u
    BY <2>1, <2>2 DEF OnceInv, TaskOnce
  <2> QED BY <2>3
<1>3. OnePlace'
  <2> SUFFICES ASSUME NEW n \in Nodes, NEW c \in Links, NEW i \in Nat, NEW j \in Nat, NEW x \in Nat,
                      UnderWay(n, c, i, x)', ToDo(n, j, x)'
               PROVE  FALSE
    BY DEF OnePlace
  <2>1. PICK s \in Nat : UnderWay(n, c, i + s, x)
    BY DEF NoNews, WireShift
  <2>2. PICK u \in Nat : ToDo(n, j + u, x)
    BY DEF NoNews, TaskShift
  <2>3. i + s \in Nat /\ j + u \in Nat
    OBVIOUS
  <2> QED BY <2>1, <2>2, <2>3 DEF OnceInv, OnePlace
<1> QED BY <1>1, <1>2, <1>3

LEMMA OnceKept ==
  ASSUME OnceInv, NoNews, got' = got, cluster_published' = cluster_published
  PROVE  OnceInv'
<1>1. ASSUME NEW n \in Nodes, NEW c \in Links, NEW i \in Nat, NEW x \in Nat, UnderWay(n, c, i, x)'
      PROVE  \E j \in Nat : UnderWay(n, c, j, x)
  <2>1. PICK s \in Nat : UnderWay(n, c, i + s, x)
    BY <1>1 DEF NoNews, WireShift
  <2>2. i + s \in Nat
    OBVIOUS
  <2> QED BY <2>1, <2>2
<1>2. ASSUME NEW n \in Nodes, NEW i \in Nat, NEW x \in Nat, ToDo(n, i, x)'
      PROVE  \E j \in Nat : ToDo(n, j, x)
  <2>1. PICK s \in Nat : ToDo(n, i + s, x)
    BY <1>2 DEF NoNews, TaskShift
  <2>2. i + s \in Nat
    OBVIOUS
  <2> QED BY <2>1, <2>2
<1>3. GotOnce'
  <2> SUFFICES ASSUME NEW n \in Nodes, NEW x \in 1 .. MaxTunnelled
               PROVE  /\ got[n][x] <= 1
                      /\ got[n][x] = 1 => (\A c \in Links : \A i \in Nat : ~UnderWay(n, c, i, x)')
                                          /\ (\A i \in Nat : ~ToDo(n, i, x)')
    BY DEF GotOnce
  <2>1. x \in Nat
    OBVIOUS
  <2>2. got[n][x] <= 1
    BY DEF OnceInv, GotOnce
  <2>3. ASSUME got[n][x] = 1
        PROVE  (\A c \in Links : \A i \in Nat : ~UnderWay(n, c, i, x)) /\ (\A i \in Nat : ~ToDo(n, i, x))
    BY <2>3 DEF OnceInv, GotOnce
  <2> QED BY <1>1, <1>2, <2>1, <2>2, <2>3
<1>4. OldOnly'
  <2>1. ASSUME NEW n \in Nodes, NEW c \in Links, NEW i \in Nat, NEW x \in Nat, UnderWay(n, c, i, x)'
        PROVE  x <= cluster_published
    BY <1>1, <2>1 DEF OnceInv, OldOnly
  <2>2. ASSUME NEW n \in Nodes, NEW i \in Nat, NEW x \in Nat, ToDo(n, i, x)'
        PROVE  x <= cluster_published
    BY <1>2, <2>2 DEF OnceInv, OldOnly
  <2>3. ASSUME NEW n \in Nodes, NEW x \in 1 .. MaxTunnelled, got[n][x] > 0 PROVE x <= cluster_published
    BY <2>3 DEF OnceInv, OldOnly
  <2> QED BY <2>1, <2>2, <2>3 DEF OldOnly
<1> QED BY <1>3, <1>4, OnceShift DEF OnceInv

\* Wires and queues that do not change, and messages of routes that are sent.
LEMMA NoShift ==
  ASSUME NEW m
  PROVE  /\ exec'[m] = exec[m] => TaskShift(m)
         /\ \A c : Wire(c, m)' = Wire(c, m) => WireShift(m, c)
<1>1. \A i \in Nat : i + 0 = i
  OBVIOUS
<1>2. ASSUME exec'[m] = exec[m] PROVE TaskShift(m)
  <2>1. \A i, x \in Nat : ToDo(m, i, x)' => ToDo(m, i + 0, x)
    BY <1>1, <1>2, ToDoSame
  <2> QED BY <2>1 DEF TaskShift
<1>3. ASSUME NEW c, Wire(c, m)' = Wire(c, m) PROVE WireShift(m, c)
  <2>1. \A i, x \in Nat : UnderWay(m, c, i, x)' => UnderWay(m, c, i + 0, x)
    BY <1>1, <1>3, UnderWaySame
  <2> QED BY <2>1 DEF WireShift
<1> QED BY <1>2, <1>3

LEMMA RoutesShift ==
  ASSUME ClusterType, NEW n \in Nodes, NEW cs \in SUBSET Links, NEW r, cs = {} \/ RouteSync(r) \in Messages,
         SendOn(n, cs, RouteSync(r)), NEW m \in Nodes, NEW c \in Links
  PROVE  WireShift(m, c)
<1>1. \A x : ~Carries(RouteSync(r), x)
  BY DEF Carries, RouteSync
<1>2. ASSUME NEW i \in Nat, NEW x \in Nat, UnderWay(m, c, i, x)' PROVE UnderWay(m, c, i + 0, x)
  <2>1. PICK msg : msg = RouteSync(r)
    OBVIOUS
  <2>2. UnderWay(m, c, i, x) \/ Carries(msg, x)
    BY <1>2, <2>1, UnderWaySent
  <2>3. i + 0 = i
    OBVIOUS
  <2> QED BY <1>1, <2>1, <2>2, <2>3
<1> QED BY <1>2 DEF WireShift

\* A task is run that hands no message on.
LEMMA RestShift ==
  ASSUME ClusterType, NEW n \in Nodes, Rest(n), NEW m \in Nodes
  PROVE  TaskShift(m)
<1>1. CASE m = n
  <2>1. \A i, x \in Nat : ToDo(n, i, x)' => ToDo(n, i + 1, x)
    BY ToDoRun
  <2> QED BY <1>1, <2>1 DEF TaskShift
<1>2. CASE m # n
  BY <1>2, RestFacts, NoShift
<1> QED BY <1>1, <1>2

LEMMA OnceNewConn ==
  ASSUME ClusterType, OnceInv, NEW n \in Nodes, NewConn(n)
  PROVE  OnceInv'
<1> DEFINE t == [op |-> "member_add", conn |-> Head(incoming[n])]
<1>1. incoming[n] \in Seq(Links) /\ incoming[n] # <<>> /\ exec \in [Nodes -> Seq(Tasks)]
  BY DEF NewConn, ClusterType, LinkType, QueueType
<1>2. Head(incoming[n]) \in Links
  BY <1>1
<1>3. t \in Tasks /\ \A x : ~HandsOn(t, x)
  BY <1>2 DEF Tasks, HandsOn, IsPublish
<1>4. exec' = [exec EXCEPT ![n] = Append(@, t)] /\ wire' = wire /\ got' = got /\ cluster_published' = cluster_published
  BY DEF NewConn, data
<1> HIDE DEF t
<1>5. exec'[n] = Append(exec[n], t) /\ \A m \in Nodes : m # n => exec'[m] = exec[m]
  BY <1>1, <1>4
<1>6. TaskShift(n)
  <2>1. ASSUME NEW i \in Nat, NEW x \in Nat, ToDo(n, i, x)' PROVE ToDo(n, i + 0, x)
    <3>1. ToDo(n, i, x)
      BY <1>3, <1>5, <2>1, ToDoPosted
    <3>2. i + 0 = i
      OBVIOUS
    <3> QED BY <3>1, <3>2
  <2> QED BY <2>1 DEF TaskShift
<1>7. NoNews
  <2>1. \A m \in Nodes : TaskShift(m)
    BY <1>5, <1>6, NoShift
  <2>2. \A m \in Nodes, c \in Links : WireShift(m, c)
    BY <1>4, SameWires, NoShift
  <2> QED BY <2>1, <2>2 DEF NoNews
<1> QED BY <1>4, <1>7, OnceKept

LEMMA OnceAddMember ==
  ASSUME ClusterType, OnceInv, NEW n \in Nodes, NEW c \in Links, AddMember(n, c)
  PROVE  OnceInv'
<1> DEFINE cs == IF localRoutes[n] = <<>> THEN {} ELSE {c}
<1>1. Rest(n) /\ got' = got /\ cluster_published' = cluster_published /\ cs \in SUBSET Links
      /\ SendOn(n, cs, RouteSync(localRoutes[n]))
  BY DEF AddMember, MemberAdd, SyncRoutes, data
<1>2. localRoutes[n] \in Seq(Filters)
  BY DEF ClusterType, RouteType
<1>3. cs = {} \/ RouteSync(localRoutes[n]) \in Messages
  BY <1>2, SyncType DEF Routes
<1> HIDE DEF cs
<1>4. \A m \in Nodes, d \in Links : WireShift(m, d)
  BY <1>1, <1>3, RoutesShift
<1>5. \A m \in Nodes : TaskShift(m)
  BY <1>1, RestShift
<1> QED BY <1>1, <1>4, <1>5, OnceKept DEF NoNews

LEMMA OnceAddRoute ==
  ASSUME ClusterType, OnceInv, NEW n \in Nodes, NEW t \in Tasks, AddRoute(n, t)
  PROVE  OnceInv'
<1>1. Rest(n) /\ UNCHANGED <<wire, got, cluster_published>>
  BY DEF AddRoute, RouteAdd
<1>2. \A m \in Nodes, d \in Links : WireShift(m, d)
  BY <1>1, SameWires, NoShift
<1>3. \A m \in Nodes : TaskShift(m)
  BY <1>1, RestShift
<1> QED BY <1>1, <1>2, <1>3, OnceKept DEF NoNews

LEMMA OnceSubscribe ==
  ASSUME ClusterType, OnceInv, NEW n \in Nodes, NEW f \in Filters, Subscribe(n, f)
  PROVE  OnceInv'
<1>1. SendOn(n, members[n], RouteSync(<<f>>)) /\ UNCHANGED <<exec, got, cluster_published>>
  BY DEF Subscribe
<1>2. <<f>> \in Routes /\ members[n] \in SUBSET Links
  BY DEF Routes, ClusterType, LinkType
<1>3. RouteSync(<<f>>) \in Messages
  BY <1>2, SyncType
<1>4. \A m \in Nodes, d \in Links : WireShift(m, d)
  BY <1>1, <1>2, <1>3, RoutesShift
<1>5. \A m \in Nodes : TaskShift(m)
  BY <1>1, NoShift
<1> QED BY <1>1, <1>4, <1>5, OnceKept DEF NoNews

LEMMA OnceStop ==
  ASSUME ClusterType, OnceInv, NEW n \in Nodes, Stop(n)
  PROVE  OnceInv'
<1>1. exec' = [exec EXCEPT ![n] = <<>>] /\ got' = got /\ cluster_published' = cluster_published
  BY DEF Stop
<1>2. exec \in [Nodes -> Seq(Tasks)]
  BY DEF ClusterType, QueueType
<1>3. exec'[n] = <<>> /\ \A m \in Nodes : m # n => exec'[m] = exec[m]
  BY <1>1, <1>2
<1>4. ASSUME NEW m \in Nodes PROVE TaskShift(m)
  <2>1. CASE m = n
    <3>1. \A i, x \in Nat : ~ToDo(n, i, x)'
      BY <1>3 DEF ToDo
    <3> QED BY <2>1, <3>1 DEF TaskShift
  <2>2. CASE m # n
    BY <1>3, <2>2, NoShift
  <2> QED BY <2>1, <2>2
<1>5. ASSUME NEW m \in Nodes, NEW c \in Links PROVE WireShift(m, c)
  <2>1. CASE Wire(c, m)' = <<>>
    <3>1. \A i, x \in Nat : ~UnderWay(m, c, i, x)'
      BY <2>1 DEF UnderWay
    <3> QED BY <3>1 DEF WireShift
  <2>2. CASE Wire(c, m)' = Wire(c, m)
    BY <2>2, NoShift
  <2> QED BY <2>1, <2>2, Stopped
<1> QED BY <1>1, <1>4, <1>5, OnceKept DEF NoNews

\* A message is received: it goes from the wire to the queue.
LEMMA OnceReceive ==
  ASSUME ClusterType, OnceInv, NEW n \in Nodes, NEW c, ReceiveOn(n, c)
  PROVE  OnceInv'
<1>1. c \in Links /\ Head(Wire(c, n)) \in Messages
  BY ReceivedIs
<1>2. PICK h \in Messages : h = Head(Wire(c, n))
  BY <1>1
<1>3. PICK t \in Tasks : t = Task(n, c, h)
  BY <1>1, TaskType
<1>4. exec' = [exec EXCEPT ![n] = Append(@, t)] /\ got' = got /\ cluster_published' = cluster_published
  BY <1>2, <1>3 DEF ReceiveOn, data
<1>5. exec \in [Nodes -> Seq(Tasks)]
  BY DEF ClusterType, QueueType
<1>6. exec'[n] = Append(exec[n], t) /\ \A m \in Nodes : m # n => exec'[m] = exec[m]
  BY <1>4, <1>5
<1>7. \A x \in Nat : HandsOn(t, x) => UnderWay(n, c, 1, x)
  <2> SUFFICES ASSUME NEW x \in Nat, HandsOn(t, x) PROVE UnderWay(n, c, 1, x)
    OBVIOUS
  <2>1. Carries(h, x)
    <3>1. CASE h.type = "route_sync"
      BY <1>3, <3>1 DEF HandsOn, IsPublish, Task
    <3>2. CASE h.type # "route_sync"
      <4>1. h.type = "tun_publish"
        BY <3>2, MessageFields
      <4> QED BY <1>3, <3>2, <4>1 DEF HandsOn, IsPublish, Task, Carries
    <3> QED BY <3>1, <3>2
  <2> QED BY <1>1, <1>2, <2>1, UnderWayRead
<1>8. \A i, x \in Nat : ToDo(n, i, x)' => ToDo(n, i, x) \/ (HandsOn(t, x) /\ i = Len(exec[n]) + 1)
  BY <1>6, ToDoPosted
<1>9. \A i, x \in Nat : UnderWay(n, c, i, x)' => UnderWay(n, c, i + 1, x) /\ i > 0
  BY <1>1, UnderWayRead
<1>10. \A m \in Nodes, d \in Links : \A i, x : m # n \/ d # c => (UnderWay(m, d, i, x)' <=> UnderWay(m, d, i, x))
  BY <1>1, ReceivedOn, UnderWaySame
<1>11. \A m \in Nodes, d \in Links : \A i, x \in Nat :
         UnderWay(m, d, i, x)' => \E j \in Nat : UnderWay(m, d, j, x) /\ (m = n /\ d = c => j = i + 1 /\ j > 1)
  <2> SUFFICES ASSUME NEW m \in Nodes, NEW d \in Links, NEW i \in Nat, NEW x \in Nat, UnderWay(m, d, i, x)'
               PROVE  \E j \in Nat : UnderWay(m, d, j, x) /\ (m = n /\ d = c => j = i + 1 /\ j > 1)
    OBVIOUS
  <2>1. CASE m = n /\ d = c
    <3>1. UnderWay(n, c, i + 1, x) /\ i > 0
      BY <1>9, <2>1
    <3>2. PICK j \in Nat : j = i + 1 /\ j > 1
      BY <3>1
    <3> QED BY <2>1, <3>1, <3>2
  <2>2. CASE ~(m = n /\ d = c)
    BY <1>10, <2>2
  <2> QED BY <2>1, <2>2
<1>12. \A m \in Nodes : \A i, x \in Nat :
         ToDo(m, i, x)' => \/ ToDo(m, i, x)
                           \/ m = n /\ i = Len(exec[n]) + 1 /\ UnderWay(n, c, 1, x)
  <2>1. \A m \in Nodes : m # n => \A i, x : ToDo(m, i, x)' <=> ToDo(m, i, x)
    BY <1>6, ToDoSame
  <2> QED BY <1>7, <1>8, <2>1
<1>13. WireOnce'
  <2> SUFFICES ASSUME NEW m \in Nodes, NEW d \in Links, NEW e \in Links, NEW i \in Nat, NEW j \in Nat,
                      NEW x \in Nat, UnderWay(m, d, i, x)', UnderWay(m, e, j, x)'
               PROVE  d = e /\ i = j
    BY DEF WireOnce
  <2>1. d = e
    BY <1>11 DEF OnceInv, WireOnce
  <2>2. CASE m = n /\ d = c
    <3>1. UnderWay(n, c, i + 1, x) /\ UnderWay(n, c, j + 1, x) /\ i + 1 \in Nat /\ j + 1 \in Nat
      BY <1>9, <2>1, <2>2
    <3>2. i + 1 = j + 1
      BY <1>1, <3>1 DEF OnceInv, WireOnce
    <3> QED BY <2>1, <3>2
  <2>3. CASE ~(m = n /\ d = c)
    <3>1. UnderWay(m, d, i, x) /\ UnderWay(m, d, j, x)
      BY <1>10, <2>1, <2>3
    <3> QED BY <2>1, <3>1 DEF OnceInv, WireOnce
  <2> QED BY <2>2, <2>3
<1>14. TaskOnce'
  <2> SUFFICES ASSUME NEW m \in Nodes, NEW i \in Nat, NEW j \in Nat, NEW x \in Nat,
                      ToDo(m, i, x)', ToDo(m, j, x)'
               PROVE  i = j
    BY DEF TaskOnce
  <2>1. ASSUME NEW k \in Nat, ToDo(m, k, x), m = n, UnderWay(n, c, 1, x) PROVE FALSE
    BY <1>1, <2>1 DEF OnceInv, OnePlace
  <2>2. ToDo(m, i, x) /\ ToDo(m, j, x) => i = j
    BY DEF OnceInv, TaskOnce
  <2> QED BY <1>12, <2>1, <2>2
<1>15. OnePlace'
  <2> SUFFICES ASSUME NEW m \in Nodes, NEW d \in Links, NEW i \in Nat, NEW j \in Nat, NEW x \in Nat,
                      UnderWay(m, d, i, x)', ToDo(m, j, x)'
               PROVE  FALSE
    BY DEF OnePlace
  <2>1. PICK k \in Nat : UnderWay(m, d, k, x) /\ (m = n /\ d = c => k > 1)
    BY <1>11
  <2>2. ~ToDo(m, j, x)
    BY <2>1 DEF OnceInv, OnePlace
  <2>3. m = n /\ UnderWay(n, c, 1, x)
    BY <1>12, <2>2
  <2>4. d = c /\ k = 1
    BY <1>1, <2>1, <2>3 DEF OnceInv, WireOnce
  <2> QED BY <2>1, <2>3, <2>4
<1>16. GotOnce'
  <2> SUFFICES ASSUME NEW m \in Nodes, NEW x \in 1 .. MaxTunnelled
               PROVE  /\ got[m][x] <= 1
                      /\ got[m][x] = 1 => (\A d \in Links : \A i \in Nat : ~UnderWay(m, d, i, x)')
                                          /\ (\A i \in Nat : ~ToDo(m, i, x)')
    BY <1>4 DEF GotOnce
  <2>1. x \in Nat
    OBVIOUS
  <2>2. got[m][x] <= 1
    BY DEF OnceInv, GotOnce
  <2>3. ASSUME got[m][x] = 1
        PROVE  (\A d \in Links : \A i \in Nat : ~UnderWay(m, d, i, x)) /\ (\A i \in Nat : ~ToDo(m, i, x))
    BY <2>3 DEF OnceInv, GotOnce
  <2>4. ASSUME got[m][x] = 1, NEW d \in Links, NEW i \in Nat PROVE ~UnderWay(m, d, i, x)'
    BY <1>11, <2>1, <2>3, <2>4
  <2>5. ASSUME got[m][x] = 1, NEW i \in Nat PROVE ~ToDo(m, i, x)'
    BY <1>1, <1>12, <2>1, <2>3, <2>5
  <2> QED BY <2>2, <2>4, <2>5
<1>17. OldOnly'
  <2>1. ASSUME NEW m \in Nodes, NEW d \in Links, NEW i \in Nat, NEW x \in Nat, UnderWay(m, d, i, x)'
        PROVE  x <= cluster_published
    BY <1>11, <2>1 DEF OnceInv, OldOnly
  <2>2. ASSUME NEW m \in Nodes, NEW i \in Nat, NEW x \in Nat, ToDo(m, i, x)'
        PROVE  x <= cluster_published
    BY <1>1, <1>12, <2>2 DEF OnceInv, OldOnly
  <2>3. ASSUME NEW m \in Nodes, NEW x \in 1 .. MaxTunnelled, got[m][x] > 0 PROVE x <= cluster_published
    BY <2>3 DEF OnceInv, OldOnly
  <2> QED BY <1>4, <2>1, <2>2, <2>3 DEF OldOnly
<1> QED BY <1>13, <1>14, <1>15, <1>16, <1>17 DEF OnceInv

\* Handing on counts one message at one broker.
LEMMA HandedOn ==
  ASSUME HistoryType, NEW n \in Nodes, NEW f, NEW y \in 1 .. MaxTunnelled, HandOn(n, f, y)
  PROVE  /\ \A m \in Nodes, x \in 1 .. MaxTunnelled : m # n \/ x # y => got'[m][x] = got[m][x]
         /\ got'[n][y] = got[n][y] \/ got'[n][y] = got[n][y] + 1
         /\ \A m \in Nodes, x \in 1 .. MaxTunnelled : got[m][x] \in Nat
<1>1. got \in [Nodes -> [1 .. MaxTunnelled -> Nat]]
  BY DEF HistoryType
<1>2. PICK j : j = IF f \in subs[n] THEN got[n][y] + 1 ELSE got[n][y]
  OBVIOUS
<1>3. got' = [got EXCEPT ![n] = [got[n] EXCEPT ![y] = j]]
  BY <1>2 DEF HandOn
<1>4. got'[n] = [got[n] EXCEPT ![y] = j] /\ \A m \in Nodes : m # n => got'[m] = got[m]
  BY <1>1, <1>3
<1>5. got[n] \in [1 .. MaxTunnelled -> Nat]
  BY <1>1
<1>6. got'[n][y] = j /\ \A x \in 1 .. MaxTunnelled : x # y => got'[n][x] = got[n][x]
  BY <1>4, <1>5
<1> QED BY <1>1, <1>2, <1>4, <1>6

\* A message is handed on: it goes from the queue to the clients.
LEMMA OnceHandOver ==
  ASSUME ClusterType, OnceInv, NEW n \in Nodes, NEW t \in Tasks, HandOver(n, t)
  PROVE  OnceInv'
<1>1. Rest(n) /\ t = Head(exec[n]) /\ IsPublish(t) /\ wire' = wire /\ cluster_published' = cluster_published
      /\ HandOn(n, t.filter, t.msg)
  BY DEF HandOver, PublishTunnelled, Tunnelled
<1>2. PICK y \in 1 .. MaxTunnelled : y = t.msg
  BY <1>1, TaskFields
<1>3. y \in Nat /\ ToDo(n, 1, y)
  BY <1>1, <1>2, ToDoRun DEF HandsOn
<1>4. HistoryType
  BY DEF ClusterType
<1>5. /\ \A m \in Nodes, x \in 1 .. MaxTunnelled : m # n \/ x # y => got'[m][x] = got[m][x]
      /\ got'[n][y] = got[n][y] \/ got'[n][y] = got[n][y] + 1
      /\ \A m \in Nodes, x \in 1 .. MaxTunnelled : got[m][x] \in Nat
  BY <1>1, <1>2, <1>4, HandedOn
<1>6. \A m \in Nodes, c \in Links : \A i, x : UnderWay(m, c, i, x)' <=> UnderWay(m, c, i, x)
  BY <1>1, SameWires, UnderWaySame
<1>7. \A i, x \in Nat : ToDo(n, i, x)' => ToDo(n, i + 1, x) /\ i > 0
  BY <1>1, ToDoRun
<1>8. \A m \in Nodes : m # n => \A i, x : ToDo(m, i, x)' <=> ToDo(m, i, x)
  BY <1>1, RestFacts, ToDoSame
<1>9. ASSUME NEW m \in Nodes, NEW i \in Nat, NEW x \in Nat, ToDo(m, i, x)'
      PROVE  (\E j \in Nat : ToDo(m, j, x)) /\ ~(m = n /\ x = y)
  <2>1. CASE m = n
    <3>1. PICK j \in Nat : j = i + 1 /\ ToDo(n, j, x) /\ j > 1
      BY <1>7, <1>9, <2>1
    <3>2. ASSUME x = y PROVE FALSE
      <4>1. j = 1
        BY <1>3, <3>1, <3>2 DEF OnceInv, TaskOnce
      <4> QED BY <3>1, <4>1
    <3> QED BY <2>1, <3>1, <3>2
  <2>2. CASE m # n
    BY <1>8, <1>9, <2>2
  <2> QED BY <2>1, <2>2
<1>10. NoNews
  <2>1. \A m \in Nodes, d \in Links : WireShift(m, d)
    BY <1>1, SameWires, NoShift
  <2>2. \A m \in Nodes : TaskShift(m)
    BY <1>1, RestShift
  <2> QED BY <2>1, <2>2 DEF NoNews
<1>11. WireOnce' /\ TaskOnce' /\ OnePlace'
  BY <1>10, OnceShift
<1>12. \A c \in Links : \A i \in Nat : ~UnderWay(n, c, i, y)
  BY <1>3 DEF OnceInv, OnePlace
<1>13. got[n][y] = 0
  <2>1. PICK k \in Nat : k = got[n][y]
    BY <1>5
  <2>2. k <= 1 /\ k # 1
    BY <1>3, <2>1 DEF OnceInv, GotOnce
  <2> QED BY <2>1, <2>2
<1>14. GotOnce'
  <2> SUFFICES ASSUME NEW m \in Nodes, NEW x \in 1 .. MaxTunnelled
               PROVE  /\ got'[m][x] <= 1
                      /\ got'[m][x] = 1 => (\A d \in Links : \A i \in Nat : ~UnderWay(m, d, i, x)')
                                           /\ (\A i \in Nat : ~ToDo(m, i, x)')
    BY DEF GotOnce
  <2>1. x \in Nat
    OBVIOUS
  <2>2. CASE m = n /\ x = y
    <3>1. got'[n][y] <= 1
      BY <1>5, <1>13
    <3>2. \A d \in Links : \A i \in Nat : ~UnderWay(n, d, i, y)'
      BY <1>6, <1>12
    <3>3. \A i \in Nat : ~ToDo(n, i, y)'
      BY <1>3, <1>9
    <3> QED BY <2>2, <3>1, <3>2, <3>3
  <2>3. CASE ~(m = n /\ x = y)
    <3>1. got'[m][x] = got[m][x]
      BY <1>5, <2>3
    <3>2. got[m][x] <= 1
      BY DEF OnceInv, GotOnce
    <3>3. ASSUME got[m][x] = 1
          PROVE  (\A d \in Links : \A i \in Nat : ~UnderWay(m, d, i, x)) /\ (\A i \in Nat : ~ToDo(m, i, x))
      BY <3>3 DEF OnceInv, GotOnce
    <3> QED BY <1>6, <1>9, <2>1, <3>1, <3>2, <3>3
  <2> QED BY <2>2, <2>3
<1>15. OldOnly'
  <2>1. ASSUME NEW m \in Nodes, NEW d \in Links, NEW i \in Nat, NEW x \in Nat, UnderWay(m, d, i, x)'
        PROVE  x <= cluster_published
    BY <1>6, <2>1 DEF OnceInv, OldOnly
  <2>2. ASSUME NEW m \in Nodes, NEW i \in Nat, NEW x \in Nat, ToDo(m, i, x)'
        PROVE  x <= cluster_published
    BY <1>9, <2>2 DEF OnceInv, OldOnly
  <2>3. ASSUME NEW m \in Nodes, NEW x \in 1 .. MaxTunnelled, got'[m][x] > 0 PROVE x <= cluster_published
    <3>1. CASE m = n /\ x = y
      BY <1>3, <3>1 DEF OnceInv, OldOnly
    <3>2. CASE ~(m = n /\ x = y)
      <4>1. got[m][x] > 0
        BY <1>5, <2>3, <3>2
      <4> QED BY <4>1 DEF OnceInv, OldOnly
    <3> QED BY <3>1, <3>2
  <2> QED BY <1>1, <2>1, <2>2, <2>3 DEF OldOnly
<1> QED BY <1>11, <1>14, <1>15 DEF OnceInv

\* There is one connection of now between two brokers.
LEMMA OneConnection ==
  ASSUME ClusterType, LinkInv, NEW n \in Nodes, NEW c \in members[n], NEW d \in members[n],
         Current(c), Current(d), Other(n, c) = Other(n, d)
  PROVE  c = d
<1>1. c \in Links /\ d \in Links /\ life \in [Nodes -> Nat]
  BY DEF ClusterType, LinkType, NodeType
<1>2. Held(n, c) /\ Held(n, d)
  BY DEF Held
<1>3. Seen(c) /\ Seen(d)
  BY <1>2 DEF Seen
<1>4. /\ n \in {c.from, c.to} /\ n \in {d.from, d.to} /\ c.from # c.to /\ d.from # d.to
      /\ c.from \in Nodes /\ c.to \in Nodes /\ d.from \in Nodes /\ d.to \in Nodes
  BY <1>1, <1>2, <1>3 DEF LinkInv, EndsInv, LifeInv, Links
<1>5. Held(c.from, c) /\ Held(d.from, d)
  BY <1>1, <1>3 DEF LinkInv, LifeInv
<1>6. c = Conn(c.from, c.to) /\ d = Conn(d.from, d.to)
  BY <1>1, <1>4, ConnFacts
<1>7. Made(c.from, c.to) /\ Made(d.from, d.to)
  BY <1>5, <1>6 DEF Made
<1>8. ~(c.from = d.to /\ c.to = d.from)
  BY <1>4, <1>7 DEF LinkInv, OneWay
<1>9. c.from = d.from /\ c.to = d.to
  BY <1>4, <1>8 DEF Other
<1> QED BY <1>6, <1>9

\* A message is published: it is new, and goes to each other broker at most once.
LEMMA OncePublish ==
  ASSUME MaxTunnelled \in Nat, ClusterType, LinkInv, OnceInv, NEW n \in Nodes, NEW f \in Filters, ClientPublish(n, f)
  PROVE  OnceInv'
<1> DEFINE cs == {c \in members[n] : Addr(n, c) \in MatchedMembers(n, f)}
<1>1. cluster_published \in Nat /\ cluster_published + 1 \in 1 .. MaxTunnelled
  BY DEF ClientPublish, ClusterType, HistoryType
<1>2. PICK p \in Nat : p = cluster_published
  BY <1>1
<1>3. PICK y \in 1 .. MaxTunnelled : y = p + 1 /\ y \in Nat
  BY <1>1, <1>2
<1>4. PICK msg \in Messages : msg = TunPublish(f, y)
  BY TunType
<1>5. /\ cluster_published' = y /\ HandOn(n, f, y) /\ SendOn(n, cs, msg) /\ exec' = exec
  BY <1>2, <1>3, <1>4 DEF ClientPublish, Tunnel
<1>6. cs \in SUBSET Links /\ cs \subseteq members[n]
  BY DEF ClusterType, LinkType
<1>7. \A x : Carries(msg, x) => x = y
  BY <1>4 DEF Carries, TunPublish
<1> HIDE DEF cs
<1>8. \A m \in Nodes, c \in Links : \A i, x \in Nat :
        UnderWay(m, c, i, x)' =>
          \/ UnderWay(m, c, i, x)
          \/ /\ Carries(msg, x) /\ c \in cs /\ Live(c) /\ m = Other(n, c)
             /\ i = Len(Wire(c, m)) + 1
  BY <1>5, <1>6, UnderWaySent
<1>9. \A m \in Nodes : \A i, x : ToDo(m, i, x)' <=> ToDo(m, i, x)
  BY <1>5, ToDoSame
<1>10. HistoryType
  BY DEF ClusterType
<1>11. /\ \A m \in Nodes, x \in 1 .. MaxTunnelled : m # n \/ x # y => got'[m][x] = got[m][x]
       /\ got'[n][y] = got[n][y] \/ got'[n][y] = got[n][y] + 1
       /\ \A m \in Nodes, x \in 1 .. MaxTunnelled : got[m][x] \in Nat
  BY <1>5, <1>10, HandedOn
<1>12. /\ \A m \in Nodes, c \in Links : \A i \in Nat : ~UnderWay(m, c, i, y)
       /\ \A m \in Nodes : \A i \in Nat : ~ToDo(m, i, y)
       /\ \A m \in Nodes : got[m][y] = 0
  <2>1. ~(y <= cluster_published)
    BY <1>2, <1>3
  <2>2. \A m \in Nodes, c \in Links : \A i \in Nat : ~UnderWay(m, c, i, y)
    BY <1>3, <2>1 DEF OnceInv, OldOnly
  <2>3. \A m \in Nodes : \A i \in Nat : ~ToDo(m, i, y)
    BY <1>3, <2>1 DEF OnceInv, OldOnly
  <2>4. ASSUME NEW m \in Nodes PROVE got[m][y] = 0
    <3>1. PICK k \in Nat : k = got[m][y]
      BY <1>11
    <3>2. ~(k > 0)
      BY <2>1, <3>1 DEF OnceInv, OldOnly
    <3> QED BY <3>1, <3>2
  <2> QED BY <2>2, <2>3, <2>4
<1>13. ASSUME NEW c \in cs, Live(c)
       PROVE  c \in Links /\ c \in members[n] /\ Current(c) /\ Other(n, c) # n
  <2>1. c \in Links /\ c \in members[n] /\ Current(c)
    BY <1>6, <1>13 DEF Live, Current
  <2>2. Held(n, c)
    BY <2>1 DEF Held
  <2> QED BY <2>1, <2>2, LiveHeld
<1>14. WireOnce'
  <2> SUFFICES ASSUME NEW m \in Nodes, NEW c \in Links, NEW d \in Links, NEW i \in Nat, NEW j \in Nat,
                      NEW x \in Nat, UnderWay(m, c, i, x)', UnderWay(m, d, j, x)'
               PROVE  c = d /\ i = j
    BY DEF WireOnce
  <2>1. CASE x = y
    <3>1. c \in cs /\ Live(c) /\ m = Other(n, c) /\ i = Len(Wire(c, m)) + 1
      BY <1>8, <1>12, <2>1
    <3>2. d \in cs /\ Live(d) /\ m = Other(n, d) /\ j = Len(Wire(d, m)) + 1
      BY <1>8, <1>12, <2>1
    <3>3. c = d
      BY <1>13, <3>1, <3>2, OneConnection
    <3> QED BY <3>1, <3>2, <3>3
  <2>2. CASE x # y
    <3>1. UnderWay(m, c, i, x) /\ UnderWay(m, d, j, x)
      BY <1>7, <1>8, <2>2
    <3> QED BY <3>1 DEF OnceInv, WireOnce
  <2> QED BY <2>1, <2>2
<1>15. TaskOnce'
  BY <1>9 DEF OnceInv, TaskOnce
<1>16. OnePlace'
  <2> SUFFICES ASSUME NEW m \in Nodes, NEW d \in Links, NEW i \in Nat, NEW j \in Nat, NEW x \in Nat,
                      UnderWay(m, d, i, x)', ToDo(m, j, x)'
               PROVE  FALSE
    BY DEF OnePlace
  <2>1. ToDo(m, j, x)
    BY <1>9
  <2>2. x # y
    BY <1>12, <2>1
  <2>3. UnderWay(m, d, i, x)
    BY <1>7, <1>8, <2>2
  <2> QED BY <2>1, <2>3 DEF OnceInv, OnePlace
<1>17. GotOnce'
  <2> SUFFICES ASSUME NEW m \in Nodes, NEW x \in 1 .. MaxTunnelled
               PROVE  /\ got'[m][x] <= 1
                      /\ got'[m][x] = 1 => (\A d \in Links : \A i \in Nat : ~UnderWay(m, d, i, x)')
                                           /\ (\A i \in Nat : ~ToDo(m, i, x)')
    BY DEF GotOnce
  <2>1. x \in Nat
    OBVIOUS
  <2>2. CASE m = n /\ x = y
    <3>1. got'[n][y] <= 1
      BY <1>11, <1>12
    <3>2. ASSUME NEW d \in Links, NEW i \in Nat, UnderWay(n, d, i, y)' PROVE FALSE
      BY <1>3, <1>8, <1>12, <1>13, <3>2
    <3>3. \A i \in Nat : ~ToDo(n, i, y)'
      BY <1>9, <1>12
    <3> QED BY <2>2, <3>1, <3>2, <3>3
  <2>3. CASE x = y /\ m # n
    <3>1. got'[m][x] = 0
      BY <1>11, <1>12, <2>3
    <3> QED BY <3>1
  <2>4. CASE x # y
    <3>1. got'[m][x] = got[m][x]
      BY <1>11, <2>4
    <3>2. got[m][x] <= 1
      BY DEF OnceInv, GotOnce
    <3>3. ASSUME got[m][x] = 1
          PROVE  (\A d \in Links : \A i \in Nat : ~UnderWay(m, d, i, x)) /\ (\A i \in Nat : ~ToDo(m, i, x))
      BY <3>3 DEF OnceInv, GotOnce
    <3>4. \A d \in Links : \A i \in Nat : UnderWay(m, d, i, x)' => UnderWay(m, d, i, x)
      BY <1>7, <1>8, <2>1, <2>4
    <3> QED BY <1>9, <3>1, <3>2, <3>3, <3>4
  <2> QED BY <2>2, <2>3, <2>4
<1>18. OldOnly'
  <2>0. ASSUME NEW x \in Nat, x <= cluster_published PROVE x <= y
    BY <1>2, <1>3, <2>0
  <2>1. ASSUME NEW m \in Nodes, NEW d \in Links, NEW i \in Nat, NEW x \in Nat, UnderWay(m, d, i, x)'
        PROVE  x <= y
    <3>1. CASE x = y
      BY <3>1
    <3>2. CASE UnderWay(m, d, i, x)
      BY <2>0, <3>2 DEF OnceInv, OldOnly
    <3> QED BY <1>7, <1>8, <2>1, <3>1, <3>2
  <2>2. ASSUME NEW m \in Nodes, NEW i \in Nat, NEW x \in Nat, ToDo(m, i, x)'
        PROVE  x <= y
    BY <1>9, <2>0, <2>2 DEF OnceInv, OldOnly
  <2>3. ASSUME NEW m \in Nodes, NEW x \in 1 .. MaxTunnelled, got'[m][x] > 0 PROVE x <= y
    <3>1. CASE x = y
      BY <3>1
    <3>2. CASE x # y
      <4>1. got[m][x] > 0
        BY <1>11, <2>3, <3>2
      <4>2. x <= cluster_published /\ x \in Nat
        BY <4>1 DEF OnceInv, OldOnly
      <4> QED BY <2>0, <4>2
    <3> QED BY <3>1, <3>2
  <2> QED BY <1>5, <2>1, <2>2, <2>3 DEF OldOnly
<1> QED BY <1>14, <1>15, <1>16, <1>17, <1>18 DEF OnceInv

LEMMA OnceNext ==
  ASSUME MaxTunnelled \in Nat, ClusterType, LinkInv, OnceInv, ClusterNext, ~disturbed'
  PROVE  OnceInv'
<1>0. ASSUME UNCHANGED <<wire, exec, got, cluster_published>> PROVE OnceInv'
  <2>1. \A m \in Nodes, d \in Links : WireShift(m, d)
    BY <1>0, SameWires, NoShift
  <2>2. \A m \in Nodes : TaskShift(m)
    BY <1>0, NoShift
  <2> QED BY <1>0, <2>1, <2>2, OnceKept DEF NoNews
<1>1. CASE Registration
  <2>1. UNCHANGED <<wire, exec, got, cluster_published>>
    BY <1>1 DEF Registration, Registers, Quiet, LockExpires, Start, Acquire, Register, Listen, Release, net, data
  <2> QED BY <1>0, <2>1
<1>2. CASE \E n \in Nodes : Crash(n) \/ DiscoverFails(n)
  BY <1>2, StopUndisturbed, OnceStop
<1>3. CASE \E n \in Nodes : Discover(n)
  BY <1>0, <1>3 DEF Discover, data
<1>4. CASE \E n \in Nodes : NewConn(n)
  BY <1>4, OnceNewConn
<1>5. CASE \E n \in Nodes : Receive(n)
  BY <1>5, ReceiveIs, OnceReceive
<1>6. CASE \E n \in Nodes : RunTask(n)
  BY <1>6, RunTaskIs, OnceAddMember, OnceAddRoute, OnceHandOver
<1>7. CASE \E n \in Nodes, f \in Filters : Subscribe(n, f)
  BY <1>7, OnceSubscribe
<1>8. CASE \E n \in Nodes, f \in Filters : Unsubscribe(n, f)
  BY <1>0, <1>8 DEF Unsubscribe, net
<1>9. CASE \E n \in Nodes, f \in Filters : ClientPublish(n, f)
  BY <1>9, OncePublish
<1>10. CASE \E n \in Nodes : RedisFails(n)
  BY <1>10 DEF RedisFails
<1> QED BY <1>1, <1>2, <1>3, <1>4, <1>5, <1>6, <1>7, <1>8, <1>9, <1>10, NextIs DEF Step
-----------------------------------------------------------------------------
(* The theorems.                                                           *)

LEMMA InitEmpty ==
  ASSUME ClusterInit
  PROVE  /\ \A n \in Nodes : exec[n] = <<>> /\ incoming[n] = <<>> /\ events[n] = <<>>
         /\ \A n \in Nodes : members[n] = {} /\ conns[n] = {} /\ tree[n] = {} /\ phase[n] = "off"
         /\ \A n \in Nodes, x \in 1 .. MaxTunnelled : got[n][x] = 0
         /\ \A n \in Nodes : \A c : Wire(c, n) = <<>> /\ ~Held(n, c)
         /\ \A n \in Nodes : DOMAIN exec[n] = {}
         /\ late = {}
<1>1. /\ \A n \in Nodes : exec[n] = <<>> /\ incoming[n] = <<>> /\ events[n] = <<>>
      /\ \A n \in Nodes : members[n] = {} /\ conns[n] = {} /\ tree[n] = {} /\ phase[n] = "off"
      /\ \A n \in Nodes, x \in 1 .. MaxTunnelled : got[n][x] = 0
      /\ late = {} /\ DOMAIN wire = {}
  BY DEF ClusterInit
<1>2. \A n \in Nodes : DOMAIN exec[n] = {} /\ Range(incoming[n]) = {}
  BY <1>1 DEF Range
<1>3. \A n \in Nodes : \A c : Wire(c, n) = <<>>
  BY <1>1 DEF Wire
<1>4. \A n \in Nodes : \A c : ~Held(n, c)
  BY <1>1, <1>2 DEF Held, Waits
<1> QED BY <1>1, <1>2, <1>3, <1>4

LEMMA MemberInit ==
  ASSUME ClusterInit
  PROVE  MemberInv
BY InitEmpty DEF MemberInv, MemberOfRoute, RoutesBehind, ReadsBehind

LEMMA LinkInit ==
  ASSUME ClusterInit
  PROVE  LinkInv
<1>1. LockInv
  BY InitEmpty DEF LockInv, Critical
<1>2. EventInv
  BY InitEmpty DEF EventInv, Range
<1>3. EndsInv
  BY InitEmpty DEF EndsInv
<1>4. LifeInv
  BY InitEmpty DEF LifeInv, Seen
<1>5. \A n, m \in Nodes : ~Made(n, m)
  BY InitEmpty DEF Made, Range
<1>6. OneWay
  BY <1>5 DEF OneWay
<1>7. Meeting
  BY InitEmpty DEF Meeting, Listening
<1>8. AgeInv
  <2> SUFFICES ASSUME NEW n \in Nodes, NEW d \in Links PROVE AgeOf(n, d)
    BY DEF AgeInv
  <2>1. d \notin members[n] /\ DOMAIN exec[n] = {} /\ ~Waits(n, d)
    BY InitEmpty DEF Held
  <2>2. DOMAIN incoming[n] = {}
    BY InitEmpty
  <2> QED BY <2>1, <2>2 DEF AgeOf
<1> QED BY <1>1, <1>2, <1>3, <1>4, <1>6, <1>7, <1>8 DEF LinkInv

LEMMA SpreadInit ==
  ASSUME ClusterInit
  PROVE  SpreadInv
BY InitEmpty DEF SpreadInv, ToldInv, FirstInv, LateInv

LEMMA OnceInit ==
  ASSUME ClusterInit
  PROVE  OnceInv
<1>1. \A n \in Nodes, c \in Links : \A i, x : ~UnderWay(n, c, i, x)
  BY InitEmpty DEF UnderWay
<1>2. \A n \in Nodes : \A i, x : ~ToDo(n, i, x)
  BY InitEmpty DEF ToDo
<1>3. \A n \in Nodes, x \in 1 .. MaxTunnelled : got[n][x] = 0
  BY InitEmpty
<1>4. WireOnce /\ TaskOnce /\ OnePlace
  BY <1>1, <1>2 DEF WireOnce, TaskOnce, OnePlace
<1>5. GotOnce
  BY <1>3 DEF GotOnce
<1>6. OldOnly
  BY <1>1, <1>2, <1>3 DEF OldOnly
<1> QED BY <1>4, <1>5, <1>6 DEF OnceInv

LEMMA TypeStutter ==
  ASSUME ClusterType, UNCHANGED clusterVars
  PROVE  ClusterType'
<1>1. NodeType' /\ LinkType' /\ RouteType' /\ HistoryType'
  BY DEF clusterVars, ClusterType, NodeType, LinkType, RouteType, HistoryType
<1>2. exec' = exec /\ wire' = wire
  BY DEF clusterVars
<1>3. \A c \in Links, n \in Nodes : Wire(c, n)' = Wire(c, n)
  BY <1>2, SameWires
<1>4. QueueType'
  BY <1>2, <1>3 DEF ClusterType, QueueType
<1> QED BY <1>1, <1>4 DEF ClusterType

LEMMA MemberStutter ==
  ASSUME MemberInv, UNCHANGED clusterVars
  PROVE  MemberInv'
<1> SUFFICES ASSUME NEW m \in Nodes PROVE MemberInvAt(m)'
  BY DEF MemberInv, MemberOfRoute, RoutesBehind, ReadsBehind, MemberInvAt
<1>1. MemberInvAt(m)
  BY MemberInvIs
<1>2. exec' = exec /\ members' = members /\ conns' = conns /\ tree' = tree
  BY DEF clusterVars
<1> QED BY <1>1, <1>2, MemberInvSame

LEMMA OtherStutter ==
  ASSUME ClusterType, LinkInv, SpreadInv, OnceInv, UNCHANGED clusterVars
  PROVE  LinkInv' /\ SpreadInv' /\ OnceInv'
<1>1. SameNodes /\ UNCHANGED <<incoming, members, exec, late>>
  BY DEF clusterVars, SameNodes
<1>2. LinkInv'
  BY <1>1, LinkData
<1>3. SameSpread /\ UNCHANGED <<wire, exec, route_table, tree, pruned, got, cluster_published>>
  BY DEF clusterVars, SameSpread
<1>4. SpreadInv'
  <2>1. \A m \in Nodes : TableKept(m)
    BY <1>3, TableSame
  <2>2. \A m \in Nodes, c \in Links : WireKept(m, c)
    BY <1>3, SameWires, WireSame
  <2> QED BY <1>3, <2>1, <2>2, SpreadKept DEF AllKept
<1>5. OnceInv'
  <2>1. \A m \in Nodes, d \in Links : WireShift(m, d)
    BY <1>3, SameWires, NoShift
  <2>2. \A m \in Nodes : TaskShift(m)
    BY <1>3, NoShift
  <2> QED BY <1>3, <2>1, <2>2, OnceKept DEF NoNews
<1> QED BY <1>2, <1>4, <1>5

\* An undisturbed cluster was undisturbed.
LEMMA Undisturbed ==
  ASSUME ClusterNext, ~disturbed'
  PROVE  ~disturbed
<1>1. CASE LockExpires
  BY <1>1 DEF LockExpires
<1>2. ASSUME NEW n \in Nodes, Crash(n) PROVE ~disturbed
  BY <1>2 DEF Crash
<1>3. ASSUME NEW n \in Nodes, DiscoverFails(n) PROVE ~disturbed
  BY <1>3 DEF DiscoverFails
<1>4. CASE disturbed' = disturbed
  BY <1>4
<1>5. ASSUME NEW n \in Nodes, \/ Start(n) \/ Acquire(n) \/ Register(n) \/ Listen(n) \/ Release(n)
                            \/ Discover(n) \/ NewConn(n) \/ Receive(n) \/ RunTask(n)
      PROVE  disturbed' = disturbed
  BY <1>5 DEF Start, Acquire, Register, Listen, Release, Discover, NewConn, Receive, RunTask
<1>6. ASSUME NEW n \in Nodes, NEW f \in Filters, Subscribe(n, f) \/ Unsubscribe(n, f) \/ ClientPublish(n, f)
      PROVE  disturbed' = disturbed
  BY <1>6 DEF Subscribe, Unsubscribe, ClientPublish
<1>7. ASSUME NEW n \in Nodes, RedisFails(n) PROVE ~disturbed
  BY <1>7 DEF RedisFails
<1> QED BY <1>1, <1>2, <1>3, <1>4, <1>5, <1>6, <1>7 DEF ClusterNext

LEMMA ClusterInvInit ==
  ASSUME ClusterInit
  PROVE  ClusterInv
BY TypeInit, MemberInit, LinkInit, SpreadInit, OnceInit DEF ClusterInv

LEMMA ClusterInvNext ==
  ASSUME MaxTunnelled \in Nat, Nobody \notin Nodes, ClusterInv, [ClusterNext]_clusterVars
  PROVE  ClusterInv'
<1>1. CASE ClusterNext
  <2>1. ClusterType /\ MemberInv
    BY DEF ClusterInv
  <2>2. ClusterType' /\ MemberInv'
    BY <1>1, <2>1, TypeNext, MemberNext
  <2>3. ASSUME ~disturbed' PROVE LinkInv' /\ SpreadInv' /\ OnceInv'
    <3>1. ~disturbed
      BY <1>1, <2>3, Undisturbed
    <3>2. LinkInv /\ SpreadInv /\ OnceInv
      BY <3>1 DEF ClusterInv
    <3> QED BY <1>1, <2>1, <2>3, <3>2, LinkNext, SpreadNext, OnceNext
  <2> QED BY <2>2, <2>3 DEF ClusterInv
<1>2. CASE UNCHANGED clusterVars
  <2>1. ClusterType /\ MemberInv
    BY DEF ClusterInv
  <2>2. ClusterType' /\ MemberInv'
    BY <1>2, <2>1, TypeStutter, MemberStutter
  <2>3. disturbed' = disturbed
    BY <1>2 DEF clusterVars
  <2>4. ASSUME ~disturbed' PROVE LinkInv' /\ SpreadInv' /\ OnceInv'
    <3>1. LinkInv /\ SpreadInv /\ OnceInv
      BY <2>3, <2>4 DEF ClusterInv
    <3> QED BY <1>2, <2>1, <3>1, OtherStutter
  <2> QED BY <2>2, <2>4 DEF ClusterInv
<1> QED BY <1>1, <1>2

\* For every cluster: an address in the topic tree of a broker has a connection in its
\* members (mqtt_tun_publish dereferences what it finds there), because the task that adds
\* a connection is posted before the connection is read and tasks run in order.  No fault
\* and no restart changes that; only a write to a freed node of the tree may
\* (route_table_add_item).
THEOREM RouteHasMemberInvariance == ClusterSpec => []RouteHasMember
<1>0. MaxTunnelled \in Nat /\ Nobody \notin Nodes
  BY ClusterAssumption
<1> DEFINE I == ClusterType /\ MemberInv
<1>1. ClusterInit => I
  BY <1>0, TypeInit, MemberInit
<1>2. I /\ [ClusterNext]_clusterVars => I'
  BY <1>0, TypeNext, MemberNext, TypeStutter, MemberStutter
<1>3. I => RouteHasMember
  BY DEF MemberInv, MemberOfRoute, RouteHasMember
<1> QED BY <1>1, <1>2, <1>3, PTL DEF ClusterSpec

\* For every cluster, with any number of faults: the invariant that follows the
\* connections, the routes and the messages of an undisturbed cluster from
\* tmq_redis_discovery_register to the tables of both brokers.
THEOREM ClusterInvariance == ClusterSpec => []ClusterInv
<1>0. MaxTunnelled \in Nat /\ Nobody \notin Nodes
  BY ClusterAssumption
<1>1. ClusterInit => ClusterInv
  BY <1>0, ClusterInvInit
<1>2. ClusterInv /\ [ClusterNext]_clusterVars => ClusterInv'
  BY <1>0, ClusterInvNext
<1> QED BY <1>1, <1>2, PTL DEF ClusterSpec

\* For every cluster that nothing has disturbed: a broker hands a message to its clients
\* at most once (mqtt_tun_publish sends it on each connection to a broker with a route, and
\* of two brokers only one has connected to the other).
THEOREM TunnelledOnceInvariance == ClusterSpec => []TunnelledOnce
<1>1. ClusterInv => TunnelledOnce
  BY DEF ClusterInv, OnceInv, GotOnce, TunnelledOnce
<1> QED BY <1>1, ClusterInvariance, PTL

LEMMA SettledWire ==
  ASSUME Settled, NEW c, NEW m
  PROVE  Wire(c, m) = <<>>
BY DEF Settled, Wire

\* Two brokers of a settled cluster have one connection, and what the one told the other
\* has arrived.
LEMMA SettledSpread ==
  ASSUME ClusterInv, Settled, ~disturbed, NEW n \in Nodes, NEW m \in Nodes,
         phase[n] = "up", phase[m] = "up", n # m
  PROVE  \E c \in members[n] \cap members[m] :
           /\ Live(c)
           /\ \A d \in members[n] \ {c} : Other(n, d) = m => ~Live(d)
           /\ \A f \in Range(localRoutes[n]) : <<f, Addr(m, c)>> \in route_table[m]
           /\ \A f \in Filters :
                (<<n, c, f>> \in late \/ localRoutes[n] = <<f>>) /\ <<m, f>> \notin pruned
                  => <<f, Addr(m, c)>> \in tree[m]
<1>1. ClusterType /\ LinkInv /\ SpreadInv
  BY DEF ClusterInv
<1>2. life \in [Nodes -> Nat] /\ members \in [Nodes -> SUBSET Links]
  BY <1>1 DEF ClusterType, NodeType, LinkType
<1>3. \A k \in Nodes : Range(events[k]) = {} /\ Range(incoming[k]) = {} /\ Range(exec[k]) = {} /\ DOMAIN exec[k] = {}
  BY DEF Settled, Range
<1>4. \A k \in Nodes : \A c : Held(k, c) => c \in members[k]
  BY <1>3 DEF Held, Waits
<1>5. PICK c \in Links : Current(c) /\ {c.from, c.to} = {n, m} /\ Held(c.from, c)
  <2>1. Made(n, m) \/ Made(m, n)
    BY <1>1 DEF LinkInv, Meeting, Listening, Registered
  <2>2. Held(n, Conn(n, m)) \/ Held(m, Conn(m, n))
    BY <1>3, <2>1 DEF Made
  <2>3. PICK c \in Links : c = Conn(n, m) /\ Current(c) /\ c.from = n /\ c.to = m
    BY <1>2, ConnFacts
  <2>4. PICK d \in Links : d = Conn(m, n) /\ Current(d) /\ d.from = m /\ d.to = n
    BY <1>2, ConnFacts
  <2>5. CASE Held(n, Conn(n, m))
    BY <2>3, <2>5
  <2>6. CASE Held(m, Conn(m, n))
    BY <2>4, <2>6
  <2> QED BY <2>2, <2>5, <2>6
<1>6. c.from \in Nodes /\ c.to \in Nodes
  BY DEF Links
<1>7. Seen(c)
  BY <1>5, <1>6 DEF Seen
<1>8. Held(n, c) /\ Held(m, c)
  <2>1. Held(c.from, c) /\ Held(c.to, c)
    BY <1>1, <1>5, <1>7 DEF LinkInv, LifeInv
  <2> QED BY <1>5, <2>1
<1>9. c \in members[n] /\ c \in members[m]
  BY <1>4, <1>8
<1>10. Live(c)
  BY <1>1, <1>5, <1>8, LiveHeld
<1>11. Other(n, c) = m
  BY <1>5 DEF Other
<1>12. ASSUME NEW d \in members[n], d # c, Other(n, d) = m PROVE ~Live(d)
  <2>1. ~Current(d)
    BY <1>1, <1>5, <1>9, <1>11, <1>12, OneConnection
  <2> QED BY <2>1 DEF Live, Current
<1>13. Wire(c, m) = <<>>
  BY SettledWire
<1>14. Range(Wire(c, m)) = {}
  BY <1>13 DEF Range
<1>15. ASSUME NEW f \in Range(localRoutes[n]) PROVE <<f, Addr(m, c)>> \in route_table[m]
  <2>1. Told(m, c, f)
    BY <1>1, <1>5, <1>9, <1>11, <1>15 DEF SpreadInv, ToldInv
  <2> QED BY <1>3, <1>14, <2>1 DEF Told
<1>16. ASSUME NEW f \in Filters, <<n, c, f>> \in late \/ localRoutes[n] = <<f>>, <<m, f>> \notin pruned
       PROVE  <<f, Addr(m, c)>> \in tree[m]
  <2>1. ToldFirst(m, c, f)
    BY <1>1, <1>5, <1>9, <1>11, <1>16 DEF SpreadInv, FirstInv
  <2> QED BY <1>3, <1>14, <1>16, <2>1 DEF ToldFirst
<1> QED BY <1>9, <1>10, <1>12, <1>15, <1>16

\* For every cluster that nothing has disturbed: once all has settled, any two brokers know
\* each other over exactly one connection and each has the other's routes
\* (on_new_member_discovered, handle_cluster_member_operation, tmq_cluster_add_route).
THEOREM RoutesSpreadInvariance == ClusterSpec => []RoutesSpread
<1>1. ClusterInv => RoutesSpread
  <2> SUFFICES ASSUME ClusterInv, Settled, ~disturbed, NEW n \in {x \in Nodes : phase[x] = "up"},
                      NEW m \in {x \in Nodes : phase[x] = "up"}, n # m
               PROVE  \E c \in members[n] \cap members[m] :
                        /\ Live(c)
                        /\ \A d \in members[n] \ {c} : Other(n, d) = m => ~Live(d)
                        /\ \A f \in Range(localRoutes[n]) : <<f, Addr(m, c)>> \in route_table[m]
                        /\ \A f \in Filters :
                             (<<n, c, f>> \in late \/ localRoutes[n] = <<f>>) /\ <<m, f>> \notin pruned
                               => <<f, Addr(m, c)>> \in tree[m]
    BY DEF RoutesSpread
  <2>1. n \in Nodes /\ m \in Nodes /\ phase[n] = "up" /\ phase[m] = "up"
    OBVIOUS
  <2> QED BY <2>1, SettledSpread
<1> QED BY <1>1, ClusterInvariance, PTL
=============================================================================
