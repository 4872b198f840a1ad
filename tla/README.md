# A verification project for tinyMQTT

tinyMQTT is an MQTT 3.1.1 broker and client library in C. The TLA+ modules here
model the parts of it in which threads, lost connections and long sequences of
requests meet; TLC checks them on small instances and TLAPS proves the most
important results for every size. Paths and line numbers refer to `src/`.

## 1. The system

The broker runs one *logic thread* (the executor), several *IO threads* (an
epoll loop each) and a *thread pool* for databases. They communicate by
messages (README.md: "无共享内存", no shared memory): IO threads post tasks of
two priorities to the executor; the logic thread and the thread pool push mails
into the mailboxes of the IO contexts.

| Component | State | Operations | Hard behaviours | What makes it correct |
|---|---|---|---|---|
| Executor, `mqtt/mqtt_executor.c` | per priority `main_buf`, `aux_buf`, `break_point`; `task_total`, `preempt`, `executing_pri` | post, take a batch, preempt and hand back, resume, stop | posts of several threads during a batch, unlocked read of `preempt`, signal after unlock | FIFO per priority, no task lost or run twice, no lost wake-up |
| Message store, `store/mqtt_msg_store.c` | sending queue, `pending_pointer`, `inflight_packets` | store, acknowledge, resend | window full, PUBREL behind pending packets | shape of the queue; no loss |
| MongoDB store, same file, `db/mqtt_db.c` | the above, a buffer, flags for tasks under way | store and fetch in the thread pool, their receipts | results that arrive late or fail | order and no loss |
| Session, `mqtt/mqtt_session.c` | `state`, `conn`, `next_packet_id`, `qos2_packet_ids`, subscriptions, will | QoS 0/1/2 flows, close, resume | connections lost between two packets of a flow, wrap of ids | at most once / exactly once, order |
| Broker, `mqtt/mqtt_broker.c` | `sessions`, topic tree | start, take over, resume and close sessions; subscribe; publish; broadcast; validate passwords | the client is gone before its session has started | a session ends once; the will; no dangling pointer |
| IO context, `mqtt/mqtt_io_context.c` | `tcp_conns`, five mailboxes | accept, answer CONNECT, send, broadcast, keep-alive | values sampled in one thread and used in another | see session and broker |
| TCP connection, `net/mqtt_tcp_conn.c` | `state`, output buffer, `ref_cnt`, handlers | handshake, read, write, shut down, close | references held by several threads, partial writes | counts equal holders; output complete and in order |
| Event loop, `ev/mqtt_event.c`, mailboxes | handlers, the active and the removed ones of a round, mails, a wakeup pipe | register, unregister, dispatch, push, notify | a callback unregisters what the round still lists; a push while the mailbox is swapped out | no use after free, no stranded mail |
| Timers, `ev/mqtt_timer.c` | heap, timerfd, expired timers | add, cancel, resume, expire | cancel inside a callback | every timer in the heap once, the timerfd armed in time |
| Topic tree, `mqtt/mqtt_topic.c` | nodes, subscribers, retained messages, listeners, routes | subscribe, unsubscribe with pruning, match, retain | order of subscribing and unsubscribing at nodes that share a path | matching as defined, no useless node |
| Codecs, `codec/`, buffer, `net/mqtt_buffer.c` | parsing context per connection, chunks | encode, parse | packets split anywhere, chunks that are realigned | packets are handed on as sent, none is stuck |
| Client, `mqtt/mqtt_client.c`, connector | session, queue of asynchronous operations | connect, retry, publish, subscribe | reconnect with unacknowledged packets | resend |
| Access control, `mqtt/mqtt_acl.c` | rules per filter, a read-write lock | load, merge, authorise | rules that are merged or contradict each other; early returns with the lock held | every decision is backed by a row |
| Thread pool, `thrdpool/` | two-list queue, workers | schedule, take, increase, destroy | a worker waits with the get mutex held; destruction joins a chain of threads | FIFO, destruction ends |
| MySQL pool, `db/mqtt_conn_pool.c` | idle and used connections | pop, push | waiting threads | exclusive use |
| Cluster, discovery, `cluster/` | members, route tables, a lock in Redis | join, leave, synchronise routes | members that come and go, a lock that expires | routes agree with subscriptions |
| Rule engine, `rule_engine/` | listeners per source and topic | parse and add a rule, publish an event | precedence and grouping of filters | one call per rule that applies |
| Containers, packets, configuration, console, adaptors, tools | | | sequential | not modelled |

`PROJECT.json` lists every component with its status, the hazards of the code at
their lines, and the lines each definition models.

## 2. The modules

### Executor, TaskQueues
`Executor` has a variable for every field of `tmq_executor_t` that
`thread_routine_` and `tmq_executor_post` use, the thread's locals `tasks` and
`t`, and three histories (`num_posted`, `posted`, `executed`). Critical sections
contain nothing that blocks, so one critical section is one action: `Post`,
`Wait`, `Take`, `Save`. What happens outside the lock is separate: `Signal`
(after the unlock), `CheckPreempt` (the atomic read of `preempt`), `Exec`,
`EndBatch`. `SpuriousWakeup` is what POSIX allows. `TaskQueues` is the abstract
specification: one FIFO queue per priority. `ImplementsTaskQueues` maps a queue
to `Outstanding(p)`: the rest of the batch in hand, the interrupted batch from
its break point on, then `main_buf`.

### MemoryStore, Delivery
`MemoryStore` holds the operators of the in-memory store on a record of queue,
pending pointer (an index, 0 for NULL) and number of packets in flight.
`Delivery` is the broker's persistent session sending to a subscriber that is
this repository's client: `Broadcast` (logic thread, samples
`is_session_closed`) and `HandleBroadcast` (IO thread, uses it) are two actions;
`CloseSession`, `ResumeSession`, `ConnectComplete` bring a lost connection back;
`ReceiveAck`, `PeerReceivesPublish`, `PeerReceivesPubrel` are the QoS flows. A
connection is FIFO in both directions and `Drop` loses all that is under way.
Messages are numbered; packet ids are `0 .. IdSpace-1` and wrap as the code's
do, in use or not. `FreeIdSpec` has the executions in which an id is given out
again only after the exchange that used it has ended. The QoS of a message is already the smaller of the message's and the
subscription's.

### Sessions
Connections, session objects (named after the connection they began on), the
broker's map, the executor's queue of priority 1 as a FIFO (that it is one is
what `Executor` shows), the thread pool's validations, and the mailboxes. Every
IO handler and every request handler is one action. Reference counts are the
code's numbers: `RefsExact` compares them with the holders in the state.
Assumptions: every connection is on its own IO context (the least ordered case);
a client sends one CONNECT per connection and waits for the CONNACK before other
packets than DISCONNECT; there is one topic filter, and each subscriber is in
the tree or not. Memory reused after a premature release is not modelled: the
counting goes on. A close request without a session ends the logic thread
(`HandleRequest` is then disabled), as the NULL dereference does.

### TopicTree
A node is the path that leads to it, a tree a set of paths. `Subscribe`,
`Unsubscribe` with `try_remove_topic`, `Register` (listeners and routes) and
`PublishRetained` are the actions; `Matched` (the walk of `match`) and
`FoundRetained` (`find_retain_messages`) are operators compared in every state
with `Matches`, what the filters mean. A filter or topic is a sequence of
levels (strings), as the code splits it at `/`. The actions take any levels, as
the code does: nothing in the broker checks that `#` comes last or that a topic
has no wildcards. What matching means is defined for names that keep to it
(`WellFormedNames`); the properties are about them. The QoS of subscriptions and the
tunnelled flag are left out, and so is the call that unsubscribes at a node
without subscribers, which dereferences NULL (`mqtt_topic.c:272`).

### Buffer, Codec
`Buffer` holds the operators of `tmq_buffer_t`: a list of chunks with a read
index each, appending with realignment, reading from a descriptor, removing.
`Codec` is the receiving side of a connection: `Send` encodes a packet as
`send_*_packet` do, `Read` takes any number of the bytes under way into
`in_buffer`, and the decoder's steps (`ParseFixedHeader`, `ParseRemainLength`,
`NeedMoreData`, `ParsePacket`; `ParseHeader`, `ParseMessage` of the codec with a
fixed header) work on it. One record stands for a packet of any type. `Half` is
128 in the code and 4 in the run, so that remaining lengths of two bytes happen
with short packets; chunks and reads are scaled down alike. The sender is this
repository's, or one that encodes in the same way; a packet it cannot send, one
whose length needs more than four bytes, is not sent, and a PUBLISH whose
remaining length has no room for its packet id is refused as
`BAD_PACKET_FORMAT`.

### IoLoop
One IO thread. A connection is of a kind (`Kinds`: plain, TLS, or a console's
`AF_LOCAL` one, which gets no close callback) and a record with its state, its registered handlers
(newest first), the number of handlers removed in this round, its count and its
output buffer. A round takes the events of `epoll_wait` (`reported`), works the
handlers off one by one (`active`) and releases what removed handlers were tied
to at its end. Mails are pushed under a lock and notified afterwards (`owed`,
`pipe`); the IO thread empties the pipe first and swaps the vector then
(`swapping`). `Accept`, the packets pushed by other threads, keep-alive, TLS
handshakes, shut-downs and a peer that closes or resets at any time are actions.
The bytes written are numbered, so that a gap or a swap would show.

### Timer
The heap with `Swim` and `Sink`, the timerfd, and `timer_heap_timeout` as three
actions: the expired timers are taken off the heap (`Timeout`), their callbacks
run one by one (`Call`) and may add, cancel and resume timers, and those that
repeat are put back (`Requeue`). The heap has the memory the code gives it: a
block for `TIMER_HEAP_INITIAL_SIZE` pointers and a byte, whose first pointer is
not used, and whose `realloc` is told a number of pointers where bytes are
meant. The timer that makes them `TIMER_HEAP_INITIAL_SIZE` (the sixteenth) is
written beyond it (`overrun`). What happens then is undefined: a behaviour ends
there, and what is claimed is claimed up to there.

### MongoStore
The store of a session with a database, on the record of `MemoryStore` with a
buffer, `total_size` and the flags for tasks under way. A task of the thread
pool (`StoreTask`, `FetchTask`) and its receipt are separate actions; MongoDB is
a sequence of documents whose inserts and queries may fail. A fetched batch that
replaces packets still queued, and messages of a failed insert, are recorded in
`lost`: the code drops them (see the hazards), and the properties are about the
other executions.

### ThreadPool
The queue of two lists under two mutexes, the workers, `thrdpool_increase` and
`thrdpool_destroy` with its chain of joins. A step is what happens under one
lock. Its specification is `PoolSpec`, so that `MCProgress` can extend it together
with `Delivery`, and `Threads_proofs` together with `IoLoop`.

### Acl, RuleEngine
`Acl` loads a table row by row: merging of rules as `add_rule` does it, `Match`
and `Auth` as operators. A table that says the opposite of two rules for one
target is loaded too, but nothing is claimed of it: `add_rule` then compares
with the wrong rule or dereferences NULL (`crashed`). The lock is left out, for
nobody writes after start-up; with it, the early return that keeps the read lock
(`mqtt_acl.c:153-154`).
`RuleEngine` parses tokenised rules with the two stacks of
`parse_filter_expression`, keeps the listeners by source and topic, and turns an
event into calls of adaptors: which adaptor, with which parameters and values.
`&&` and `||` are of equal priority, as in the code. A filter passes when
`.boolean` of its result is set, whatever the type of the result: the low byte
of an integer, and anything for a string or for a payload field that is missing
(`Boolean` is a set). What a rule should do is defined apart from that, by the
tree its author means (`Meaning`, `IsFor`), and says nothing of filters whose
value is no Boolean. The code registers the source `topic` with the type of `device`
(`mqtt_event_source.c:17`), so that such a rule is called for the events of devices
and reads their data; the model follows it, and the property leaves the rules for
`topic` out.

### Cluster
Brokers, each with its discovery thread, main IO thread and logic thread; Redis
with the lock and the registration events is external. A broker may crash at any
point and start again with a new `life`, the lock may expire while it is held,
connecting may fail, and so may each exchange with Redis (`RedisFails`):
`tmq_cluster_init` ignores the errors, so a broker then registers without the
lock, is not announced, or is `deaf` to the others. Nothing removes a member whose connection has ended,
as in the code. `disturbed` records the faults after which brokers may stay
apart; what is claimed of routes is claimed without it, what is claimed of
memory safety (`RouteHasMember`) always. The route table keeps a pointer to the
node it entered last (`newest`), which pruning frees without telling it; the next
`route_table_add_item` writes there (`mqtt_cluster.c:30`). `corrupted` records
that, and nothing is claimed from then on. `late` and `pruned` name the two cases
in which the code leaves a route out of the topic tree: of the routes sent at
first contact only the first is entered (`handle_cluster_route_operation`), and
pruning drops it (see 5).

### MC modules
`MCDelivery`, `MCSessions`, `MCTopicTree`, `MCIoLoop` give the constants their values.
`MCProgress` (executor, delivery, thread pool), `MCMessages` (delivery, topic
tree) and `MCComponents` check several parts that do not share state in one run
each: `part` is chosen in the initial state, the variables of the other parts keep their initial values, and the properties are those of the
parts under the same names. The state space is the disjoint union of the parts'
state spaces. Definitions named `Mutant` in the comments are plausible faults:
each property is known to fail when one of them replaces the definition below it.

### Proofs
A module `X_proofs` extends `X` and holds its inductive invariant, lemmas and
theorems (section 4). `Threads_proofs` extends `ThreadPool` and `IoLoop`.

## 3. The runs

| Run | Bounds | Shows |
|---|---|---|
| `progress`: executor | 2 threads, 2 priorities (the broker's), 5 tasks | FIFO without loss, exact `task_total`, no lost wake-up, priorities, every task runs, refinement of `TaskQueues`. Five tasks are enough for a batch of two to be interrupted, more to be posted behind it, and a resumed batch to be interrupted again. |
| `progress`: delivery | window 1 (the default), QoS 1-2, 4 ids, 3 messages, 2 drops | first copies arrive in order; all arrive once the connection stays up, provided no broadcast is stale. |
| `progress`: pool | 3 workers, 3 tasks, destruction at any time | tasks start in order, destruction ends. |
| `messages`: delivery | window 2, QoS 0-2, 3 ids, 4 messages, 2 drops; `FreeIdSpec` | shape of the queue, at most once, only redeliveries discarded, no loss, no orphaned id. Four messages overfill the window twice; with fewer ids than messages, ids are used again while earlier exchanges are still open; a QoS 2 flow can be cut at each of its steps, and again on the next connection. |
| `messages`: topic tree | 9 filters, 5 topics, 2 clients, 3 subscriptions, 1 retained topic, 1 listener | matching and retained messages as defined, no useless node. The filters share prefixes of up to three levels with both wildcards in every position. |
| `delivery_stale` (violation) | window 1, 2 messages, 1 drop | without the proviso of `progress` they do not all arrive: see 5. |
| `delivery_ids` (violation) | window 2, 2 ids, 3 messages of QoS 2 | with as many packets outstanding as there are ids, a new message is discarded: see 5. |
| `sessions` | 3 connections, 1 client id, both kinds of session, password file | sessions end exactly once and in the right way. Three connections: one in the session, one that comes back, one refused meanwhile. |
| `sessions_live` | 2 connections, 2 client ids, MySQL, 1 message | exact reference counts, every CONNECT answered, lost sessions closed. The subscriber's session is clean and the other's persistent, which keeps out the two known faults of the counting (5 and hazard `mqtt_io_context.c:184`). |
| `sessions_takeover`, `sessions_null_close` (violations) | 2 connections, 1 client id | see 5. |
| `topic_rules` (violation) | 2 filters | see 5. |
| `components`: codec | each of the three codecs, the broker's with and without TLS; packets of every shape and one too long to send, 2 sent, `Half` 4, chunks from 4 bytes, reads up to 5 | packets are handed on as sent and none is stuck. Every packet can be split at every byte; bodies cross chunks, and lengths need one or two bytes. |
| `components`: timer | 5 timers, a heap of initial size 5, timeouts 1 and 3, of which those of 1 repeat, one timer cancelled and resumed | timers are in the heap once, the timerfd is armed in time. Four timers make a heap of three levels; the fifth overruns the memory, as the sixteenth does in the code, and ends the execution. |
| `components`: MongoDB | window 2, trigger 4, fetches of 2, 7 messages, 1 fault | order and no loss between memory and database, nothing waits forever. Seven messages fill queue and buffer, are stored twice and fetched while others arrive. |
| `components`: access | tables of up to 3 of 26 rows, 2 users, 3 topics | every decision is backed by a row. |
| `components`: rules | up to 2 of 39 rules, 13 events | one call per rule that applies. Filters have up to three terms with every grouping. |
| `components`: cluster | 2 brokers, 2 filters, 1 fault, 1 message | routes spread, a message is tunnelled once, a route has its member. One fault is a crash at any point, an expired lock or an error of Redis at any step of start-up or after it. |
| `io_loop` | 1 connection, plain, TLS or of a console, 2 mails, 1 answer, 1 keep-alive tick | a connection outlives its use and, but for the two cases of `GoneConnsFreed`, is freed, output is exact, no mail is stranded. The interleavings are those of a round with its own handlers, which one connection has several of. |
| `connection_leak` (violation) | 1 console | see 5. |

Deadlock is not checked: with all messages sent, or all connections used, the
system may rest. That nothing rests too early is what the liveness properties
say.

**Fairness.** Weak fairness of the threads only: the operating system schedules
the logic thread, IO threads and pool threads; a connection that stays up
carries its packets. Nothing obliges a client to connect, publish or reconnect,
and nothing keeps a connection up: properties about delivery say "once it stays
up". In `io_loop`, the IO thread, a pusher between its unlock and its notify, the
closing of a session its connection's end has asked for, in the thread pool the workers, a
scheduler between its unlock and its signal, and a destruction once begun go on;
nothing obliges anybody to schedule, push, create workers or destroy.
`EveryConnectAnswered` and `LostSessionsClose` exclude executions in which
a NULL session stops the logic thread (5).

**Bounds.** `MaxPosts`, `MaxMsgs`, `MaxDrops`, `MaxPackets`, `MaxPublishes`,
`MaxSubs`, `MaxRetained`, `MaxRegistered`, `MaxBytes`, `MaxMails`, `MaxTicks`,
`MaxTasks`, `MaxTime`, `Repeatable`, `Published`, `MaxMessages`, `MaxFaults`, `MaxTunnelled`,
`MaxClusterFaults`, `MaxRows`, `MaxRules` bound what the environment does;
`IdSpace` stands for 65536; `ChunkMin`, `MaxRead`, `Half`, `trigger` and `Limit`
are constants of the code, scaled down. `Conns` bounds connections: each is used
once.

## 4. The proofs

Each theorem holds for every value of the constants that satisfies the named
assumptions of its module; the runs give the constants small values. Every
inductive invariant was first an invariant of a TLC run.

**Executor** (`Executor_proofs`; any number of posting threads, priorities and
tasks; from `PriAssumption` and `PostsAssumption`, which only say that the two
numbers are natural):

* `Invariance`: the inductive invariant `IInv` is the type invariant with
  `BatchInv` (in the loop, `executing_pri` is a priority whose `aux_buf` is
  empty, so `Save` overwrites nothing), `AuxInv` (an interrupted batch has its
  break point inside it), `PreemptInv` (`preempt` is set whenever a priority
  above the executing one has work) and `NoLostWakeup`. None of these is
  inductive without the others: `Save` needs the empty `aux_buf`, which `Take`
  establishes and only preemption, guarded by `BatchInv`, undoes.
* `TypeCorrect`, `WakeupsNotLost` and `Priorities` follow from it.
* `Fifo` and `Refinement` follow the sequence `Outstanding(p)`: a post appends to
  it, running a task takes its head, and taking, interrupting, resuming and
  finishing batches leave it as it is (lemmas `PostOutstanding`,
  `ExecOutstanding`, `TakeOutstanding`, `SaveOutstanding`,
  `EndBatchOutstanding`, `IdleOutstanding`).
* `TotalExact`: `task_total` is the number of places `<<p, i>>` that hold a
  waiting task. Every step adds or removes the places of one buffer, so the
  sum over the priorities becomes the cardinality of a set.

**Delivery** (`Delivery_proofs`; any window from 1 to 255, id space, number of
messages and connections; from `WindowAssumption` and `DeliveryAssumption`):
`Window` shows `TypeOK` and `WindowInv` together, from lemmas on the store's
operators (`StoreMessageWellFormed`, `ShiftWellFormed`, `AcknowledgeWellFormed`).

**QoS delivery** (`Delivery_proofs`, second part): `QosInvariance`, and from it
`NoMessageLost`, `HandedOnAtMostOnce`, `OnlyRedeliveriesDiscarded`,
`NoIdForgotten` and, for the default window of 1, `FirstCopiesArriveInOrder`.

* They are theorems of `FreeIdSpec`: the id that is given out is not the id of a
  packet still queued. The code does not check that when the ids wrap around, and
  without it an acknowledgement may remove the wrong message, and a new message
  may be taken for a redelivery (`delivery_ids`). `IdsSuffice` shows that every
  behaviour is one of these when there are fewer messages than ids (`EnoughIds`;
  65536 in the code).
* The properties say nothing of packets on the wire, and `QosInv` must: for each
  packet in the window at most one packet or acknowledgement of its id is under
  way, and an acknowledgement finds the packet it is about (`FlightInv`). With it
  go what the peer has handed on and remembers for the packets of the queue
  (`PeerInv`, `NoOrphanIds`), that ids in the queue differ and messages are in
  order (`QueueInv`), that a message of QoS 0 is sent once (`Qos0Inv`), and that
  broadcasts waiting for the IO thread are the latest messages (`TaskInv`).

**Sessions** (`Sessions_proofs`; any number of connections and clients, every
way of authenticating; from `SessionsAssumption`): `EveryOpenSessionEndsOnce`,
`WillOnlyWithoutDisconnect`, `SessionsOutliveTheirUse`, `AssertionHolds`,
`SubscriptionsCurrent`, `TypeCorrect`. The idea behind `IInv`: what ends a
session comes from its own connection; a connection sends one CONNECT, so
between the CONNECT and its answer there is one place at which the session can
be (`PendingInv`, `ResponseInv`); from then on either the connection is in it or
one close is queued (`CloseInv`, `EndInv`). The executor is FIFO, so
SUBSCRIBEs come before the close of their session (`TopicInv`), and a session in
the map or in a broadcast is counted (`MapInv`, `RefInv`).

**Thread pool** (`Threads_proofs`; any finite set of workers; from
`WorkersAssumption`): `TasksInOrder` and `NoThreadAfterDestroy` (`AllJoined`: when
`thrdpool_destroy` returns, all threads have exited, although it joins only one
of them). `PoolInv` says who holds `get_mutex` and that the list to take from is
empty all the while (`MutexInv`), that `nthreads` counts the threads that have
not left (`CountInv`), and that the joins lead from `tid` to every thread that
has (`ChainInv`): joining the last one is joining all of them.

**IO thread** (`Threads_proofs`; any set of connections, chunk size and number of
bytes; from `ConnsAssumption` and `BufferAssumption`): `NoMailStranded`,
`ConnectionsOutliveUse` and `OutputInOrder`. The count of a connection is
compared with its holders at every step, a removed handler counting as a holder
until the end of its round (`RefInv`); a connection in the list of the round has
a handler, registered or removed in this round (`ListInv`, `EntryInv`), and waits
in one mailbox at most once (`PendInv`). That a callback may close the connection
whose next handler is already listed is why the removed ones must be counted.

`OutputInOrder` is the theorem of `OutputExact`. `OutputInv` says of each
connection that what the kernel got, followed by the contents of the output
buffer, are the numbers 1 up to the bytes written (`DataOK`), and that the write
handler is registered, once, exactly while `is_writing` is set and something is
buffered, and that nothing is written or held back before the handshake has
ended (`WriterOK`): a direct write past a filled buffer would otherwise overtake
it. The lemmas on `Buffer` under it: appending puts the bytes behind what the
chunks hold, whether they fit the last chunk or not (`ChunkGrows`,
`LastReplaced`); removing drops exactly what peeking returned (`RemoveOK`). The
contents of the chunks are a recursion, unfolded by induction over a *set* of
numbers (`LeastIn`, `NatInductive`), which needs no operator as a parameter.

**Timers** (`Timer_proofs`; any timeouts and time): `TimersArmedInvariance`,
the theorem of `TimersArmed`, under `TimerAssumption` (times and the initial size
are natural numbers): it holds as long as the heap has not been written beyond
its memory. `HeapSuffices`: with fewer timers than `TIMER_HEAP_INITIAL_SIZE`
(16 in the code) it never is; so for these the timers are armed without proviso. `timer_swim` and `timer_sink` are both shifts along a way of
places (`IsShift`): one lemma shows what a shift leaves in the heap
(`ShiftFacts`), `SwimOK` and `SinkOK` that the order is restored. From them come
`InsertOK`, `PopOK`, and by induction over the turns of the two loops of
`timer_heap_timeout` `PopExpiredOK` and `PutBackOK`. `TimerInv`: the registered
timers are shared out between the heap and `expired_timers`, each once
(`PlaceInv`); outside the handler the timerfd is armed for the top of the heap
(`ArmedInv`), which expires first (`TopLeast`). While callbacks run the timerfd may
be disarmed, and timers added then arm it only when they are at the top; that
`Requeue` arms it again for whoever is at the top is what restores `ArmedInv`.

**Topic tree** (`TopicTree_proofs`; any clients and messages, any filters and
topics that satisfy `WellFormedNames`, a hypothesis the first two theorems state;
from `TopicTreeAssumption`): `BroadcastExact`, `RetainedMessagesExact` and
`NoNodeLeftOver`. `TreeInv` says that nodes hang together and are useful (`Hangs`,
`Useful`) and that each subscription in force and each retained message is at
the node of its path (`SubsHeld`, `RetainHeld`); the walks over the tree are then
compared with `Matches` by induction on the level, as the least level at which
they could differ (`Least`, `SameWalk`).

**MongoDB store** (`MongoStore_proofs`; any window from 1 to 255, trigger, fetch
limit and number of messages; from `WindowAssumption` and `MongoAssumption`):
`MongoInvariance`, and from it `MongoStoresInOrder` and, for a trigger of at
least two, `MongoNothingWaits`. A message is in one of six places: sent, queued,
fetched, in the database, on its way there, buffered. `InOrder` says that these
hold the numbers 1, 2, ... in turn. An operation moves packets from one place to
another, and order is kept only because the places between are empty; that is
what the flags mean (`FlagOK`, `JobOK`): without `BUFFERED` nothing is behind
the queue, without `STORED` nothing is in the database or on its way there.
`DueOK` (the acknowledgements due are those of the packets in flight) makes an
acknowledgement remove the first packet of the queue, `Sized` makes
`total_size == buffer size` mean that the queue is empty, and `RestOK` says that
an empty queue has a task under way, or a note in `NEED_FETCH`, that will fill it.
The hypothesis on the trigger is needed: with 0 or 1, which
`mqtt_broker.c:784` accepts, `trigger / 2` is 0, no message enters the queue,
and with no acknowledgement to come nothing is ever fetched.

**Cluster** (`Cluster_proofs`; any brokers, filters, messages and faults,
under `ClusterAssumption`: no broker has the name that stands for a free lock):
`RouteHasMemberInvariance`, `ClusterInvariance`, and from it
`TunnelledOnceInvariance` and `RoutesSpreadInvariance`.

* `RouteHasMember` holds under every fault that is modelled, until a freed node
  is written to. `MemberInv`: the task that adds a
  connection to the members is posted before anything is read from it, and the
  executor is FIFO, so a route or message of it is handled after it.
* The other two are about undisturbed executions. `LinkInv`: the lock puts
  registrations in an order, so that of two brokers exactly one connects to the
  other (`OneWay`, `Meeting`); no older connection replaces the one in use
  (`AgeInv`). `SpreadInv` follows a route from the subscription to the other
  brokers: a current member has been told the routes, or they are under way to
  it (`ToldInv`, `FirstInv`, `LateInv`). `OnceInv`: a message
  comes to a broker on one connection and once.

Only model-checked:

* Liveness (`EveryTaskRuns`, `AllArriveUnlessStale`, `EveryConnectAnswered`,
  `LostSessionsClose`, `GoneConnsFreed`, `DestroyReturns`): TLAPS does not reach
  fairness.
* `RefsExact` of `Sessions`: it does not hold in general, for the code has two
  faults of counting (5 and hazard `mqtt_io_context.c:184`); the run keeps them
  out by its choice of clients.
* `HandedAsSent` and `NothingStuck` of `Codec`, `DecisionsBacked` of `Acl`,
  `CallsAsRules` of `RuleEngine`. They compare folds and recursions over packets,
  rules and filters with a reference definition: induction over data with an
  operator as a parameter, which the provers do not do. `RuleEngine` is recursive
  in its filters and stays so.

## 5. Where the code disagrees with its comments

* `delivery_stale`: a message is broadcast while the session is closed; the
  session is resumed and its queue resent; the message is then stored in the
  window and sent by nobody (`mqtt_io_context.c:187`). With a window of 1
  nothing more arrives until the next reconnect.
* `delivery_ids`: `next_packet_id` counts on past 65535 to ids that are in use
  (`mqtt_session.c:277-278`); the peer tells a redelivery by its id
  ("check if it is a redelivery", line 183) and discards a message it has never
  seen.
* `connection_leak`: the callback "called when closing a tcp connection" takes a
  connection out of `tcp_conns`; the connections of consoles are given none
  (`mqtt_io_context.c:93-109`) and are never freed.
* `sessions_takeover`: a clean CONNECT that replaces a closed session releases
  the old connection a second time (`mqtt_broker.c:134`).
* `sessions_null_close`: a refused CONNECT whose connection closes meanwhile
  requests the closing of a NULL session (`mqtt_io_context.c:126`).
* `topic_rules`: pruning a node drops its listeners and routes
  (`mqtt_topic.c:253`).

Other faults contradict no line of the repository, so that no run states one; the
models follow the code, the properties say from where on they claim nothing, and
`PROJECT.json` has the line of each under its hazards: the timer heap beyond
fifteen timers (`overrun`), rules for the source `topic`, tables of rules that contradict
themselves (`crashed`), the freed node in the route table (`corrupted`), what a
Redis error leaves behind (`disturbed`), routes that stay out of the tree
(`late`), and a connection that stays `DISCONNECTING` after its output is flushed,
since `read_cb_` then ignores the end of file.

## 6. Not modelled

* The client library past its first CONNACK: `on_connect_response` passes no IO
  context to `tmq_session_new`, which dereferences it, so nothing after it is
  defined; with it the connector and its retries. The client's session is the
  peer of `Delivery`.
* The MySQL connection pool: `pop` leaves a connection in `idle_conns` and
  returns with the lock held when connecting fails. Two uses overlap by
  construction, and there is nothing to check beyond that.
* `tmq_executor_stop`, the end of an event loop, and the destruction of either:
  the broker calls them only on its way out of the process.
* Two IO contexts at work on one session: `io_context_idx` is set when a session
  is created and not when it is resumed (`mqtt_broker.c:577`), so two threads
  may use the session without a lock; `Sessions` has each handler atomic.
* Retained messages sent on subscribing: `mqtt_broker.c:303` reads the QoS past
  the end of a list, so what is sent is not determined by the code.
* Unsubscribing at a node without subscribers (`mqtt_topic.c:272`, NULL).
* The reader-writer lock of access control, the registry's keep-alive (nothing
  reads it), the console and its replies, delayed messages.
* Adaptors, containers, configuration, packet allocation, tools, start-up,
  logging: pure I/O, sequential data structures or text.

## 7. What is left

The models are complete as far as section 6 allows. Of the invariants that hold
of the code, those of `Codec` and `Acl` have no theorem. A proof would write their
folds as recursive functions, as `Timer` has them for its loops, and follow the
parser by the bytes it has consumed (`Codec`) and the rule lists by the rows
merged into them (`Acl`).
