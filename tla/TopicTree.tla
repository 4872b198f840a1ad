----------------------------- MODULE TopicTree -----------------------------
(***************************************************************************)
(* The topic tree: mqtt/mqtt_topic.c.  Owned by the logic thread.          *)
(*                                                                         *)
(* A topic or filter is the sequence of its levels (tmq_topic_split), and  *)
(* a node of the tree is named by the path that leads to it, the root by   *)
(* <<>>.  A node's map of subscribers is NULL exactly when it is empty.    *)
(***************************************************************************)
EXTENDS Integers, Sequences, FiniteSets

CONSTANTS Filters,       \* topic filters, sequences of levels
          Topics,        \* topics, sequences of levels
          Clients,       \* client ids
          Messages,      \* payloads of retained messages
          None,          \* NULL
          Listeners,     \* event listeners of the rule engine
          Members,       \* other members of the cluster
          MaxSubs,       \* bound on the subscriptions at a time
          MaxRetained,   \* bound on the topics with a retained message
          MaxRegistered  \* bound on the listeners and routes registered

Wildcards == {"+", "#"}

ASSUME TopicTreeAssumption ==
  /\ Filters \cup Topics \subseteq Seq(STRING)
  /\ <<>> \notin Filters \cup Topics
  /\ None \notin Messages

\* What MQTT asks of clients: "#" is the last level of a filter, and topics have no
\* wildcards.  Nothing in the broker checks it: a client that breaks it is served by
\* the same code, but what it gets is not what matching means, and what is said
\* below is said of names that keep to it.
WellFormedNames ==
  /\ \A f \in Filters : \A i \in 1 .. Len(f) - 1 : f[i] # "#"
  /\ \A t \in Topics : \A i \in 1 .. Len(t) : t[i] \notin Wildcards

VARIABLES
  nodes,        \* the nodes, by path
  subscribers,  \* node->subscribers, as the set of client ids
  retain,       \* node->retain_message
  registered,   \* node->listeners and node->subscribe_members
  subscribed,   \* history: subscriptions in force, as filter and client id
  retained      \* history: the last message published with retain, per topic

nodeVars == <<nodes, subscribers, retain, registered>>
treeVars == <<nodeVars, subscribed, retained>>

\* The nodes on the way to path f, the root left out.
Way(f) == {SubSeq(f, 1, i) : i \in 1 .. Len(f)}

Path == {<<>>} \cup UNION {Way(f) : f \in Filters \cup Topics}

Children(n) == {c \in nodes : Len(c) = Len(n) + 1 /\ SubSeq(c, 1, Len(n)) = n}
Level(n) == n[Len(n)]
-----------------------------------------------------------------------------
\* tmq_topics_init.
TreeInit ==
  /\ nodes = {<<>>}
  /\ subscribers = [n \in Path |-> {}]
  /\ retain = [n \in Path |-> None]
  /\ registered = [n \in Path |-> {}]
  /\ subscribed = {}
  /\ retained = [t \in Topics |-> None]

\* add_topic_or_find with add set, and its use by
\* tmq_topics_add_subscription.
Subscribe(f, k) ==
  /\ Cardinality(subscribed) < MaxSubs
  /\ nodes' = nodes \cup Way(f)
  /\ subscribers' = [subscribers EXCEPT ![f] = @ \cup {k}]
  /\ subscribed' = subscribed \cup {<<f, k>>}
  /\ UNCHANGED <<retain, registered, retained>>

\* tmq_topics_add_listener and tmq_topics_add_route.
Register(f, r) ==
  /\ Cardinality({n \in nodes : registered[n] # {}}) < MaxRegistered
  /\ nodes' = nodes \cup Way(f)
  /\ registered' = [registered EXCEPT ![f] = @ \cup {r}]
  /\ UNCHANGED <<subscribers, retain, subscribed, retained>>
-----------------------------------------------------------------------------
(* Removing a subscription and the nodes it leaves useless. *)

\* Mutants: a node with a retained message goes; a node with children goes.
BareUnlessSubscribed(n, subs, gone) == subs[n] = {} /\ Children(n) \subseteq gone
BareWithChildren(n, subs, gone) == subs[n] = {} /\ retain[n] = None

\* "when a topic has no subscribers, no sub-topics and no retained message, it
\* can be removed": the loop condition of try_remove_topic at n, with the
\* subscribers subs and the nodes of gone removed.
Bare(n, subs, gone) == subs[n] = {} /\ Children(n) \subseteq gone /\ retain[n] = None

\* try_remove_topic from f upwards, until a node is kept or the root reached.
Removed(f, subs) ==
  {n \in Way(f) :
     \A m \in {x \in Way(f) : Len(x) >= Len(n)} :
       Bare(m, subs, {x \in Way(f) : Len(x) > Len(m)})}

\* tmq_topics_remove_subscription.  A filter without a node is only logged.  (A
\* node without subscribers makes the code dereference NULL: that call is left
\* out.)
Unsubscribe(f, k) ==
  /\ f \in nodes
  /\ subscribers[f] # {}
  /\ LET subs == [subscribers EXCEPT ![f] = @ \ {k}]
         gone == Removed(f, subs)
     IN /\ subscribers' = subs
        /\ nodes' = nodes \ gone
        /\ registered' = [n \in Path |-> IF n \in gone THEN {} ELSE registered[n]]
        /\ retain' = [n \in Path |-> IF n \in gone THEN None ELSE retain[n]]
  /\ subscribed' = subscribed \ {<<f, k>>}
  /\ UNCHANGED retained
-----------------------------------------------------------------------------
(* Publishing. *)

\* match: the nodes reached by following the topic's levels or "+".
NextNodes(S, level) ==
  {c \in nodes : \E n \in S : c = Append(n, level) \/ c = Append(n, "+")}

Reached(t) ==
  LET reached[i \in 0 .. Len(t)] ==
        IF i = 0 THEN {<<>>} ELSE NextNodes(reached[i - 1], t[i])
  IN reached

\* The nodes whose subscribers, listeners and members get the message: those at
\* its end, and every "#" beside or below a node on the way.  Mutant: "#" does
\* not include its parent.
HashBelow(n) == {c \in nodes : c = Append(n, "#")}
MatchedBelowOnly(t) ==
  LET reached == Reached(t)
  IN reached[Len(t)] \cup UNION {HashBelow(n) : n \in UNION {reached[i] : i \in 0 .. Len(t) - 1}}
Matched(t) ==
  LET reached == Reached(t)
  IN reached[Len(t)] \cup UNION {HashBelow(n) : n \in UNION {reached[i] : i \in 0 .. Len(t)}}

\* client_on_match: the subscriptions served.
Recipients(t) == UNION {{f} \X subscribers[f] : f \in Matched(t)}

\* tmq_topics_publish of a retained message: match creates the nodes it lacks
\* and keeps the message at the last.  (Without retain the tree stays as it is.)
PublishRetained(t, m) ==
  /\ Cardinality({x \in Topics \ {t} : retained[x] # None}) < MaxRetained
  /\ nodes' = nodes \cup Way(t)
  /\ retain' = [retain EXCEPT ![t] = m]
  /\ retained' = [retained EXCEPT ![t] = m]
  /\ UNCHANGED <<subscribers, registered, subscribed>>
-----------------------------------------------------------------------------
(* The retained messages a new subscription gets. *)

\* get_all_retain: n and what is below it, wildcards left out.
AllBelow(n) ==
  {c \in nodes : /\ Len(c) >= Len(n)
                 /\ SubSeq(c, 1, Len(n)) = n
                 /\ \A i \in Len(n) + 1 .. Len(c) : c[i] \notin Wildcards}

\* The step of find_retain_messages from the nodes S along one level of the
\* filter.
RetainStep(S, level) ==
  CASE level = "+" -> {c \in UNION {Children(n) : n \in S} : Level(c) \notin Wildcards}
    [] level = "#" -> UNION {AllBelow(n) : n \in S}
    [] OTHER       -> {c \in nodes : \E n \in S : c = Append(n, level)}

\* find_retain_messages from the root along the whole filter.  The literal
\* start of the path, which tmq_topics_add_subscription skips, changes nothing.
FoundNodes(f) ==
  LET found[i \in 0 .. Len(f)] ==
        IF i = 0 THEN {<<>>} ELSE RetainStep(found[i - 1], f[i])
  IN found[Len(f)]

FoundRetained(f) == {<<n, retain[n]>> : n \in {x \in FoundNodes(f) : retain[x] # None}}
-----------------------------------------------------------------------------
TreeNext ==
  \/ \E f \in Filters, k \in Clients : Subscribe(f, k) \/ Unsubscribe(f, k)
  \/ \E f \in Filters, r \in Listeners \cup Members : Register(f, r)
  \/ \E t \in Topics, m \in Messages : PublishRetained(t, m)

TreeSpec == TreeInit /\ [][TreeNext]_treeVars
-----------------------------------------------------------------------------
\* Type invariant.
TreeTypeOK ==
  /\ nodes \subseteq Path
  /\ subscribers \in [Path -> SUBSET Clients]
  /\ retain \in [Path -> Messages \cup {None}]
  /\ registered \in [Path -> SUBSET (Listeners \cup Members)]
  /\ subscribed \subseteq Filters \X Clients
  /\ retained \in [Topics -> Messages \cup {None}]

\* What matching means: "+" stands for one level and a final "#" for any number
\* of levels, none included.
Matches(f, t) ==
  LET n == Len(f)
      Agree(i) == f[i] \in {t[i], "+"}
  IN IF f[n] = "#"
     THEN Len(t) >= n - 1 /\ \A i \in 1 .. n - 1 : Agree(i)
     ELSE Len(t) = n /\ \A i \in 1 .. n : Agree(i)

\* A message is broadcast to exactly the subscriptions in force whose filter
\* matches, whatever was added, removed and pruned before
\* (mqtt_topic.c:250-280, 322-388).
RecipientsExact ==
  \A t \in Topics : Recipients(t) = {s \in subscribed : Matches(s[1], t)}

\* A new subscription finds exactly the last retained messages of the topics it
\* matches (mqtt_topic.c:133-179, 213-225).
RetainedExact ==
  \A f \in Filters :
    FoundRetained(f) = {<<t, retained[t]>> :
                          t \in {x \in Topics : retained[x] # None /\ Matches(f, x)}}

\* Every node hangs on the tree, and none is kept without a use: the tree does
\* not grow with what has been unsubscribed (mqtt_topic.c:250-262).
NoUselessNodes ==
  \A n \in nodes \ {<<>>} :
    /\ SubSeq(n, 1, Len(n) - 1) \in nodes
    /\ \/ Children(n) # {}
       \/ subscribers[n] # {} \/ retain[n] # None \/ registered[n] # {}

\* "event listeners that listen this topic", "cluster members that subscribe
\* this topic": a registration is not lost when others unsubscribe
\* (mqtt_topic.h:43-46, mqtt_topic.c:250-262).
RegistrationsKept == [][\A n \in Path : registered[n] \subseteq registered'[n]]_treeVars
=============================================================================
