----------------------------- MODULE MCComponents -----------------------------
(***************************************************************************)
(* The sequential parts of the broker and the cluster, one at a time: part *)
(* says which of them a behaviour is about, and the variables of the       *)
(* others keep their initial values.                                       *)
(***************************************************************************)
EXTENDS MongoStore, Timer, Cluster, TLC

VARIABLES part,
          codec, ssl, tcp, conn_state, parsing_ctx, in_buffer, decoding, codec_wire,
          codec_sent, consumed, handed,
          node, table, crashed,
          listeners, added, event, calls

codecVars == <<codec, ssl, tcp, conn_state, parsing_ctx, in_buffer, decoding, codec_wire,
               codec_sent, consumed, handed>>
aclVars   == <<node, table, crashed>>
ruleVars  == <<listeners, added, event, calls>>

-----------------------------------------------------------------------------
(* The packets of the codecs; Half is 4 there, so a byte is 0 .. 7 unless  *)
(* it is copied as it is.                                                  *)

Pkt(type, flags, id, fields, codes) ==
  [type |-> type, flags |-> flags, id |-> id, fields |-> fields, codes |-> codes]

ServerPkts ==
  {Pkt("CONNECT", 0, 9, <<<<1>>, <<1>>, <<>>, <<2>>, <<3, 4>>>>, <<4, 198>>),
   Pkt("CONNECT", 0, 0, <<<<>>>>, <<4, 0>>),
   Pkt("PUBLISH", 0, 0, <<<<1>>, <<>>>>, <<>>),
   Pkt("PUBLISH", 4, 60, <<<<1>>, <<2, 3>>>>, <<>>),
   Pkt("PUBLISH", 0, 0, <<<<1>>, [i \in 1 .. 4 ^ 4 |-> 1]>>, <<>>),   \* too long
   Pkt("PUBREL", 0, 1, <<>>, <<>>),
   Pkt("SUBSCRIBE", 2, 7, <<<<1>>, <<2, 1>>>>, <<1, 2>>),
   Pkt("SUBSCRIBE", 2, 7, <<<<1>>>>, <<3>>),
   Pkt("UNSUBSCRIBE", 2, 7, <<<<1>>, <<>>>>, <<>>),
   Pkt("PINGREQ", 1, 0, <<>>, <<>>),
   Pkt("DISCONNECT", 0, 0, <<>>, <<>>)}

ClientPkts ==
  {Pkt("CONNACK", 0, 0, <<>>, <<1, 0>>),
   Pkt("PUBACK", 0, 9, <<>>, <<>>),
   Pkt("SUBACK", 0, 9, <<>>, <<1, 128, 2>>),
   Pkt("PINGRESP", 0, 0, <<>>, <<>>),
   Pkt("PINGREQ", 0, 0, <<>>, <<>>)}

LenBasedPkts ==
  {Pkt("CLUSTER_ROUTE_SYNC", 0, 0, <<<<1, 2>>>>, <<>>),
   Pkt("CLUSTER_TUN_PUBLISH", 2, 0, <<<<1>>, <<3>>>>, <<>>),
   Pkt("ADD_USER", 0, 0, <<<<5>>, <<6, 7>>>>, <<>>)}

C == INSTANCE Codec
       WITH sent <- codec_sent, wire <- codec_wire, ChunkMin <- 4, MaxRead <- 5, Half <- 4,
            MaxPackets <- 2,
            Pkts <- [SERVER |-> ServerPkts, CLIENT |-> ClientPkts, LEN_BASED |-> LenBasedPkts]
-----------------------------------------------------------------------------
(* Access control: all rules for one filter, some for two wildcard ones.   *)

AclRow(filter, target, permission, access) ==
  [filter |-> filter, kind |-> target[1], target |-> target[2], permission |-> permission,
   access |-> access]

AclRows ==
  {AclRow(<<"a", "b">>, t, p, a) :
     t \in {<<"username", "u1">>, <<"client_id", "k">>, <<"all", "">>},
     p \in {"allow", "deny"}, a \in {"PUB", "SUB", "PUB_SUB"}}
  \cup {AclRow(f, t, p, "PUB_SUB") :
          f \in {<<"+", "b">>, <<"#">>}, t \in {<<"username", "u1">>, <<"all", "">>},
          p \in {"allow", "deny"}}

A == INSTANCE Acl
       WITH Rows <- AclRows, MaxRows <- 3,
            Sessions <- [username : {"u1", "u2"}, client_id : {"k"}, ip : {"i"}],
            Topics <- {<<"a">>, <<"a", "b">>, <<"c", "b">>}
-----------------------------------------------------------------------------
(* Rules: filters of one to three terms, written with the parentheses they *)
(* need, one select list of each kind, and rules that are refused.         *)

Const(value)     == [expr |-> "const", value |-> value]
Field(name)      == [expr |-> "field", name |-> name]
Payload(name)    == [expr |-> "payload", name |-> name]
Binary(op, l, r) == [expr |-> "binary", op |-> op, left |-> l, right |-> r]
Value(type, v)   == [type |-> type, v |-> v]
NoFilter         == [type |-> "none"]
Op(o)            == <<[operator |-> o]>>

QosIs1 == Binary("==", Field("qos"), Const(Value("INT", 1)))
IsOn   == Payload("on")
Pairs  == {Binary(o, QosIs1, IsOn) : o \in {"&&", "||", "=="}}
Trees  == {QosIs1, IsOn} \cup Pairs
          \cup {Binary(o, t, IsOn) : o \in {"&&", "||", "=="}, t \in Pairs}
          \cup {Binary(o, IsOn, t) : o \in {"&&", "||", "=="}, t \in Pairs}
          \cup {Binary("==", Binary("==", IsOn, IsOn), QosIs1)}
          \cup {Field("qos"), Payload("gone")}

RECURSIVE Written(_)
Written(t) ==
  LET prio(s)      == IF s.expr # "binary" THEN 3 ELSE IF s.op \in {"&&", "||"} THEN 1 ELSE 2
      in(s, close) == IF close THEN Op("(") \o Written(s) \o Op(")") ELSE Written(s) IN
  IF t.expr # "binary" THEN <<t>>
  ELSE in(t.left, prio(t.left) < prio(t)) \o Op(t.op) \o in(t.right, prio(t.right) <= prio(t))

Param(a, p) == [kind |-> "parameter", adaptor |-> a, name |-> p, known |-> TRUE]
Column(n) == [kind |-> "column", name |-> n]
Item(s, t) == [source |-> s, target |-> t]
Plain     == <<Item(Field("client_id"), Param("mysql", "table"))>>

Rule(source, topic, select, tree_, where) ==
  [source |-> source, topic |-> topic, select |-> select, meaning |-> tree_, where |-> where]

EngineRules ==
  {Rule("message", "t", Plain, t, Written(t)) : t \in Trees}
  \cup {LET t == Binary(o, Field("action"), Const(Value("INT", 1)))
        IN Rule("device", "t", Plain, t, Written(t)) : o \in {"<", "<=", ">", ">="}}
  \cup {Rule("message", "t", <<Item(IsOn, Column("on"))>> \o Plain, NoFilter, <<>>),
        Rule("message", "u", Plain \o <<Item(Const(Value("STR", 7)), Param("mysql", "table"))>>,
             NoFilter, <<>>),
        Rule("message", "u", Plain \o <<Item(Field("qos"), Param("rabbitmq", "exchange"))>>,
             NoFilter, <<>>),
        Rule("topic", "", <<Item(Field("topic"), Param("mysql", "table"))>>, NoFilter, <<>>),
        \* The next ones are refused.
        Rule("topic", "", <<Item(IsOn, Param("mysql", "table"))>>, NoFilter, <<>>),
        Rule("message", "t", <<Item(Field("client_id"), Column("c"))>>, NoFilter, <<>>),
        Rule("message", "t", Plain, NoFilter, <<Field("qos"), Field("retain")>>),
        Rule("message", "t", Plain, NoFilter, <<Field("qos")>> \o Op("=") \o <<Field("retain")>>),
        Rule("device", "", Plain, NoFilter, <<IsOn>>)}

EngineEvents ==
  {[source |-> "message", topic |-> t, json |-> j,
    data |-> [client_id |-> Value("STR", 1), username |-> Value("NULL", 0),
              qos |-> Value("INT", q), retain |-> Value("INT", 0),
              payload |-> IF j THEN [x \in {"on"} |-> Value("BOOL", b)] ELSE <<>>]] :
     t \in {"t", "u"}, j \in BOOLEAN, q \in {0, 1}, b \in {0, 1}}
  \cup {[source |-> "device", topic |-> "", json |-> FALSE,
         data |-> [action |-> Value("INT", 0), client_id |-> Value("STR", 2),
                   username |-> Value("NULL", 0)]]}

R == INSTANCE RuleEngine
       WITH Rules <- EngineRules, Events <- EngineEvents, MaxRules <- 2
-----------------------------------------------------------------------------
(* Two brokers; the clients of the first subscribe to two filters, those   *)
(* of the second to one and unsubscribe again.  A message is published to  *)
(* a filter that both want, or to the one that only the other wants.       *)

ClientsWant == [n1 |-> {"f1", "f2"}, n2 |-> {"f1"}]
ClientsPublish == [n1 |-> {"f1"}, n2 |-> {"f2"}]
SubsInLife  == [n1 |-> 2, n2 |-> 1]
-----------------------------------------------------------------------------
OneCodec == codec = "SERVER" /\ ~ ssl

PartsInit ==
  /\ part \in {"mongo", "codec", "timer", "acl", "rules", "cluster"}
  /\ Init /\ C!Init /\ TimerInit /\ A!Init /\ R!Init /\ ClusterInit
  /\ part # "codec" => OneCodec

PartsNext ==
  \/ /\ part = "mongo" /\ Next
     /\ UNCHANGED <<part, codecVars, timerVars, aclVars, ruleVars, clusterVars>>
  \/ /\ part = "codec" /\ C!Next
     /\ UNCHANGED <<part, mongoVars, timerVars, aclVars, ruleVars, clusterVars>>
  \/ /\ part = "timer" /\ TimerNext
     /\ UNCHANGED <<part, mongoVars, codecVars, aclVars, ruleVars, clusterVars>>
  \/ /\ part = "acl" /\ A!Next
     /\ UNCHANGED <<part, mongoVars, codecVars, timerVars, ruleVars, clusterVars>>
  \/ /\ part = "rules" /\ R!Next
     /\ UNCHANGED <<part, mongoVars, codecVars, timerVars, aclVars, clusterVars>>
  \/ /\ part = "cluster" /\ ClusterNext
     /\ UNCHANGED <<part, mongoVars, codecVars, timerVars, aclVars, ruleVars>>

PartsSpec ==
  PartsInit /\ [][PartsNext]_<<part, mongoVars, codecVars, timerVars, aclVars, ruleVars,
                               clusterVars>>
-----------------------------------------------------------------------------
(* The properties of the parts that are instantiated, by the names they    *)
(* have there; those of the others are theirs as they stand.               *)

\* Codec: the packets handed on are those sent, in their order
\* (decode_tcp_message_, codec/mqtt_proto_codec.c:399-452, mqtt_codec.c:17-40).
HandedAsSent == part = "codec" => C!HandedAsSent

\* Codec: all packets that have arrived are handed on before the decoder returns
\* (codec/mqtt_proto_codec.c:451).
NothingStuck == part = "codec" => C!NothingStuck

\* Acl: a decision is backed by a row of the table (add_rule, match, tmq_acl_auth).
DecisionsBacked == part = "acl" => A!DecisionsBacked

\* RuleEngine: an event leads to one call for each rule that applies to it
\* (parse_filter_expression, tmq_listener_publish_event).
CallsAsRules == part = "rules" => R!CallsAsRules
===============================================================================
