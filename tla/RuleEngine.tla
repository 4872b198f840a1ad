----------------------------- MODULE RuleEngine -----------------------------
(***************************************************************************)
(* The rule engine (rule_engine/): a rule selects fields of an event into  *)
(* parameters and values of an adaptor, names the source of the events and *)
(* may filter them with an expression, which parse_filter_expression turns *)
(* into a tree with an operand and an operator stack.  All of it runs in   *)
(* the logic thread, a call at a time.                                     *)
(*                                                                         *)
(* Rules arrive as tokens; a value is its type and a number (the rank of a *)
(* string, 0 and 1 for the Booleans).  Of events the broker publishes      *)
(* those of devices and of messages only.  Which topics match a filter is left *)
(* to TopicTree: here rules and messages name the same topic.              *)
(***************************************************************************)
EXTENDS Integers, Sequences, SequencesExt

CONSTANTS Rules,         \* the rules that may be added
          Events,        \* the events that may be published
          MaxRules       \* bound: rules added

VARIABLES listeners,     \* listeners[s]: those of a type of events, or of a topic
          added,         \* history: the rules given that are in order, newest first
          event,         \* history: the event published last, or None
          calls          \* history: the calls of adaptors it led to

ruleVars == <<listeners, added, event, calls>>

None == [type |-> "none"]

INT_VALUE(v)  == [type |-> "INT", v |-> v]
STR_VALUE(v)  == [type |-> "STR", v |-> v]
BOOL_VALUE(b) == [type |-> "BOOL", v |-> IF b THEN 1 ELSE 0]
NULL_VALUE    == [type |-> "NULL", v |-> 0]
NoField       == [type |-> "NULL", v |-> -1]   \* the union is not initialised

\* tmq_const_expr_new, tmq_value_expr_new and tmq_binary_expr_new.
Const(value)     == [expr |-> "const", value |-> value]
Field(name)      == [expr |-> "field", name |-> name]
Payload(name)    == [expr |-> "payload", name |-> name]
Binary(op, l, r) == [expr |-> "binary", op |-> op, left |-> l, right |-> r]

\* The table of tmq_rule_parser_init; && and || are of the same priority.
operators == [o \in {"==", ">", ">=", "<", "<="} |-> 3] @@ [o \in {"&&", "||"} |-> 2]
             @@ [o \in {"(", ")"} |-> 1] @@ ("$end" :> 0)

\* tmq_event_sources_init: "topic" is registered with the type DEVICE.
SourceType(source) == IF source \in {"device", "topic"} THEN "DEVICE" ELSE source
FieldsOf(source) ==
  CASE source = "device"       -> {"action", "client_id", "username"}
    [] source = "topic"        -> {"action", "topic"}
    [] source = "subscription" -> {"action", "client_id", "username", "topic", "sub_qos"}
    [] source = "message"      -> {"client_id", "username", "qos", "retain", "payload"}
    [] OTHER                   -> {}
-----------------------------------------------------------------------------
\* Mutant: operators of the same priority group to the right.
PopsLess(op, top) == operators[op] < operators[top]

\* The loop condition: an operator of the stack is applied before op.
Pops(op, top) == operators[op] <= operators[top]

\* One turn of the loop that applies operators of the stack before op is pushed.
Reduce(p, op) ==
  IF p.over \/ p.ops = <<>> \/ ~Pops(op, Last(p.ops)) THEN [p EXCEPT !.over = TRUE]
  ELSE IF Last(p.ops) = "(" THEN [p EXCEPT !.ops = Front(@), !.over = TRUE]
  ELSE IF Len(p.args) < 2 THEN [p EXCEPT !.crashed = TRUE, !.over = TRUE]
  ELSE LET n == Len(p.args) IN
       [p EXCEPT !.ops = Front(@),
                 !.args = Append(SubSeq(@, 1, n - 2),
                                 Binary(Last(p.ops), p.args[n - 1], p.args[n]))]

Reduced(p, op) ==
  IF op = "(" THEN p ELSE FoldLeft(LAMBDA q, o : Reduce(q, op), [p EXCEPT !.over = FALSE], p.ops)

\* One token of parse_filter_expression: an operator or an operand.
ParseToken(p, token, source) ==
  IF p.failed \/ p.crashed THEN p
  ELSE IF "operator" \in DOMAIN token
  THEN LET op == token.operator IN
       IF op \notin DOMAIN operators THEN [p EXCEPT !.failed = TRUE]
       ELSE LET q == Reduced(p, op) IN
            IF op \in {")", "$end"} THEN q ELSE [q EXCEPT !.ops = Append(@, op)]
  ELSE IF token.expr = "payload" /\ "payload" \notin FieldsOf(source)
  THEN [p EXCEPT !.failed = TRUE]
  ELSE [p EXCEPT !.args = Append(@, token)]

\* parse_filter_expression.
ParseFilter(tokens, source) ==
  LET p == FoldLeft(LAMBDA q, t : ParseToken(q, t, source),
                    [args |-> <<>>, ops |-> <<>>, over |-> FALSE, failed |-> FALSE,
                     crashed |-> FALSE],
                    Append(tokens, [operator |-> "$end"])) IN
  [p EXCEPT !.failed = @ \/ Len(p.args) # 1]

IsPayload(expr) == expr.expr = "payload"

\* interpret_schema for one item of the select list.
ItemOK(item, rule) ==
  /\ CASE item.source.expr = "const"   -> TRUE
       [] item.source.expr = "payload" -> "payload" \in FieldsOf(rule.source)
       [] OTHER                        -> item.source.name \in FieldsOf(rule.source)
  /\ item.target.kind = "parameter" => item.target.known

\* A known source, a select list in order and an adaptor.
SchemaOK(rule) ==
  /\ FieldsOf(rule.source) # {}
  /\ \A i \in 1 .. Len(rule.select) : ItemOK(rule.select[i], rule)
  /\ \E i \in 1 .. Len(rule.select) : rule.select[i].target.kind = "parameter"

\* tmq_rule_parse: whether the rule is accepted.
Accepted(rule) ==
  /\ SchemaOK(rule)
  /\ rule.where # <<>> => LET p == ParseFilter(rule.where, rule.source) IN
                          ~p.failed /\ ~p.crashed

\* need_json_payload: the rule names the payload in its select list or in its filter.
UsesPayload(rule) ==
  \/ \E i \in 1 .. Len(rule.select) : IsPayload(rule.select[i].source)
  \/ \E i \in 1 .. Len(rule.where) : "expr" \in DOMAIN rule.where[i] /\ IsPayload(rule.where[i])

\* The schema is in order and so is the filter, which then has a meaning.
InOrder(rule) ==
  /\ SchemaOK(rule)
  /\ rule.where # <<>> => rule.meaning # None

\* make_event_listener; the adaptor is that of the parameter read last.
Listener(rule) ==
  [filter   |-> IF rule.where = <<>> THEN None
                ELSE Head(ParseFilter(rule.where, rule.source).args),
   adaptor |-> Last(SelectSeq(rule.select, LAMBDA i : i.target.kind = "parameter")).target.adaptor,
   mappings |-> rule.select, need_json_payload |-> UsesPayload(rule), source |-> rule.source]

\* Where the listeners of a rule or an event are: a node of the topic tree, or the list of
\* the type.
Key(source, topic) == <<SourceType(source), IF source = "message" THEN topic ELSE "">>

ListenersOf(key) == IF key \in DOMAIN listeners THEN listeners[key] ELSE <<>>

Init == /\ listeners = [k \in {} |-> <<>>] /\ added = <<>>
        /\ event = None /\ calls = <<>>

Note(rule) ==
  /\ added' = IF InOrder(rule) THEN <<rule>> \o added ELSE added
  /\ event' = None /\ calls' = <<>>

\* tmq_rule_engine_add_rule: the new listener becomes the first one.
AddRule(rule) ==
  /\ Len(added) < MaxRules
  /\ Accepted(rule)
  /\ LET key == Key(rule.source, rule.topic) IN
     listeners' = (key :> (<<Listener(rule)>> \o ListenersOf(key))) @@ listeners
  /\ Note(rule)

\* The rule is refused: only the error is reported.
RefuseRule(rule) ==
  /\ Len(added) < MaxRules
  /\ ~Accepted(rule)
  /\ Note(rule)
  /\ UNCHANGED listeners
-----------------------------------------------------------------------------
\* Reading a field of the event: a rule from "topic" reads the data of a device event,
\* where its field topic lies at client_id.
Datum(source, name) == IF source = "topic" /\ name = "topic" THEN "client_id" ELSE name

RECURSIVE Evaluate(_, _, _)
\* value_expr_evaluate, const_expr_evaluate and binary_expr_evaluate.
Evaluate(expr, source, data) ==
  CASE expr.expr = "const"   -> expr.value
    [] expr.expr = "field"   -> data[Datum(source, expr.name)]
    [] expr.expr = "payload" -> IF expr.name \in DOMAIN data.payload
                                THEN data.payload[expr.name] ELSE NoField
    [] expr.expr = "binary"  ->
         LET l == Evaluate(expr.left, source, data)
             r == Evaluate(expr.right, source, data) IN
         BOOL_VALUE(/\ l.type = r.type
              /\ \/ expr.op = "==" /\ l.type # "NULL" /\ l.v = r.v
                 \/ expr.op = "<"  /\ l.type \in {"INT", "STR"} /\ l.v < r.v
                 \/ expr.op = "<=" /\ l.type \in {"INT", "STR"} /\ l.v <= r.v
                 \/ expr.op = ">"  /\ l.type \in {"INT", "STR"} /\ l.v > r.v
                 \/ expr.op = ">=" /\ l.type \in {"INT", "STR"} /\ l.v >= r.v
                 \/ expr.op = "&&" /\ l.type = "BOOL" /\ l.v = 1 /\ r.v = 1
                 \/ expr.op = "||" /\ l.type = "BOOL" /\ (l.v = 1 \/ r.v = 1))

\* What .boolean of a value may read, whatever its type is: the low byte of an integer,
\* of the address of a string, of what was in the union before.
Boolean(value) ==
  CASE value.type = "BOOL"    -> {value.v = 1}
    [] value.type = "INT"     -> {value.v % 256 # 0}
    [] value = NULL_VALUE     -> {FALSE}
    [] OTHER                  -> BOOLEAN

\* tmq_listener_publish_event: whether the filter lets the event pass, and the call of the
\* adaptor.
Passes(l, e) == IF l.filter = None THEN {TRUE} ELSE Boolean(Evaluate(l.filter, l.source, e.data))

CallOf(l, data) ==
  FoldLeft(LAMBDA call, item :
             LET value == Evaluate(item.source, l.source, data)
                 name  == item.target.name
             IN IF item.target.kind = "parameter"
                THEN [call EXCEPT !.parameters = (name :> value) @@ @]
                ELSE [call EXCEPT !.values = Append(@, <<name, value>>)],
           [source |-> l.source, adaptor |-> l.adaptor, parameters |-> [n \in {} |-> None],
            values |-> <<>>],
           l.mappings)

\* trigger_event skips a listener that needs the payload when that is not JSON.
Triggered(l, e) == l.need_json_payload => e.json

\* Those of a sequence for which a choice was made, in their order.
Chosen(seq, choice) == SelectSeq([i \in 1 .. Len(seq) |-> i], LAMBDA i : choice[i])

\* tmq_rule_engine_publish_event, and trigger_event for messages.
PublishEvent(e) ==
  LET heard == SelectSeq(ListenersOf(Key(e.source, e.topic)), LAMBDA l : Triggered(l, e)) IN
  /\ event' = e
  /\ \E pass \in [1 .. Len(heard) -> BOOLEAN] :
       /\ \A i \in 1 .. Len(heard) : pass[i] \in Passes(heard[i], e)
       /\ calls' = LET called == Chosen(heard, pass) IN
                   [i \in 1 .. Len(called) |-> CallOf(heard[called[i]], e.data)]
  /\ UNCHANGED <<listeners, added>>

Next == \/ \E rule \in Rules : AddRule(rule) \/ RefuseRule(rule)
        \/ \E e \in Events : PublishEvent(e)

Spec == Init /\ [][Next]_ruleVars
-----------------------------------------------------------------------------
(* What a rule means.  Its author means by its filter the tree `meaning'.  *)

True == BOOL_VALUE(TRUE)
False == BOOL_VALUE(FALSE)

RECURSIVE Meaning(_, _)
\* The value of a tree for an event: comparisons are those of values of one type, the
\* connectives those of two Booleans.
Meaning(t, data) ==
  CASE t.expr = "const"   -> t.value
    [] t.expr = "field"   -> data[t.name]
    [] t.expr = "payload" -> IF t.name \in DOMAIN data.payload THEN data.payload[t.name]
                             ELSE NoField
    [] t.expr = "binary"  ->
         LET l == Meaning(t.left, data)
             r == Meaning(t.right, data)
             ordered == l.type = r.type /\ l.type \in {"INT", "STR"}
             holds == CASE t.op = "&&" -> <<l, r>> = <<True, True>>
                        [] t.op = "||" -> {l, r} \subseteq {True, False} /\ True \in {l, r}
                        [] t.op = "==" -> l = r /\ l.type # "NULL"
                        [] t.op = "<"  -> ordered /\ l.v < r.v
                        [] t.op = "<=" -> ordered /\ ~ (r.v < l.v)
                        [] t.op = ">"  -> ordered /\ r.v < l.v
                        [] t.op = ">=" -> ordered /\ ~ (l.v < r.v)
         IN IF holds THEN True ELSE False

RECURSIVE Mentions(_)
\* The tree mentions a field of the payload.
Mentions(t) == IF t.expr = "binary" THEN Mentions(t.left) \/ Mentions(t.right) ELSE IsPayload(t)

\* A rule is for the events of its source, a rule for messages for those of its topic; one
\* that mentions the payload needs one that is JSON.
IsFor(rule, e) ==
  /\ rule.source = e.source
  /\ rule.source = "message" => rule.topic = e.topic
  /\ (\E i \in 1 .. Len(rule.select) : IsPayload(rule.select[i].source)) => e.json
  /\ (rule.meaning # None /\ Mentions(rule.meaning)) => e.json

\* Whether a rule asks for a call: a filter that is no Boolean leaves it open.
Asks(rule, e) ==
  IF ~ IsFor(rule, e) THEN {FALSE}
  ELSE IF rule.meaning = None THEN {TRUE}
  ELSE LET m == Meaning(rule.meaning, e.data) IN IF m.type = "BOOL" THEN {m = True} ELSE BOOLEAN

\* The call it asks for: of two items for one parameter the later counts, and of two
\* adaptors as well.
CallFor(rule, e) ==
  LET param(i) == rule.select[i].target.kind = "parameter"
      params == {i \in 1 .. Len(rule.select) : param(i)}
      columns == Chosen(rule.select, [i \in 1 .. Len(rule.select) |-> ~ param(i)])
      name(i) == rule.select[i].target.name
      value(i) == Meaning(rule.select[i].source, e.data)
      last(S) == CHOOSE i \in S : \A j \in S : j <= i
  IN [source |-> rule.source, adaptor |-> rule.select[last(params)].target.adaptor,
      parameters |-> [n \in {name(i) : i \in params} |->
                        value(last({i \in params : name(i) = n}))],
      values |-> [i \in 1 .. Len(columns) |-> <<name(columns[i]), value(columns[i])>>]]

\* An event leads to exactly one call for each rule that asks for it, newest rule first,
\* with the adaptor, parameters and values of the rule, where the filter means what its
\* author wrote: comparisons bind closer than && and ||, which are equal and group to the
\* left, and parentheses count; and a filter that can be read is never refused
\* (parse_filter_expression, tmq_listener_publish_event).  Left out are the calls for rules
\* from "topic": no event of theirs is published, but they are registered as rules of
\* devices and called for those, with client_id as their topic (mqtt_event_source.c:17).
CallsAsRules ==
  event # None =>
    LET rules == SelectSeq(added, LAMBDA rule : rule.source # "topic")
    IN \E ask \in [1 .. Len(rules) -> BOOLEAN] :
         /\ \A i \in 1 .. Len(rules) : ask[i] \in Asks(rules[i], event)
         /\ SelectSeq(calls, LAMBDA call : call.source # "topic") =
              LET asking == Chosen(rules, ask)
              IN [i \in 1 .. Len(asking) |-> CallFor(rules[asking[i]], event)]
=============================================================================
