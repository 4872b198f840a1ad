-------------------------------- MODULE Acl --------------------------------
(***************************************************************************)
(* Access control (mqtt/mqtt_acl.c): a tree of topic filters with lists of *)
(* rules, filled at start-up from a table in MySQL (mysql_load_acl, db/    *)
(* mqtt_db.c), and the decision tmq_acl_auth takes for a session, a topic  *)
(* and an access.  The table is loaded row by row before any thread asks,  *)
(* so the reader-writer lock is left out.  A filter is the sequence of its *)
(* levels.                                                                 *)
(***************************************************************************)
EXTENDS Naturals, Sequences, SequencesExt, FiniteSets

CONSTANTS Rows,          \* the rows a table may have
          Sessions,      \* [username, client_id, ip]
          Topics,
          MaxRows        \* bound: rows of a table

VARIABLES node,          \* node[path]: acl_tree_node_t
          table,         \* history: the rows loaded
          crashed        \* add_rule has dereferenced NULL

aclVars == <<node, table, crashed>>

nomatch_permission == "deny"   \* tmq_broker_init: tmq_acl_init(&broker->acl, DENY)

NewNode == [rules |-> <<>>, rules_for_all |-> <<>>]

\* add_topic_or_find: the nodes on the way to a filter.
AddTopicOrFind(filter) ==
  [p \in DOMAIN node \cup {SubSeq(filter, 1, i) : i \in 0 .. Len(filter)} |->
     IF p \in DOMAIN node THEN node[p] ELSE NewNode]

\* The four check_same_target functions; kind stands for check_permission.
CheckSameTarget(r, new) == r.kind = new.kind /\ r.target = new.target

\* The four check_permission functions; UNKNOWN is the empty set.
CheckPermission(r, session, access) ==
  IF /\ r.access \in {"PUB_SUB", access}
     /\ r.kind = "all" \/ session[r.kind] = r.target
  THEN {r.permission} ELSE {}

Overlap(a, b) == a = b \/ "PUB_SUB" \in {a, b}

Conflict(r, new) == r.permission # new.permission /\ Overlap(r.access, new.access)

\* Mutant: an existing rule is merged with although it says the opposite.
MergesAnyway(r, new) == r.access # new.access

\* The condition for a merge, which is not asked again whether the target is the same
\* after a conflicting rule was taken out of the list.
Merges(r, new) == r.permission = new.permission /\ r.access # new.access

\* One turn of add_rule's loop.
Walk(w, new) ==
  LET list == IF Conflict(w.list[w.at], new) THEN RemoveAt(w.list, w.at) ELSE w.list
      on   == [w EXCEPT !.at = @ + 1] IN
  IF w.crashed \/ w.at > Len(w.list) THEN w
  ELSE IF ~CheckSameTarget(w.list[w.at], new) THEN on
  ELSE IF w.at > Len(list) THEN [w EXCEPT !.crashed = TRUE]
  ELSE IF Merges(list[w.at], new)
  THEN [on EXCEPT !.list = [list EXCEPT ![w.at].access = "PUB_SUB"], !.merged = TRUE]
  ELSE [on EXCEPT !.list = list]

Walked(list, new) ==
  FoldLeft(LAMBDA w, r : Walk(w, new),
           [list |-> list, at |-> 1, merged |-> FALSE, crashed |-> FALSE], list)

\* add_rule: a rule that was not merged becomes the first one.
AddRule(list, new) ==
  LET w == Walked(list, new) IN IF w.merged THEN w.list ELSE <<new>> \o w.list

Init == node = [p \in {<<>>} |-> NewNode] /\ table = <<>> /\ crashed = FALSE

RuleOf(row) ==
  [kind |-> row.kind, target |-> row.target, permission |-> row.permission,
   access |-> row.access]

\* mysql_load_acl for one row: tmq_acl_add_rule or tmq_acl_add_rule_for_all.
LoadRow(row) ==
  /\ ~crashed /\ Len(table) < MaxRows
  /\ table' = Append(table, row)
  /\ LET tree == AddTopicOrFind(row.filter)
         at   == tree[row.filter]
         list == IF row.kind = "all" THEN at.rules_for_all ELSE at.rules IN
     /\ crashed' = Walked(list, RuleOf(row)).crashed
     /\ node' = IF crashed' THEN tree
                ELSE [tree EXCEPT ![row.filter] =
                        IF row.kind = "all"
                        THEN [at EXCEPT !.rules_for_all = AddRule(list, RuleOf(row))]
                        ELSE [at EXCEPT !.rules = AddRule(list, RuleOf(row))]]

Next == \E row \in Rows : LoadRow(row)

Spec == Init /\ [][Next]_aclVars
-----------------------------------------------------------------------------
\* The children match() tries, in this order.
Candidates(level) == <<level, "+", "#">>

\* match: the first node found, as a set of at most one path.
Match(levels) ==
  LET match[n \in 0 .. Len(levels), cur \in DOMAIN node] ==
        IF n = Len(levels) THEN {cur}
        ELSE LET level == levels[n + 1]
                 found(l) == LET next == Append(cur, l) IN
                             IF next \notin DOMAIN node THEN {}
                             ELSE IF l = "#" THEN {next} ELSE match[n + 1, next] IN
             FoldLeft(LAMBDA f, l : IF f # {} THEN f ELSE found(l), {}, Candidates(level))
  IN match[0, <<>>]

\* The answer of the first rule of a list that gives one.
FirstAnswer(list, session, access) ==
  FoldLeft(LAMBDA p, r : IF p # {} THEN p ELSE CheckPermission(r, session, access), {}, list)

\* tmq_acl_auth.
Auth(session, topic, access) ==
  LET matched == Match(topic)
      lists   == IF matched = {} THEN <<>>
                 ELSE LET p == CHOOSE p \in matched : TRUE IN
                      <<node[p].rules, node[p].rules_for_all>>
      answer  == FoldLeft(LAMBDA p, l : IF p # {} THEN p ELSE FirstAnswer(l, session, access),
                          {}, lists) IN
  IF answer = {} THEN nomatch_permission ELSE CHOOSE p \in answer : TRUE
-----------------------------------------------------------------------------
\* The table says the opposite of two rules for one target: what add_rule then does is
\* undefined or wrong.
Contrary ==
  \E i, j \in 1 .. Len(table) :
    LET r == table[i]  s == table[j] IN
    r.filter = s.filter /\ CheckSameTarget(r, s) /\ Conflict(r, s)

Covers(p, topic) ==
  /\ \A i \in 1 .. Len(p) : p[i] = "#" \/ (i <= Len(topic) /\ p[i] \in {topic[i], "+"})
  /\ IF Last(p) = "#" THEN Len(p) <= Len(topic) ELSE Len(p) = Len(topic)

Weight(level) == CASE level = "#" -> 2 [] level = "+" -> 1 [] OTHER -> 0

MoreSpecific(p, q) ==
  \E i \in 1 .. Len(p) : /\ i <= Len(q) /\ Weight(p[i]) < Weight(q[i])
                         /\ \A j \in 1 .. i - 1 : p[j] = q[j]

\* The filters of the table and those on the way to them: the most specific one counts,
\* also when the table has no row for it.
Decisive(topic) ==
  LET paths    == UNION {{SubSeq(r.filter, 1, k) : k \in 1 .. Len(r.filter)} :
                           r \in Range(table)}
      covering == {p \in paths : Covers(p, topic)} IN
  {p \in covering : \A q \in covering \ {p} : MoreSpecific(p, q)}

RowsSay(paths, session, access, general) ==
  UNION {CheckPermission(r, session, access) :
           r \in {r \in Range(table) : r.filter \in paths /\ (r.kind = "all" <=> general)}}

\* However rules were merged, every decision is backed by a row of the table: one for this
\* session under the most specific filter, else one for all there, else none applies and the
\* default holds (add_rule, match, tmq_acl_auth); given a table that does not contradict
\* itself.
DecisionsBacked ==
  ~Contrary =>
    /\ ~crashed
    /\ \A s \in Sessions, t \in Topics, a \in {"PUB", "SUB"} :
         LET own == RowsSay(Decisive(t), s, a, FALSE)
             all == RowsSay(Decisive(t), s, a, TRUE) IN
         Auth(s, t, a) \in (IF own # {} THEN own
                            ELSE IF all # {} THEN all ELSE {nomatch_permission})
=============================================================================
