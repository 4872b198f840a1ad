----------------------------- MODULE MCMessages -----------------------------
(***************************************************************************)
(* The two halves of a message's way through the broker, one at a time:    *)
(* finding its recipients in the topic tree, and its exchange with one of  *)
(* them.  part says which of them a behaviour is about; the variables of   *)
(* the other keep their initial values.                                    *)
(***************************************************************************)
EXTENDS Delivery, MCTopicTree

VARIABLE part

PartsInit ==
  /\ part \in {"qos", "topics"}
  /\ Init /\ TreeInit
  /\ part # "qos" => next_packet_id = 0

\* The exchange is that of FreeIdSpec: with fewer ids than messages, they are used
\* again, once the exchange that used them has ended.
PartsNext ==
  \/ part = "qos" /\ FreeIdNext /\ UNCHANGED <<part, treeVars>>
  \/ part = "topics" /\ TreeNext /\ UNCHANGED <<part, vars>>

PartsSpec == PartsInit /\ [][PartsNext]_<<part, vars, treeVars>>
=============================================================================
