----------------------------- MODULE MCSessions -----------------------------
(* Instances of Sessions for TLC. *)
EXTENDS Sessions, TLC
CONSTANTS c1, c2, c3, k1, k2

\* k1 uses both kinds of session, k2 only clean ones.
AnyKind == [id \in Clients |-> IF id = k1 THEN BOOLEAN ELSE {TRUE}]

\* k1's sessions are persistent, k2's clean.
OneKind == [id \in Clients |-> {id = k2}]

Symmetry == Permutations(Conns)
=============================================================================
