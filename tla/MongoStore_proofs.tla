------------------------- MODULE MongoStore_proofs -------------------------
(***************************************************************************)
(* Order and progress of the store that is backed by MongoDB, for every    *)
(* window, trigger, fetch limit and number of messages: as long as the     *)
(* database does not fail and no fetched batch replaces packets still      *)
(* queued, messages are sent in the order in which they were published and *)
(* none is dropped (StoredInOrder); and with a trigger of at least two     *)
(* none waits when nothing is on its way (NothingWaitsForever).            *)
(*                                                                         *)
(* A session's messages are at six places at once: sent, in the queue,     *)
(* fetched, in the database, on their way there, and in the buffer.        *)
(* InOrder says that these hold the numbers 1, 2, ... in turn; every       *)
(* operation moves packets from a place to the one before it, and the      *)
(* flags tell that the places jumped over are empty.                       *)
(***************************************************************************)
EXTENDS MongoStore, TLAPS, SequenceTheorems, WellFoundedInduction

Pub == [type : {"PUBLISH"}, packet_id : Nat, qos : {1, 2}]
Rel == [type : {"PUBREL"}, packet_id : Nat, qos : {0}]
Pkts == Pub \cup Rel

-----------------------------------------------------------------------------
(* Sequences.                                                              *)

\* The elements of a sequence put behind another one.
LEMMA ConcatFacts ==
  ASSUME NEW S, NEW s \in Seq(S), NEW t \in Seq(S)
  PROVE  /\ s \o t \in Seq(S) /\ Len(s) \in Nat /\ Len(t) \in Nat
         /\ Len(s \o t) = Len(s) + Len(t)
         /\ DOMAIN s = 1 .. Len(s) /\ DOMAIN t = 1 .. Len(t)
         /\ DOMAIN (s \o t) = 1 .. Len(s) + Len(t)
         /\ \A i \in 1 .. Len(s) : (s \o t)[i] = s[i]
         /\ \A i \in 1 .. Len(t) : (s \o t)[Len(s) + i] = t[i]
<1>1. /\ s \o t \in Seq(S) /\ Len(s \o t) = Len(s) + Len(t)
      /\ \A i \in 1 .. Len(s) + Len(t) :
           (s \o t)[i] = IF i <= Len(s) THEN s[i] ELSE t[i - Len(s)]
  BY ConcatProperties
<1>2. /\ Len(s) \in Nat /\ Len(t) \in Nat /\ DOMAIN s = 1 .. Len(s) /\ DOMAIN t = 1 .. Len(t)
      /\ DOMAIN (s \o t) = 1 .. Len(s \o t)
  BY <1>1, LenProperties
<1> QED BY <1>1, <1>2

LEMMA AppendFacts ==
  ASSUME NEW S, NEW s \in Seq(S), NEW x \in S
  PROVE  /\ Append(s, x) \in Seq(S) /\ Len(s) \in Nat /\ Len(Append(s, x)) = Len(s) + 1
         /\ DOMAIN s = 1 .. Len(s) /\ DOMAIN Append(s, x) = 1 .. Len(s) + 1
         /\ \A i \in 1 .. Len(s) : s[i] \in S
         /\ \A i \in 1 .. Len(s) : Append(s, x)[i] = s[i]
         /\ Append(s, x)[Len(s) + 1] = x
BY AppendProperties, LenProperties, ElementOfSeq

\* The rest of a sequence from a place on, and its beginning.
LEMMA RestFacts ==
  ASSUME NEW S, NEW s \in Seq(S), NEW k \in 0 .. Len(s)
  PROVE  /\ SubSeq(s, k + 1, Len(s)) \in Seq(S) /\ Len(s) \in Nat
         /\ Len(SubSeq(s, k + 1, Len(s))) = Len(s) - k
         /\ \A i \in 1 .. Len(s) - k : SubSeq(s, k + 1, Len(s))[i] = s[k + i]
<1>1. Len(s) \in Nat /\ \A i \in 1 .. Len(s) : s[i] \in S
  BY LenProperties, ElementOfSeq
<1>2. /\ SubSeq(s, k + 1, Len(s)) \in Seq(S)
      /\ Len(SubSeq(s, k + 1, Len(s))) = (IF k + 1 <= Len(s) THEN Len(s) - (k + 1) + 1 ELSE 0)
      /\ \A i \in 1 .. Len(s) - (k + 1) + 1 :
           SubSeq(s, k + 1, Len(s))[i] = s[(k + 1) + i - 1]
  BY <1>1, SubSeqProperties
<1> QED BY <1>1, <1>2

LEMMA FrontFacts ==
  ASSUME NEW S, NEW s \in Seq(S), NEW k \in 0 .. Len(s)
  PROVE  /\ SubSeq(s, 1, k) \in Seq(S) /\ Len(s) \in Nat
         /\ Len(SubSeq(s, 1, k)) = k
         /\ \A i \in 1 .. k : SubSeq(s, 1, k)[i] = s[i]
<1>1. Len(s) \in Nat /\ \A i \in 1 .. Len(s) : s[i] \in S
  BY LenProperties, ElementOfSeq
<1>2. /\ SubSeq(s, 1, k) \in Seq(S)
      /\ Len(SubSeq(s, 1, k)) = (IF 1 <= k THEN k - 1 + 1 ELSE 0)
      /\ \A i \in 1 .. k - 1 + 1 : SubSeq(s, 1, k)[i] = s[1 + i - 1]
  BY <1>1, SubSeqProperties
<1> QED BY <1>1, <1>2

\* A sequence is its beginning and its rest.
LEMMA Split ==
  ASSUME NEW S, NEW s \in Seq(S), NEW k \in 0 .. Len(s)
  PROVE  SubSeq(s, 1, k) \o SubSeq(s, k + 1, Len(s)) = s
<1>1. PICK u : u = SubSeq(s, 1, k)
  OBVIOUS
<1>2. PICK v : v = SubSeq(s, k + 1, Len(s))
  OBVIOUS
<1>3. /\ u \in Seq(S) /\ v \in Seq(S) /\ Len(u) = k /\ Len(v) = Len(s) - k /\ Len(s) \in Nat
      /\ \A i \in 1 .. k : u[i] = s[i]
      /\ \A i \in 1 .. Len(s) - k : v[i] = s[k + i]
  BY <1>1, <1>2, FrontFacts, RestFacts
<1>4. /\ u \o v \in Seq(S) /\ Len(u \o v) = Len(s)
      /\ \A i \in 1 .. k : (u \o v)[i] = s[i]
      /\ \A i \in 1 .. Len(s) - k : (u \o v)[k + i] = s[k + i]
  BY <1>3, ConcatFacts
<1>5. \A i \in 1 .. Len(s) : (u \o v)[i] = s[i]
  <2> SUFFICES ASSUME NEW i \in 1 .. Len(s) PROVE (u \o v)[i] = s[i]
    OBVIOUS
  <2>1. CASE i <= k
    BY <1>3, <1>4, <2>1
  <2>2. CASE i > k
    <3>0. i - k \in 1 .. Len(s) - k /\ i = k + (i - k)
      BY <1>3, <2>2
    <3>1. PICK j \in 1 .. Len(s) - k : i = k + j
      BY <3>0
    <3>2. (u \o v)[k + j] = s[k + j]
      BY <1>4
    <3> QED BY <3>1, <3>2, Zenon
  <2> QED BY <1>3, <2>1, <2>2
<1> QED BY <1>1, <1>2, <1>4, <1>5, SeqEqual

LEMMA EmptyFacts ==
  ASSUME NEW S
  PROVE  /\ <<>> \in Seq(S) /\ Len(<<>>) = 0 /\ DOMAIN <<>> = {}
         /\ \A s \in Seq(S) : <<>> \o s = s /\ s \o <<>> = s
         /\ \A s \in Seq(S) : Len(s) \in Nat /\ (Len(s) = 0 <=> s = <<>>)
BY EmptySeq, ConcatEmptySeq, LenProperties

LEMMA SingleFacts ==
  ASSUME NEW S, NEW x \in S
  PROVE  <<x>> \in Seq(S) /\ Len(<<x>>) = 1 /\ <<x>>[1] = x
OBVIOUS

LEMMA Least ==
  ASSUME NEW T \in SUBSET Nat, T # {}
  PROVE  \E x \in T : \A y \in T : x <= y
<1>1. PICK x \in T : \A y \in T : ~ (<<y, x>> \in OpToRel(<, Nat))
  BY NatLessThanWellFounded, WFMin, Zenon
<1>2. \A y \in T : ~ (y < x)
  BY <1>1, Zenon DEF OpToRel
<1> QED BY <1>2, SMT

\* What holds at 0 and goes on from step to step holds everywhere.
LEMMA StepByStep ==
  ASSUME NEW N \in Nat, NEW T, 0 \in T, \A i \in 1 .. N : i - 1 \in T => i \in T
  PROVE  \A i \in 0 .. N : i \in T
<1> SUFFICES ASSUME NEW i \in 0 .. N, i \notin T PROVE FALSE
  OBVIOUS
<1> DEFINE U == {j \in 0 .. N : j \notin T}
<1>1. U \in SUBSET Nat /\ U # {}
  OBVIOUS
<1> HIDE DEF U
<1>2. PICK x \in U : \A y \in U : x <= y
  BY <1>1, Least
<1>3. x \in 0 .. N /\ x \notin T
  BY <1>2 DEF U
<1>4. x \in 1 .. N /\ x - 1 \in 0 .. N /\ ~ (x <= x - 1)
  BY <1>3
<1>5. x - 1 \in T
  BY <1>2, <1>4 DEF U
<1> QED BY <1>3, <1>4, <1>5

-----------------------------------------------------------------------------
(* The messages among packets.                                             *)

\* What Messages computes on its way.
UpTo(F, s) ==
  F = [i \in 0 .. Len(s) |->
         IF i = 0 THEN <<>>
         ELSE IF s[i].type = "PUBLISH" THEN Append(F[i - 1], s[i]) ELSE F[i - 1]]

LEMMA UpToValues ==
  ASSUME NEW F, NEW s \in Seq(Pkts), UpTo(F, s)
  PROVE  /\ F[0] = <<>>
         /\ \A i \in 1 .. Len(s) :
              F[i] = IF s[i].type = "PUBLISH" THEN Append(F[i - 1], s[i]) ELSE F[i - 1]
<1>1. Len(s) \in Nat
  BY LenProperties
<1> DEFINE G == [i \in 0 .. Len(s) |->
                   IF i = 0 THEN <<>>
                   ELSE IF s[i].type = "PUBLISH" THEN Append(F[i - 1], s[i]) ELSE F[i - 1]]
<1>2. F = G
  BY DEF UpTo
<1>3. G[0] = <<>> /\ \A i \in 1 .. Len(s) :
              G[i] = IF s[i].type = "PUBLISH" THEN Append(F[i - 1], s[i]) ELSE F[i - 1]
  BY <1>1
<1> HIDE DEF G
<1> QED BY <1>2, <1>3

LEMMA UpToExists == \A s \in Seq(Pkts) : \E F : UpTo(F, s)
<1> DEFINE T == {n \in Nat : \A s \in Seq(Pkts) : Len(s) = n => \E F : UpTo(F, s)}
<1>1. 0 \in T
  <2>1. ASSUME NEW s \in Seq(Pkts), Len(s) = 0 PROVE \E F : UpTo(F, s)
    <3> DEFINE F == [i \in 0 .. 0 |-> <<>>]
    <3>1. UpTo(F, s)
      BY <2>1 DEF UpTo
    <3> QED BY <3>1
  <2> QED BY <2>1
<1>2. ASSUME NEW n \in Nat \ {0}, n - 1 \in T PROVE n \in T
  <2> SUFFICES ASSUME NEW s \in Seq(Pkts), Len(s) = n PROVE \E F : UpTo(F, s)
    OBVIOUS
  <2>1. PICK r : r = SubSeq(s, 1, n - 1)
    OBVIOUS
  <2>2. r \in Seq(Pkts) /\ Len(r) = n - 1 /\ \A i \in 1 .. n - 1 : r[i] = s[i]
    BY <2>1, FrontFacts
  <2>3. PICK G : UpTo(G, r)
    BY <1>2, <2>2
  <2>4. /\ G[0] = <<>>
        /\ \A i \in 1 .. n - 1 :
             G[i] = IF s[i].type = "PUBLISH" THEN Append(G[i - 1], s[i]) ELSE G[i - 1]
    BY <2>2, <2>3, UpToValues
  <2> DEFINE F == [i \in 0 .. n |->
                     IF i < n THEN G[i]
                     ELSE IF s[n].type = "PUBLISH" THEN Append(G[n - 1], s[n]) ELSE G[n - 1]]
  <2>5. \A i \in 0 .. n - 1 : F[i] = G[i]
    OBVIOUS
  <2>6. F[n] = IF s[n].type = "PUBLISH" THEN Append(F[n - 1], s[n]) ELSE F[n - 1]
    BY <2>5
  <2>7. F[0] = <<>> /\ \A i \in 1 .. n :
             F[i] = IF s[i].type = "PUBLISH" THEN Append(F[i - 1], s[i]) ELSE F[i - 1]
    <3>1. F[0] = <<>>
      BY <2>4, <2>5
    <3>2. ASSUME NEW i \in 1 .. n - 1
          PROVE  F[i] = IF s[i].type = "PUBLISH" THEN Append(F[i - 1], s[i]) ELSE F[i - 1]
      <4>1. i \in 0 .. n - 1 /\ i - 1 \in 0 .. n - 1
        OBVIOUS
      <4>2. F[i] = G[i] /\ F[i - 1] = G[i - 1]
        BY <2>5, <4>1
      <4> HIDE DEF F
      <4> QED BY <2>4, <4>2
    <3> HIDE DEF F
    <3>3. \A i \in 1 .. n : i \in 1 .. n - 1 \/ i = n
      OBVIOUS
    <3> QED BY <2>6, <3>1, <3>2, <3>3
  <2>8. UpTo(F, s)
    <3>1. DOMAIN F = 0 .. n /\ F = [i \in 0 .. n |-> F[i]]
      OBVIOUS
    <3> HIDE DEF F
    <3>2. \A i \in 0 .. n : F[i] = IF i = 0 THEN <<>>
                                   ELSE IF s[i].type = "PUBLISH" THEN Append(F[i - 1], s[i]) ELSE F[i - 1]
      BY <2>7
    <3> QED BY <3>1, <3>2 DEF UpTo
  <2> QED BY <2>8
<1> HIDE DEF T
<1> SUFFICES ASSUME NEW s \in Seq(Pkts) PROVE \E F : UpTo(F, s)
  OBVIOUS
<1>3. Len(s) \in Nat
  BY LenProperties
<1>4. \A i \in 0 .. Len(s) : i \in T
  BY <1>1, <1>2, <1>3, StepByStep
<1>5. Len(s) \in T
  BY <1>3, <1>4
<1> QED BY <1>5 DEF T

LEMMA MessagesUpTo ==
  ASSUME NEW s \in Seq(Pkts)
  PROVE  \E F : UpTo(F, s) /\ Messages(s) = F[Len(s)]
<1>1. Messages(s) = (CHOOSE F : UpTo(F, s))[Len(s)]
  BY Zenon DEF Messages, UpTo
<1>2. UpTo(CHOOSE F : UpTo(F, s), s)
  BY UpToExists, Zenon
<1> QED BY <1>1, <1>2, Zenon

\* An element behind two sequences is behind the second.
LEMMA AppendConcat ==
  ASSUME NEW S, NEW s \in Seq(S), NEW t \in Seq(S), NEW x \in S
  PROVE  s \o Append(t, x) = Append(s \o t, x)
<1>1. PICK a \in Nat : a = Len(s)
  BY LenProperties
<1>2. PICK b \in Nat : b = Len(t)
  BY LenProperties
<1>3. PICK st : st = s \o t
  OBVIOUS
<1>4. /\ st \in Seq(S) /\ Len(st) = a + b
      /\ \A i \in 1 .. a : st[i] = s[i]
      /\ \A i \in 1 .. b : st[a + i] = t[i]
  BY <1>1, <1>2, <1>3, ConcatFacts
<1>5. PICK u : u = Append(t, x)
  OBVIOUS
<1>6. u \in Seq(S) /\ Len(u) = b + 1 /\ u[b + 1] = x /\ \A i \in 1 .. b : u[i] = t[i]
  BY <1>2, <1>5, AppendFacts
<1>7. PICK su : su = s \o u
  OBVIOUS
<1>8. /\ su \in Seq(S) /\ Len(su) = a + (b + 1)
      /\ \A i \in 1 .. a : su[i] = s[i]
      /\ \A i \in 1 .. b + 1 : su[a + i] = u[i]
  <2>1. /\ s \o u \in Seq(S) /\ Len(s \o u) = Len(s) + Len(u)
        /\ \A i \in 1 .. Len(s) : (s \o u)[i] = s[i]
        /\ \A i \in 1 .. Len(u) : (s \o u)[Len(s) + i] = u[i]
    <3>1. u \in Seq(S)
      BY <1>6
    <3> QED BY <3>1, ConcatFacts
  <2> QED BY <1>1, <1>6, <1>7, <2>1
<1>9. PICK v : v = Append(st, x)
  OBVIOUS
<1>10. /\ v \in Seq(S) /\ Len(v) = (a + b) + 1 /\ v[(a + b) + 1] = x
       /\ \A i \in 1 .. a + b : v[i] = st[i]
  BY <1>4, <1>9, AppendFacts
<1>11. \A i \in 1 .. (a + b) + 1 : su[i] = v[i]
  <2> SUFFICES ASSUME NEW i \in 1 .. (a + b) + 1 PROVE su[i] = v[i]
    OBVIOUS
  <2>1. CASE i \in 1 .. a
    <3>1. i \in 1 .. a + b
      BY <2>1
    <3> QED BY <1>4, <1>8, <1>10, <2>1, <3>1
  <2>2. CASE i \in a + 1 .. a + b
    <3>1. PICK j \in 1 .. b : i = a + j
      BY <2>2
    <3>2. a + j \in 1 .. a + b /\ j \in 1 .. b + 1
      OBVIOUS
    <3>3. su[a + j] = t[j] /\ v[a + j] = t[j]
      BY <1>4, <1>6, <1>8, <1>10, <3>2
    <3> QED BY <3>1, <3>3, Zenon
  <2>3. CASE i = (a + b) + 1
    <3>1. (a + b) + 1 = a + (b + 1) /\ b + 1 \in 1 .. b + 1
      OBVIOUS
    <3>2. su[a + (b + 1)] = x
      BY <1>6, <1>8, <3>1
    <3> QED BY <1>10, <2>3, <3>1, <3>2, Zenon
  <2> QED BY <2>1, <2>2, <2>3
<1>12. Len(su) = Len(v) /\ Len(v) = (a + b) + 1
  BY <1>8, <1>10
<1>13. su = v
  BY <1>8, <1>10, <1>11, <1>12, SeqEqual
<1> QED BY <1>3, <1>5, <1>7, <1>9, <1>13, Zenon

\* The filters of two sequences that agree on their first N packets.
LEMMA SameUpTo ==
  ASSUME NEW s \in Seq(Pkts), NEW r \in Seq(Pkts), NEW F, NEW G, UpTo(F, s), UpTo(G, r),
         NEW N \in Nat, N <= Len(s), N <= Len(r), \A i \in 1 .. N : s[i] = r[i]
  PROVE  \A i \in 0 .. N : F[i] = G[i]
<1>1. /\ F[0] = <<>> /\ G[0] = <<>>
      /\ \A i \in 1 .. Len(s) :
           F[i] = IF s[i].type = "PUBLISH" THEN Append(F[i - 1], s[i]) ELSE F[i - 1]
      /\ \A i \in 1 .. Len(r) :
           G[i] = IF r[i].type = "PUBLISH" THEN Append(G[i - 1], r[i]) ELSE G[i - 1]
  BY UpToValues
<1>2. Len(s) \in Nat /\ Len(r) \in Nat
  BY LenProperties
<1> DEFINE T == {i \in 0 .. N : F[i] = G[i]}
<1>3. 0 \in T
  BY <1>1
<1>4. ASSUME NEW i \in 1 .. N, i - 1 \in T PROVE i \in T
  <2>1. i \in 1 .. Len(s) /\ i \in 1 .. Len(r) /\ i \in 0 .. N
    BY <1>2
  <2>2. F[i - 1] = G[i - 1] /\ s[i] = r[i]
    BY <1>4
  <2> QED BY <1>1, <2>1, <2>2
<1> HIDE DEF T
<1>5. \A i \in 0 .. N : i \in T
  BY <1>3, <1>4, StepByStep
<1> QED BY <1>5 DEF T

\* A packet is a message or not.
LEMMA PacketKinds ==
  /\ \A p \in Pub : p.type = "PUBLISH" /\ p \in Pkts
  /\ \A p \in Rel : p.type = "PUBREL" /\ p \in Pkts
  /\ \A p \in Pkts : p.type = "PUBLISH" => p \in Pub
BY DEF Pub, Rel, Pkts

LEMMA MessagesType ==
  ASSUME NEW s \in Seq(Pkts), NEW F, UpTo(F, s)
  PROVE  \A i \in 0 .. Len(s) : F[i] \in Seq(Pub)
<1>1. /\ F[0] = <<>>
      /\ \A i \in 1 .. Len(s) :
           F[i] = IF s[i].type = "PUBLISH" THEN Append(F[i - 1], s[i]) ELSE F[i - 1]
  BY UpToValues
<1>2. Len(s) \in Nat /\ \A i \in 1 .. Len(s) : s[i] \in Pkts
  BY LenProperties, ElementOfSeq
<1> DEFINE T == {i \in 0 .. Len(s) : F[i] \in Seq(Pub)}
<1>3. 0 \in T
  <2>1. <<>> \in Seq(Pub) /\ 0 \in 0 .. Len(s)
    BY <1>2
  <2> QED BY <1>1, <2>1
<1>4. ASSUME NEW i \in 1 .. Len(s), i - 1 \in T PROVE i \in T
  <2>1. F[i - 1] \in Seq(Pub) /\ i \in 0 .. Len(s)
    BY <1>2, <1>4
  <2>2. CASE s[i].type = "PUBLISH"
    <3>1. s[i] \in Pub
      BY <1>2, <2>2, PacketKinds
    <3>2. Append(F[i - 1], s[i]) \in Seq(Pub)
      BY <2>1, <3>1, AppendFacts
    <3> QED BY <1>1, <2>1, <2>2, <3>2
  <2>3. CASE s[i].type # "PUBLISH"
    BY <1>1, <2>1, <2>3
  <2> QED BY <2>2, <2>3
<1> HIDE DEF T
<1>5. \A i \in 0 .. Len(s) : i \in T
  BY <1>2, <1>3, <1>4, StepByStep
<1> QED BY <1>5 DEF T

\* The messages of two sequences of packets, one behind the other.
LEMMA MessagesConcat ==
  ASSUME NEW s \in Seq(Pkts), NEW t \in Seq(Pkts)
  PROVE  /\ Messages(s) \in Seq(Pub) /\ Messages(t) \in Seq(Pub)
         /\ Messages(s \o t) = Messages(s) \o Messages(t)
<1>1. PICK u : u = s \o t
  OBVIOUS
<1>2. /\ u \in Seq(Pkts) /\ Len(u) = Len(s) + Len(t) /\ Len(s) \in Nat /\ Len(t) \in Nat
      /\ \A i \in 1 .. Len(s) : u[i] = s[i]
      /\ \A i \in 1 .. Len(t) : u[Len(s) + i] = t[i]
  BY <1>1, ConcatFacts
<1>3. PICK F : UpTo(F, s) /\ Messages(s) = F[Len(s)]
  BY MessagesUpTo
<1>4. PICK G : UpTo(G, t) /\ Messages(t) = G[Len(t)]
  BY MessagesUpTo
<1>5. PICK H : UpTo(H, u) /\ Messages(u) = H[Len(u)]
  BY <1>2, MessagesUpTo
<1>6. /\ \A i \in 0 .. Len(s) : F[i] \in Seq(Pub)
      /\ \A i \in 0 .. Len(t) : G[i] \in Seq(Pub)
  BY <1>3, <1>4, MessagesType
<1>7. PICK m \in Seq(Pub) : m = Messages(s)
  BY <1>2, <1>3, <1>6
<1>8. H[Len(s)] = m
  <2>1. \A i \in 0 .. Len(s) : H[i] = F[i]
    <3>1. PICK n \in Nat : n = Len(s)
      BY <1>2
    <3>2. n <= Len(u) /\ n <= Len(s) /\ \A i \in 1 .. n : u[i] = s[i]
      BY <1>2, <3>1
    <3>3. \A i \in 0 .. n : H[i] = F[i]
      BY <1>2, <1>3, <1>5, <3>2, SameUpTo
    <3> QED BY <3>1, <3>3
  <2> QED BY <1>2, <1>3, <1>7, <2>1
<1> DEFINE T == {i \in 0 .. Len(t) : H[Len(s) + i] = m \o G[i]}
<1>9. 0 \in T
  <2>1. G[0] = <<>>
    BY <1>4, UpToValues
  <2>2. Len(s) + 0 = Len(s) /\ 0 \in 0 .. Len(t)
    BY <1>2
  <2>3. m \o <<>> = m
    BY EmptyFacts
  <2> QED BY <1>8, <2>1, <2>2, <2>3
<1>10. ASSUME NEW i \in 1 .. Len(t), i - 1 \in T PROVE i \in T
  <2>0. i \in 0 .. Len(t) /\ i - 1 \in 0 .. Len(t)
    BY <1>2
  <2>1. H[Len(s) + (i - 1)] = m \o G[i - 1]
    BY <1>10
  <2>2. PICK k \in 1 .. Len(u) : k = Len(s) + i /\ k - 1 = Len(s) + (i - 1)
    BY <1>2
  <2>3. H[k] = IF u[k].type = "PUBLISH" THEN Append(H[k - 1], u[k]) ELSE H[k - 1]
    BY <1>2, <1>5, UpToValues
  <2>4. u[k] = t[i]
    BY <1>2, <2>2
  <2>5. H[k - 1] = m \o G[i - 1]
    BY <2>1, <2>2, Zenon
  <2>6. G[i] = IF t[i].type = "PUBLISH" THEN Append(G[i - 1], t[i]) ELSE G[i - 1]
    BY <1>4, UpToValues
  <2>7. H[k] = m \o G[i]
    <3>1. CASE t[i].type = "PUBLISH"
      <4>1. t[i] \in Pub
        BY <1>2, <3>1, ElementOfSeq, PacketKinds
      <4>2. G[i - 1] \in Seq(Pub)
        BY <1>6, <2>0
      <4>3. m \o Append(G[i - 1], t[i]) = Append(m \o G[i - 1], t[i])
        <5>1. PICK g \in Seq(Pub) : g = G[i - 1]
          BY <4>2
        <5>2. PICK y \in Pub : y = t[i]
          BY <4>1
        <5>3. m \o Append(g, y) = Append(m \o g, y)
          BY AppendConcat
        <5> QED BY <5>1, <5>2, <5>3
      <4> QED BY <2>3, <2>4, <2>5, <2>6, <3>1, <4>3, Zenon
    <3>2. CASE t[i].type # "PUBLISH"
      BY <2>3, <2>4, <2>5, <2>6, <3>2, Zenon
    <3> QED BY <3>1, <3>2
  <2> QED BY <2>0, <2>2, <2>7
<1> HIDE DEF T
<1>11. \A i \in 0 .. Len(t) : i \in T
  BY <1>2, <1>9, <1>10, StepByStep
<1>12. H[Len(s) + Len(t)] = m \o G[Len(t)]
  BY <1>2, <1>11 DEF T
<1>13. Messages(u) = m \o Messages(t)
  BY <1>2, <1>4, <1>5, <1>12
<1>14. Messages(t) \in Seq(Pub)
  BY <1>2, <1>4, <1>6
<1> QED BY <1>1, <1>7, <1>13, <1>14

LEMMA MessagesOfOne ==
  ASSUME NEW p \in Pkts
  PROVE  Messages(<<p>>) = IF p.type = "PUBLISH" THEN <<p>> ELSE <<>>
<1>1. PICK s \in Seq(Pkts) : s = <<p>> /\ Len(s) = 1 /\ s[1] = p
  BY SingleFacts
<1>2. PICK F : UpTo(F, s) /\ Messages(s) = F[Len(s)]
  BY MessagesUpTo
<1>3. /\ F[0] = <<>>
      /\ \A i \in 1 .. Len(s) :
           F[i] = IF s[i].type = "PUBLISH" THEN Append(F[i - 1], s[i]) ELSE F[i - 1]
  BY <1>2, UpToValues
<1>4. F[1] = IF s[1].type = "PUBLISH" THEN Append(F[0], s[1]) ELSE F[0]
  <2>1. 1 \in 1 .. Len(s) /\ 1 - 1 = 0
    BY <1>1
  <2> QED BY <1>3, <2>1
<1>5. Append(<<>>, p) = <<p>>
  OBVIOUS
<1> QED BY <1>1, <1>2, <1>3, <1>4, <1>5

\* Where there are only messages, all are taken.
LEMMA MessagesAll ==
  ASSUME NEW s \in Seq(Pub)
  PROVE  Messages(s) = s /\ s \in Seq(Pkts)
<1>1. /\ Len(s) \in Nat /\ s \in Seq(Pkts)
      /\ \A i \in 1 .. Len(s) : s[i] \in Pub /\ s[i].type = "PUBLISH"
  <2>1. Len(s) \in Nat /\ \A i \in 1 .. Len(s) : s[i] \in Pub
    BY LenProperties, ElementOfSeq
  <2>2. s \in Seq(Pkts)
    BY DEF Pkts
  <2> QED BY <2>1, <2>2, PacketKinds
<1>2. PICK F : UpTo(F, s) /\ Messages(s) = F[Len(s)]
  BY <1>1, MessagesUpTo
<1>3. /\ F[0] = <<>>
      /\ \A i \in 1 .. Len(s) : F[i] = Append(F[i - 1], s[i])
  BY <1>1, <1>2, UpToValues
<1> DEFINE T == {i \in 0 .. Len(s) : /\ F[i] \in Seq(Pub) /\ Len(F[i]) = i
                                     /\ \A j \in 1 .. i : F[i][j] = s[j]}
<1>4. 0 \in T
  <2>1. <<>> \in Seq(Pub) /\ Len(<<>>) = 0 /\ 0 \in 0 .. Len(s) /\ 1 .. 0 = {}
    BY <1>1
  <2> QED BY <1>3, <2>1
<1>5. ASSUME NEW i \in 1 .. Len(s), i - 1 \in T PROVE i \in T
  <2>1. PICK f : f = F[i - 1]
    OBVIOUS
  <2>2. f \in Seq(Pub) /\ Len(f) = i - 1 /\ \A j \in 1 .. i - 1 : f[j] = s[j]
    BY <1>5, <2>1
  <2>3. PICK g : g = Append(f, s[i])
    OBVIOUS
  <2>4. /\ g \in Seq(Pub) /\ Len(g) = (i - 1) + 1 /\ g[(i - 1) + 1] = s[i]
        /\ \A j \in 1 .. i - 1 : g[j] = f[j]
    BY <1>1, <2>2, <2>3, AppendFacts
  <2>5. F[i] = g /\ i \in 0 .. Len(s)
    BY <1>1, <1>3, <2>1, <2>3
  <2>6. \A j \in 1 .. i : g[j] = s[j]
    <3>1. g[i] = s[i]
      BY <2>4
    <3>2. \A j \in 1 .. i : j \in 1 .. i - 1 \/ j = i
      OBVIOUS
    <3> QED BY <2>2, <2>4, <3>1, <3>2
  <2>7. Len(g) = i
    BY <2>4
  <2> QED BY <2>4, <2>5, <2>6, <2>7
<1> HIDE DEF T
<1>6. \A i \in 0 .. Len(s) : i \in T
  BY <1>1, <1>4, <1>5, StepByStep
<1>7. F[Len(s)] \in Seq(Pub) /\ Len(F[Len(s)]) = Len(s) /\ \A j \in 1 .. Len(s) : F[Len(s)][j] = s[j]
  BY <1>1, <1>6 DEF T
<1> QED BY <1>1, <1>2, <1>7, SeqEqual
-----------------------------------------------------------------------------
(* The places of the messages.                                             *)

\* Messages with the numbers that follow a.
Run(s, a) == \A i \in 1 .. Len(s) : s[i].packet_id = a + i

\* The messages sent, queued, fetched, in the database, on their way there and
\* buffered are numbered 1 .. n in this order.
InOrder(out, w, f, d, s, b, n) ==
  /\ Run(out, 0)
  /\ Run(w, Len(out))
  /\ Run(f, Len(out) + Len(w))
  /\ Run(d, Len(out) + Len(w) + Len(f))
  /\ Run(s, Len(out) + Len(w) + Len(f) + Len(d))
  /\ Run(b, Len(out) + Len(w) + Len(f) + Len(d) + Len(s))
  /\ n = Len(out) + Len(w) + Len(f) + Len(d) + Len(s) + Len(b)

LEMMA RunConcat ==
  ASSUME NEW s \in Seq(Pub), NEW t \in Seq(Pub), NEW a \in Nat
  PROVE  Run(s \o t, a) <=> Run(s, a) /\ Run(t, a + Len(s))
<1>1. PICK k \in Nat : k = Len(s)
  BY LenProperties
<1>2. PICK l \in Nat : l = Len(t)
  BY LenProperties
<1>3. PICK u : u = s \o t
  OBVIOUS
<1>4. /\ Len(u) = k + l /\ \A i \in 1 .. k : u[i] = s[i]
      /\ \A i \in 1 .. l : u[k + i] = t[i]
  BY <1>1, <1>2, <1>3, ConcatFacts
<1>5. ASSUME Run(u, a) PROVE Run(s, a) /\ Run(t, a + k)
  <2>1. \A i \in 1 .. k + l : u[i].packet_id = a + i
    BY <1>4, <1>5 DEF Run
  <2>2. ASSUME NEW i \in 1 .. k PROVE s[i].packet_id = a + i
    <3>1. i \in 1 .. k + l
      OBVIOUS
    <3> QED BY <1>4, <2>1, <3>1
  <2>3. ASSUME NEW i \in 1 .. l PROVE t[i].packet_id = a + k + i
    <3>1. k + i \in 1 .. k + l
      OBVIOUS
    <3>2. u[k + i].packet_id = a + (k + i)
      BY <2>1, <3>1
    <3> QED BY <1>4, <3>2
  <2> QED BY <1>1, <1>2, <2>2, <2>3 DEF Run
<1>6. ASSUME Run(s, a), Run(t, a + k) PROVE Run(u, a)
  <2>1. /\ \A i \in 1 .. k : s[i].packet_id = a + i
        /\ \A i \in 1 .. l : t[i].packet_id = a + k + i
    BY <1>1, <1>2, <1>6 DEF Run
  <2>2. SUFFICES ASSUME NEW i \in 1 .. k + l PROVE u[i].packet_id = a + i
    BY <1>4 DEF Run
  <2>3. CASE i \in 1 .. k
    BY <1>4, <2>1, <2>3
  <2>4. CASE i \in k + 1 .. k + l
    <3>1. PICK j \in 1 .. l : i = k + j
      BY <2>4
    <3>2. u[k + j].packet_id = a + k + j
      BY <1>4, <2>1
    <3>3. a + k + j = a + i
      BY <3>1
    <3> QED BY <3>1, <3>2, <3>3, Zenon
  <2> QED BY <2>3, <2>4
<1> QED BY <1>1, <1>3, <1>5, <1>6, Zenon

LEMMA RunEmpty == \A a : Run(<<>>, a)
BY DEF Run

\* Where a place of the six ends.
LEMMA Lengths ==
  ASSUME NEW out \in Seq(Pub), NEW w \in Seq(Pub), NEW f \in Seq(Pub), NEW d \in Seq(Pub),
         NEW s \in Seq(Pub), NEW b \in Seq(Pub), NEW n, InOrder(out, w, f, d, s, b, n)
  PROVE  /\ Len(out) \in Nat /\ Len(w) \in Nat /\ Len(f) \in Nat /\ Len(d) \in Nat
         /\ Len(s) \in Nat /\ Len(b) \in Nat /\ n \in Nat
<1>1. /\ Len(out) \in Nat /\ Len(w) \in Nat /\ Len(f) \in Nat /\ Len(d) \in Nat
      /\ Len(s) \in Nat /\ Len(b) \in Nat
  BY LenProperties
<1> QED BY <1>1 DEF InOrder

\* Packets of the queue are sent.
LEMMA OrderSend ==
  ASSUME NEW out \in Seq(Pub), NEW w \in Seq(Pub), NEW f \in Seq(Pub), NEW d \in Seq(Pub),
         NEW s \in Seq(Pub), NEW b \in Seq(Pub), NEW n, NEW w1 \in Seq(Pub), NEW w2 \in Seq(Pub),
         w = w1 \o w2, InOrder(out, w, f, d, s, b, n)
  PROVE  InOrder(out \o w1, w2, f, d, s, b, n)
<1>1. PICK o \in Nat : o = Len(out)
  BY LenProperties
<1>2. PICK k1 \in Nat : k1 = Len(w1)
  BY LenProperties
<1>3. PICK k2 \in Nat : k2 = Len(w2)
  BY LenProperties
<1>4. Len(w) = k1 + k2 /\ Len(out \o w1) = o + k1
  BY <1>1, <1>2, <1>3, ConcatFacts
<1>5. Run(out, 0) /\ Run(w1 \o w2, o)
  BY <1>1 DEF InOrder
<1>6. Run(w1, o) /\ Run(w2, o + k1)
  BY <1>2, <1>5, RunConcat
<1>7. Run(out \o w1, 0)
  <2>1. 0 + o = o /\ 0 \in Nat
    OBVIOUS
  <2> QED BY <1>1, <1>5, <1>6, <2>1, RunConcat
<1>8. /\ Len(f) \in Nat /\ Len(d) \in Nat /\ Len(s) \in Nat /\ Len(b) \in Nat
  BY LenProperties
<1>9. (o + k1) + k2 = o + (k1 + k2)
  OBVIOUS
<1> QED BY <1>1, <1>3, <1>4, <1>6, <1>7, <1>8, <1>9 DEF InOrder

\* A message is put into the queue while there is none behind it.
LEMMA OrderQueue ==
  ASSUME NEW out \in Seq(Pub), NEW w \in Seq(Pub), NEW n, NEW p \in Pub, p.packet_id = n + 1,
         InOrder(out, w, <<>>, <<>>, <<>>, <<>>, n)
  PROVE  InOrder(out, w \o <<p>>, <<>>, <<>>, <<>>, <<>>, n + 1)
<1>1. PICK o \in Nat : o = Len(out)
  BY LenProperties
<1>2. PICK k \in Nat : k = Len(w)
  BY LenProperties
<1>3. Run(out, 0) /\ Run(w, o) /\ n = o + k
  BY <1>1, <1>2 DEF InOrder
<1>4. PICK one \in Seq(Pub) : one = <<p>> /\ Len(one) = 1 /\ one[1] = p
  BY SingleFacts
<1>5. Run(one, o + k)
  BY <1>3, <1>4 DEF Run
<1>6. Run(w \o one, o)
  BY <1>2, <1>3, <1>5, RunConcat
<1>7. Len(w \o one) = k + 1
  BY <1>2, <1>4, ConcatFacts
<1>8. Len(<<>>) = 0
  OBVIOUS
<1> QED BY <1>1, <1>3, <1>4, <1>6, <1>7, <1>8, RunEmpty DEF InOrder

\* A message is put into the buffer.
LEMMA OrderBuffer ==
  ASSUME NEW out \in Seq(Pub), NEW w \in Seq(Pub), NEW f \in Seq(Pub), NEW d \in Seq(Pub),
         NEW s \in Seq(Pub), NEW b \in Seq(Pub), NEW n, NEW p \in Pub, p.packet_id = n + 1,
         InOrder(out, w, f, d, s, b, n)
  PROVE  InOrder(out, w, f, d, s, Append(b, p), n + 1)
<1>1. /\ Len(out) \in Nat /\ Len(w) \in Nat /\ Len(f) \in Nat /\ Len(d) \in Nat
      /\ Len(s) \in Nat /\ Len(b) \in Nat
  BY LenProperties
<1>2. PICK a \in Nat : a = Len(out) + Len(w) + Len(f) + Len(d) + Len(s)
  BY <1>1
<1>3. Run(b, a) /\ n = a + Len(b)
  BY <1>2 DEF InOrder
<1>4. PICK c : c = Append(b, p)
  OBVIOUS
<1>5. Len(c) = Len(b) + 1 /\ c[Len(b) + 1] = p /\ \A i \in 1 .. Len(b) : c[i] = b[i]
  BY <1>4, AppendFacts
<1>6. Run(c, a)
  <2>1. SUFFICES ASSUME NEW i \in 1 .. Len(b) + 1 PROVE c[i].packet_id = a + i
    BY <1>5 DEF Run
  <2>2. CASE i \in 1 .. Len(b)
    BY <1>3, <1>5, <2>2 DEF Run
  <2>3. CASE i = Len(b) + 1
    BY <1>1, <1>3, <1>5, <2>3
  <2> QED BY <1>1, <2>2, <2>3
<1>7. n + 1 = a + Len(c)
  BY <1>1, <1>3, <1>5
<1> QED BY <1>2, <1>4, <1>6, <1>7 DEF InOrder

\* The buffer is handed to a task.
LEMMA OrderStoring ==
  ASSUME NEW out \in Seq(Pub), NEW w \in Seq(Pub), NEW f \in Seq(Pub), NEW d \in Seq(Pub),
         NEW b \in Seq(Pub), NEW n, InOrder(out, w, f, d, <<>>, b, n)
  PROVE  InOrder(out, w, f, d, b, <<>>, n)
<1>1. /\ Len(out) \in Nat /\ Len(w) \in Nat /\ Len(f) \in Nat /\ Len(d) \in Nat /\ Len(b) \in Nat
  BY LenProperties
<1>2. Len(<<>>) = 0
  OBVIOUS
<1> QED BY <1>1, <1>2, RunEmpty DEF InOrder

\* The task stores its packets.
LEMMA OrderStored ==
  ASSUME NEW out \in Seq(Pub), NEW w \in Seq(Pub), NEW f \in Seq(Pub), NEW d \in Seq(Pub),
         NEW s \in Seq(Pub), NEW b \in Seq(Pub), NEW n, InOrder(out, w, f, d, s, b, n)
  PROVE  InOrder(out, w, f, d \o s, <<>>, b, n)
<1>1. /\ Len(out) \in Nat /\ Len(w) \in Nat /\ Len(f) \in Nat /\ Len(d) \in Nat
      /\ Len(s) \in Nat /\ Len(b) \in Nat
  BY LenProperties
<1>2. PICK a \in Nat : a = Len(out) + Len(w) + Len(f)
  BY <1>1
<1>3. Run(d, a) /\ Run(s, a + Len(d)) /\ Run(b, a + Len(d) + Len(s)) /\ n = a + Len(d) + Len(s) + Len(b)
  BY <1>2 DEF InOrder
<1>4. Run(d \o s, a) /\ Len(d \o s) = Len(d) + Len(s)
  BY <1>3, RunConcat, ConcatFacts
<1>5. Len(<<>>) = 0
  OBVIOUS
<1>6. a + (Len(d) + Len(s)) + 0 = a + Len(d) + Len(s)
  BY <1>1
<1> QED BY <1>1, <1>2, <1>3, <1>4, <1>5, <1>6, RunEmpty DEF InOrder

\* A task fetches the oldest packets of the database.
LEMMA OrderFetch ==
  ASSUME NEW out \in Seq(Pub), NEW w \in Seq(Pub), NEW d \in Seq(Pub), NEW s \in Seq(Pub),
         NEW b \in Seq(Pub), NEW n, NEW d1 \in Seq(Pub), NEW d2 \in Seq(Pub), d = d1 \o d2,
         InOrder(out, w, <<>>, d, s, b, n)
  PROVE  InOrder(out, w, d1, d2, s, b, n)
<1>1. /\ Len(out) \in Nat /\ Len(w) \in Nat /\ Len(d1) \in Nat /\ Len(d2) \in Nat
      /\ Len(s) \in Nat /\ Len(b) \in Nat /\ Len(d) = Len(d1) + Len(d2)
  BY LenProperties, ConcatFacts
<1>2. PICK a \in Nat : a = Len(out) + Len(w)
  BY <1>1
<1>3. Len(<<>>) = 0 /\ a + 0 = a
  OBVIOUS
<1>4. Run(d1 \o d2, a)
  BY <1>2, <1>3 DEF InOrder
<1>5. Run(d1, a) /\ Run(d2, a + Len(d1))
  BY <1>4, RunConcat
<1>6. a + 0 + Len(d) = a + Len(d1) + Len(d2)
  BY <1>1
<1> QED BY <1>1, <1>2, <1>3, <1>5, <1>6 DEF InOrder

\* The fetched packets become the queue.
LEMMA OrderFetched ==
  ASSUME NEW out \in Seq(Pub), NEW f \in Seq(Pub), NEW d \in Seq(Pub),
         NEW s \in Seq(Pub), NEW b \in Seq(Pub), NEW n, InOrder(out, <<>>, f, d, s, b, n)
  PROVE  InOrder(out, f, <<>>, d, s, b, n)
<1>1. /\ Len(out) \in Nat /\ Len(f) \in Nat /\ Len(d) \in Nat /\ Len(s) \in Nat /\ Len(b) \in Nat
  BY LenProperties
<1>2. Len(<<>>) = 0
  OBVIOUS
<1> QED BY <1>1, <1>2, RunEmpty DEF InOrder

\* The buffer becomes the queue.
LEMMA OrderUse ==
  ASSUME NEW out \in Seq(Pub), NEW b \in Seq(Pub), NEW n, InOrder(out, <<>>, <<>>, <<>>, <<>>, b, n)
  PROVE  InOrder(out, b, <<>>, <<>>, <<>>, <<>>, n)
<1>1. Len(out) \in Nat /\ Len(b) \in Nat
  BY LenProperties
<1>2. Len(<<>>) = 0
  OBVIOUS
<1> QED BY <1>1, <1>2, RunEmpty DEF InOrder
-----------------------------------------------------------------------------
(* The sending queue.                                                      *)

Mems == [queue : Seq(Pkts), pending : Nat, inflight : Nat]
AckRecs == [ack : {"PUBACK", "PUBREC", "PUBCOMP"}, packet_id : Nat]

\* The acknowledgements due are those of the packets in flight, in their order.
DueOK(acks, mem) ==
  /\ acks \in Seq(AckRecs)
  /\ Len(acks) = mem.inflight
  /\ \A i \in 1 .. mem.inflight : acks[i] = AckOf(mem.queue[i])

LEMMA AckOfType == \A p \in Pkts : AckOf(p) \in AckRecs
BY DEF AckOf, AckRecs, Pkts, Pub, Rel

\* The packets that wait in a well-formed store are those behind the ones in flight.
LEMMA WaitingIs ==
  ASSUME NEW mem \in Mems, WellFormed(mem)
  PROVE  /\ mem.queue \in Seq(Pkts) /\ mem.inflight \in 0 .. Len(mem.queue) /\ Len(mem.queue) \in Nat
         /\ Waiting(mem) \in Seq(Pkts)
         /\ Len(Waiting(mem)) = Len(mem.queue) - mem.inflight
         /\ \A i \in 1 .. Len(mem.queue) - mem.inflight : Waiting(mem)[i] = mem.queue[mem.inflight + i]
         /\ mem = [queue |-> mem.queue, pending |-> mem.pending, inflight |-> mem.inflight]
         /\ mem.pending \in Nat
<1>1. PICK q \in Seq(Pkts) : q = mem.queue
  BY DEF Mems
<1>2. PICK l \in Nat : l = Len(q)
  BY LenProperties
<1>3. PICK k \in Nat : k = mem.inflight
  BY DEF Mems
<1>4. k \in 0 .. l /\ mem.pending = IF l > k THEN k + 1 ELSE 0
  BY <1>1, <1>2, <1>3 DEF WellFormed
<1>5. PICK r : r = SubSeq(q, k + 1, Len(q))
  OBVIOUS
<1>6. r \in Seq(Pkts) /\ Len(r) = l - k /\ \A i \in 1 .. l - k : r[i] = q[k + i]
  BY <1>2, <1>4, <1>5, RestFacts
<1>7. Waiting(mem) = r
  <2>1. CASE l > k
    <3>1. mem.pending = k + 1 /\ mem.pending # 0
      BY <1>4, <2>1
    <3> QED BY <1>1, <1>5, <3>1 DEF Waiting
  <2>2. CASE l = k
    <3>1. Len(r) = 0
      BY <1>6, <2>2
    <3>2. r = <<>>
      BY <1>6, <3>1, EmptyFacts
    <3>3. mem.pending = 0
      BY <1>4, <2>2
    <3> QED BY <3>2, <3>3 DEF Waiting
  <2> QED BY <1>4, <2>1, <2>2
<1>8. mem = [queue |-> mem.queue, pending |-> mem.pending, inflight |-> mem.inflight]
        /\ mem.pending \in Nat
  BY DEF Mems
<1> QED BY <1>1, <1>2, <1>3, <1>4, <1>6, <1>7, <1>8

\* memory_store_store_message: the packet is sent at once, and then nothing
\* waits, or it waits behind the others.
AtOnce(mem, p) == IF SendNow(mem) THEN <<p>> ELSE <<>>

Queued(mem, p, acks, mm, sends) ==
  /\ mm \in Mems /\ WellFormed(mm) /\ Len(mm.queue) = Len(mem.queue) + 1
  /\ sends \in Seq(Pkts)
  /\ Waiting(mem) \o <<p>> = sends \o Waiting(mm)
  /\ DueOK(acks \o Acks(sends), mm)

LEMMA MemStore ==
  ASSUME NEW mem \in Mems, WellFormed(mem), NEW p \in Pkts, NEW acks, DueOK(acks, mem)
  PROVE  Queued(mem, p, acks, StoreMessage(mem, p), AtOnce(mem, p))
<1>a. PICK mm : mm = StoreMessage(mem, p)
  OBVIOUS
<1>b. PICK sends : sends = AtOnce(mem, p)
  OBVIOUS
<1>c. SUFFICES Queued(mem, p, acks, mm, sends)
  BY <1>a, <1>b
<1>1. PICK q \in Seq(Pkts) : q = mem.queue
  BY DEF Mems
<1>2. PICK l \in Nat : l = Len(q)
  BY LenProperties
<1>3. PICK k \in Nat : k = mem.inflight
  BY DEF Mems
<1>4. PICK w \in Seq(Pkts) : w = Waiting(mem)
  BY WaitingIs
<1>5. /\ k \in 0 .. l /\ Len(w) = l - k /\ \A i \in 1 .. l - k : w[i] = q[k + i]
      /\ k <= inflight_window_size
      /\ l > k => k = inflight_window_size
      /\ mem.pending = IF l > k THEN k + 1 ELSE 0
      /\ inflight_window_size \in Nat
  <2>1. /\ mem.inflight \in 0 .. Len(mem.queue)
        /\ Len(Waiting(mem)) = Len(mem.queue) - mem.inflight
        /\ \A i \in 1 .. Len(mem.queue) - mem.inflight : Waiting(mem)[i] = mem.queue[mem.inflight + i]
    BY WaitingIs
  <2>2. k \in 0 .. l /\ Len(w) = l - k /\ \A i \in 1 .. l - k : w[i] = q[k + i]
    BY <1>1, <1>2, <1>3, <1>4, <2>1
  <2>3. /\ k <= inflight_window_size
        /\ l > k => k = inflight_window_size
        /\ mem.pending = IF l > k THEN k + 1 ELSE 0
    BY <1>1, <1>2, <1>3 DEF WellFormed
  <2> QED BY <2>2, <2>3, WindowAssumption
<1>6. PICK r : r = Append(q, p)
  OBVIOUS
<1>7. r \in Seq(Pkts) /\ Len(r) = l + 1 /\ r[l + 1] = p /\ \A i \in 1 .. l : r[i] = q[i]
  BY <1>2, <1>6, AppendFacts
<1>8. acks \in Seq(AckRecs) /\ Len(acks) = k /\ \A i \in 1 .. k : acks[i] = AckOf(q[i])
  BY <1>1, <1>3 DEF DueOK
<1>9. CASE k < inflight_window_size
  <2>1. l = k /\ mem.pending = 0
    BY <1>5, <1>9
  <2>2. mm = [queue |-> r, pending |-> 0, inflight |-> k + 1] /\ sends = <<p>>
    BY <1>1, <1>3, <1>6, <1>9, <1>a, <1>b, <2>1 DEF StoreMessage, SendNow, AtOnce
  <2>3. mm \in Mems /\ mm.queue = r /\ mm.inflight = k + 1 /\ mm.pending = 0
    BY <1>7, <2>2 DEF Mems
  <2>4. WellFormed(mm)
    BY <1>5, <1>7, <1>9, <2>1, <2>3 DEF WellFormed
  <2>5. w = <<>> /\ Waiting(mm) = <<>>
    <3>1. Len(w) = 0
      BY <1>5, <2>1
    <3>2. w = <<>>
      BY <3>1, EmptyFacts
    <3> QED BY <2>3, <3>2 DEF Waiting
  <2>6. sends \in Seq(Pkts) /\ <<>> \o <<p>> = <<p>> /\ <<p>> \o <<>> = <<p>>
    BY <2>2
  <2>7. PICK b : b = Acks(sends)
    OBVIOUS
  <2>8. b \in Seq(AckRecs) /\ Len(b) = 1 /\ b[1] = AckOf(p)
    <3>1. b = <<AckOf(p)>>
      BY <2>2, <2>7 DEF Acks
    <3> QED BY <3>1, AckOfType
  <2>9. /\ acks \o b \in Seq(AckRecs) /\ Len(acks \o b) = Len(acks) + Len(b)
        /\ \A i \in 1 .. Len(acks) : (acks \o b)[i] = acks[i]
        /\ \A i \in 1 .. Len(b) : (acks \o b)[Len(acks) + i] = b[i]
    <3>1. acks \in Seq(AckRecs) /\ b \in Seq(AckRecs)
      BY <1>8, <2>8
    <3> QED BY <3>1, ConcatFacts
  <2>10. DueOK(acks \o b, mm)
    <3>1. Len(acks \o b) = k + 1
      BY <1>8, <2>8, <2>9
    <3>2. (acks \o b)[k + 1] = AckOf(p) /\ r[k + 1] = p
      BY <1>7, <1>8, <2>1, <2>8, <2>9
    <3>3. \A i \in 1 .. k : (acks \o b)[i] = AckOf(r[i])
      BY <1>5, <1>7, <1>8, <2>1, <2>9
    <3>4. \A i \in 1 .. k + 1 : i \in 1 .. k \/ i = k + 1
      OBVIOUS
    <3>5. \A i \in 1 .. k + 1 : (acks \o b)[i] = AckOf(r[i])
      BY <3>2, <3>3, <3>4
    <3> QED BY <2>3, <2>9, <3>1, <3>5 DEF DueOK
  <2>11. Len(mm.queue) = Len(mem.queue) + 1
    BY <1>1, <1>2, <1>7, <2>3
  <2> QED BY <1>4, <2>2, <2>3, <2>4, <2>5, <2>6, <2>7, <2>10, <2>11 DEF Queued
<1>10. CASE k >= inflight_window_size
  <2>1. ~ SendNow(mem) /\ sends = <<>> /\ k = inflight_window_size
    BY <1>3, <1>5, <1>10, <1>b DEF SendNow, AtOnce
  <2>2. mm = [queue |-> r, pending |-> k + 1, inflight |-> k]
    <3>1. IF mem.pending = 0 THEN l + 1 = k + 1 ELSE mem.pending = k + 1
      BY <1>5
    <3> QED BY <1>1, <1>3, <1>6, <1>7, <1>a, <2>1, <3>1 DEF StoreMessage
  <2>3. mm \in Mems /\ mm.queue = r /\ mm.inflight = k /\ mm.pending = k + 1
    BY <1>7, <2>2 DEF Mems
  <2>4. WellFormed(mm)
    BY <1>5, <1>7, <2>1, <2>3 DEF WellFormed
  <2>5. PICK v \in Seq(Pkts) : v = Waiting(mm)
    BY <2>3, <2>4, WaitingIs
  <2>6. Len(v) = (l + 1) - k /\ \A i \in 1 .. (l + 1) - k : v[i] = r[k + i]
    <3>1. /\ Len(Waiting(mm)) = Len(mm.queue) - mm.inflight
          /\ \A i \in 1 .. Len(mm.queue) - mm.inflight : Waiting(mm)[i] = mm.queue[mm.inflight + i]
      BY <2>3, <2>4, WaitingIs
    <3> QED BY <1>7, <2>3, <2>5, <3>1
  <2>7. PICK u : u = w \o <<p>>
    OBVIOUS
  <2>8. u \in Seq(Pkts) /\ Len(u) = (l - k) + 1 /\ u[(l - k) + 1] = p /\ \A i \in 1 .. l - k : u[i] = w[i]
    <3>1. PICK one \in Seq(Pkts) : one = <<p>> /\ Len(one) = 1 /\ one[1] = p
      BY SingleFacts
    <3>2. PICK n \in Nat : n = Len(w) /\ n = l - k
      BY <1>5
    <3>3. /\ w \o one \in Seq(Pkts) /\ Len(w \o one) = n + 1
          /\ \A i \in 1 .. n : (w \o one)[i] = w[i]
          /\ \A i \in 1 .. 1 : (w \o one)[n + i] = one[i]
      <4>1. /\ w \o one \in Seq(Pkts) /\ Len(w \o one) = Len(w) + Len(one)
            /\ \A i \in 1 .. Len(w) : (w \o one)[i] = w[i]
            /\ \A i \in 1 .. Len(one) : (w \o one)[Len(w) + i] = one[i]
        BY ConcatFacts
      <4> QED BY <3>1, <3>2, <4>1
    <3>4. (w \o one)[n + 1] = p
      BY <3>1, <3>3
    <3> QED BY <2>7, <3>1, <3>2, <3>3, <3>4
  <2>9. u = v
    <3>1. Len(u) = Len(v) /\ Len(v) = (l - k) + 1
      BY <1>5, <2>6, <2>8
    <3>2. ASSUME NEW i \in 1 .. l - k PROVE u[i] = v[i]
      <4>1. k + i \in 1 .. l /\ i \in 1 .. (l + 1) - k
        BY <1>5
      <4>2. u[i] = q[k + i] /\ v[i] = r[k + i] /\ r[k + i] = q[k + i]
        BY <1>5, <1>7, <2>6, <2>8, <4>1
      <4> QED BY <4>2
    <3>3. u[(l - k) + 1] = v[(l - k) + 1]
      <4>0. k \in 0 .. l
        BY <1>5
      <4>1. PICK j \in 1 .. (l + 1) - k : j = (l - k) + 1 /\ k + j = l + 1
        BY <4>0
      <4>2. v[j] = r[k + j]
        BY <2>6, <4>1
      <4> QED BY <1>7, <2>8, <4>1, <4>2
    <3>4. \A i \in 1 .. (l - k) + 1 : i \in 1 .. l - k \/ i = (l - k) + 1
      BY <1>5
    <3>5. \A i \in 1 .. Len(u) : u[i] = v[i]
      BY <3>1, <3>2, <3>3, <3>4
    <3> QED BY <2>8, <3>1, <3>5, SeqEqual
  <2>10. <<>> \in Seq(Pkts) /\ <<>> \o v = v
    BY EmptyFacts
  <2>11. Acks(sends) = <<>> /\ acks \o <<>> = acks
    <3>1. Acks(<<>>) = <<>>
      BY DEF Acks
    <3> QED BY <1>8, <2>1, <3>1, EmptyFacts
  <2>12. DueOK(acks, mm)
    <3>1. \A i \in 1 .. k : r[i] = q[i]
      BY <1>5, <1>7
    <3> QED BY <1>8, <2>3, <3>1 DEF DueOK
  <2>13. Len(mm.queue) = Len(mem.queue) + 1
    BY <1>1, <1>2, <1>7, <2>3
  <2>14. Waiting(mem) \o <<p>> = sends \o Waiting(mm)
    BY <1>4, <2>1, <2>5, <2>7, <2>9, <2>10, Zenon
  <2>15. sends \in Seq(Pkts) /\ DueOK(acks \o Acks(sends), mm)
    BY <2>1, <2>10, <2>11, <2>12, Zenon
  <2> QED BY <2>3, <2>4, <2>13, <2>14, <2>15 DEF Queued
<1>11. k < inflight_window_size \/ k >= inflight_window_size
  BY <1>5
<1> QED BY <1>9, <1>10, <1>11

\* Unlinking the first node.
LEMMA FirstRemoved ==
  ASSUME NEW q \in Seq(Pkts), q # <<>>
  PROVE  /\ RemoveAt(q, 1) \in Seq(Pkts) /\ Len(q) \in Nat \ {0}
         /\ Len(RemoveAt(q, 1)) = Len(q) - 1
         /\ \A i \in 1 .. Len(q) - 1 : RemoveAt(q, 1)[i] = q[i + 1]
<1>1. Len(q) \in Nat \ {0}
  BY EmptyFacts
<1>2. 1 \in 0 .. Len(q) /\ 0 \in 0 .. Len(q) /\ 1 - 1 = 0
  BY <1>1
<1>3. PICK r : r = SubSeq(q, 1 + 1, Len(q))
  OBVIOUS
<1>4. r \in Seq(Pkts) /\ Len(r) = Len(q) - 1 /\ \A i \in 1 .. Len(q) - 1 : r[i] = q[1 + i]
  BY <1>2, <1>3, RestFacts
<1>5. SubSeq(q, 1, 0) = <<>>
  <2>1. SubSeq(q, 1, 0) \in Seq(Pkts) /\ Len(SubSeq(q, 1, 0)) = 0
    BY <1>2, FrontFacts
  <2> QED BY <2>1, EmptyFacts
<1>6. <<>> \o r = r
  BY <1>4, EmptyFacts
<1>7. RemoveAt(q, 1) = r
  BY <1>2, <1>3, <1>5, <1>6 DEF RemoveAt
<1>8. \A i \in 1 .. Len(q) - 1 : 1 + i = i + 1
  BY <1>1
<1> QED BY <1>1, <1>4, <1>7, <1>8

\* The packet an acknowledgement is about, as the handlers ask for it.
Answers(ack, type, qos) ==
  \/ ack = "PUBACK" /\ type = "PUBLISH" /\ qos = 1
  \/ ack = "PUBREC" /\ type = "PUBLISH" /\ qos = 2
  \/ ack = "PUBCOMP" /\ type = "PUBREL" /\ qos = -1

\* The acknowledgement that comes first is that of the first packet.
LEMMA FirstAcknowledged ==
  ASSUME NEW mem \in Mems, WellFormed(mem), NEW acks, DueOK(acks, mem), acks # <<>>,
         NEW type, NEW qos, Answers(Head(acks).ack, type, qos)
  PROVE  /\ mem.inflight >= 1
         /\ Acknowledged(mem, Head(acks).packet_id, type, qos) # {}
         /\ FirstOf(Acknowledged(mem, Head(acks).packet_id, type, qos)) = 1
<1>1. PICK q \in Seq(Pkts) : q = mem.queue
  BY DEF Mems
<1>2. Len(q) \in Nat /\ mem.inflight \in 0 .. Len(q)
  BY <1>1, WaitingIs
<1>3. acks \in Seq(AckRecs) /\ Len(acks) = mem.inflight
  BY DEF DueOK
<1>4. Len(acks) # 0 /\ Head(acks) = acks[1]
  BY <1>3, EmptyFacts, HeadTailProperties
<1>5. mem.inflight >= 1 /\ 1 \in 1 .. mem.inflight /\ 1 \in 1 .. Len(q)
  BY <1>2, <1>3, <1>4
<1>6. Head(acks) = AckOf(q[1]) /\ q[1] \in Pkts
  BY <1>1, <1>4, <1>5, ElementOfSeq DEF DueOK
<1>7. PICK p \in Pkts : p = q[1]
  BY <1>6
<1>8. p.packet_id = Head(acks).packet_id /\ p.type = type /\ (type = "PUBLISH" => p.qos = qos)
  <2>1. Answers(AckOf(p).ack, type, qos)
    BY <1>6, <1>7
  <2>2. AckOf(p).packet_id = p.packet_id
    BY DEF AckOf
  <2>3. CASE p \in Pub
    <3>1. p.type = "PUBLISH" /\ p.qos \in {1, 2}
      BY <2>3 DEF Pub
    <3>2. AckOf(p).ack = IF p.qos = 1 THEN "PUBACK" ELSE "PUBREC"
      BY <3>1 DEF AckOf
    <3> QED BY <1>6, <1>7, <2>1, <2>2, <3>1, <3>2 DEF Answers
  <2>4. CASE p \in Rel
    <3>1. p.type = "PUBREL"
      BY <2>4 DEF Rel
    <3>2. AckOf(p).ack = "PUBCOMP"
      BY <3>1 DEF AckOf
    <3> QED BY <1>6, <1>7, <2>1, <2>2, <3>1, <3>2 DEF Answers
  <2> QED BY <2>3, <2>4 DEF Pkts
<1>9. PICK A : A = Acknowledged(mem, Head(acks).packet_id, type, qos)
  OBVIOUS
<1>10. 1 \in A /\ A \subseteq 1 .. Len(q)
  BY <1>1, <1>5, <1>7, <1>8, <1>9 DEF Acknowledged
<1>11. \A j \in A : 1 <= j
  BY <1>2, <1>10
<1>12. FirstOf(A) = 1
  <2>1. FirstOf(A) \in A /\ \A j \in A : FirstOf(A) <= j
    BY <1>10, <1>11, Zenon DEF FirstOf
  <2>2. FirstOf(A) \in 1 .. Len(q) /\ FirstOf(A) <= 1
    BY <1>10, <2>1
  <2> QED BY <1>2, <2>2
<1> QED BY <1>5, <1>9, <1>10, <1>12

\* memory_store_acknowledge, for the acknowledgement due: the first packet goes, and
\* the first that waits is sent.
Shifted(mem, acks, mm, next) ==
  /\ mm \in Mems /\ WellFormed(mm) /\ Len(mm.queue) = Len(mem.queue) - 1
  /\ next \in Seq(Pkts) /\ (mm.queue = <<>> => next = <<>>)
  /\ Waiting(mem) = next \o Waiting(mm)
  /\ DueOK(Tail(acks) \o Acks(next), mm)

LEMMA MemAck ==
  ASSUME NEW mem \in Mems, WellFormed(mem), NEW acks, DueOK(acks, mem), acks # <<>>,
         NEW type, NEW qos, Answers(Head(acks).ack, type, qos), NEW id, id = Head(acks).packet_id
  PROVE  /\ Acknowledged(mem, id, type, qos) # {}
         /\ Shifted(mem, acks, Acknowledge(mem, id, type, qos), NextToSend(mem, id, type, qos))
<1>a. PICK mm : mm = Acknowledge(mem, id, type, qos)
  OBVIOUS
<1>b. PICK next : next = NextToSend(mem, id, type, qos)
  OBVIOUS
<1>c. SUFFICES Acknowledged(mem, id, type, qos) # {} /\ Shifted(mem, acks, mm, next)
  BY <1>a, <1>b
<1>1. PICK q \in Seq(Pkts) : q = mem.queue
  BY DEF Mems
<1>2. PICK l \in Nat : l = Len(q)
  BY LenProperties
<1>3. PICK k \in Nat : k = mem.inflight
  BY DEF Mems
<1>4. PICK w \in Seq(Pkts) : w = Waiting(mem)
  BY WaitingIs
<1>5. /\ Acknowledged(mem, id, type, qos) # {}
      /\ FirstOf(Acknowledged(mem, id, type, qos)) = 1
      /\ k >= 1
  <2>1. /\ mem.inflight >= 1
        /\ Acknowledged(mem, Head(acks).packet_id, type, qos) # {}
        /\ FirstOf(Acknowledged(mem, Head(acks).packet_id, type, qos)) = 1
    BY FirstAcknowledged
  <2> QED BY <1>3, <2>1
<1>6. k \in 1 .. l /\ Len(w) = l - k /\ \A i \in 1 .. l - k : w[i] = q[k + i]
  <2>1. /\ mem.inflight \in 0 .. Len(mem.queue)
        /\ Len(Waiting(mem)) = Len(mem.queue) - mem.inflight
        /\ \A i \in 1 .. Len(mem.queue) - mem.inflight : Waiting(mem)[i] = mem.queue[mem.inflight + i]
    BY WaitingIs
  <2>2. k \in 0 .. l /\ Len(w) = l - k /\ \A i \in 1 .. l - k : w[i] = q[k + i]
    BY <1>1, <1>2, <1>3, <1>4, <2>1
  <2>3. k \in 1 .. l
    BY <1>5, <2>2
  <2> QED BY <2>2, <2>3
<1>7. /\ k <= inflight_window_size /\ inflight_window_size \in Nat
      /\ l > k => k = inflight_window_size
      /\ mem.pending = IF l > k THEN k + 1 ELSE 0
  BY <1>1, <1>2, <1>3, WindowAssumption DEF WellFormed
<1>8. PICK r : r = RemoveAt(q, 1)
  OBVIOUS
<1>9. r \in Seq(Pkts) /\ Len(r) = l - 1 /\ \A i \in 1 .. l - 1 : r[i] = q[i + 1]
  <2>1. q # <<>>
    BY <1>2, <1>6, EmptyFacts
  <2> QED BY <1>2, <1>8, <2>1, FirstRemoved
<1>10. mm = Shift(mem, 1)
  BY <1>5, <1>a DEF Acknowledge
<1>11. PICK b : b = Tail(acks)
  OBVIOUS
<1>12. b \in Seq(AckRecs) /\ Len(b) = k - 1 /\ \A i \in 1 .. k - 1 : b[i] = AckOf(q[i + 1])
  <2>1. acks \in Seq(AckRecs) /\ Len(acks) = k /\ \A i \in 1 .. k : acks[i] = AckOf(q[i])
    BY <1>1, <1>3 DEF DueOK
  <2>2. b \in Seq(AckRecs) /\ Len(b) = Len(acks) - 1 /\ \A i \in 1 .. Len(b) : b[i] = acks[i + 1]
    <3>1. acks \in Seq(AckRecs)
      BY <2>1
    <3> QED BY <1>11, <3>1, HeadTailProperties
  <2>3. Len(b) = k - 1
    BY <2>1, <2>2
  <2>4. \A i \in 1 .. k - 1 : i + 1 \in 1 .. k
    BY <1>6
  <2> QED BY <2>1, <2>2, <2>3, <2>4
<1>13. CASE l = k
  <2>1. mem.pending = 0
    BY <1>7, <1>13
  <2>2. mm = [queue |-> r, pending |-> 0, inflight |-> k - 1] /\ next = <<>>
    <3>1. ~ (0 > 1)
      OBVIOUS
    <3> QED BY <1>1, <1>3, <1>8, <1>10, <1>b, <2>1, <3>1 DEF Shift, NextToSend
  <2>3. mm \in Mems /\ mm.queue = r /\ mm.inflight = k - 1 /\ mm.pending = 0
    BY <1>6, <1>9, <2>2 DEF Mems
  <2>4. WellFormed(mm)
    BY <1>6, <1>7, <1>9, <1>13, <2>3 DEF WellFormed
  <2>5. w = <<>> /\ Waiting(mm) = <<>> /\ <<>> \o <<>> = <<>> /\ <<>> \in Seq(Pkts)
    <3>1. Len(w) = 0
      BY <1>6, <1>13
    <3>2. w = <<>>
      BY <3>1, EmptyFacts
    <3> QED BY <2>3, <3>2 DEF Waiting
  <2>6. b \o Acks(next) = b
    <3>1. Acks(<<>>) = <<>>
      BY DEF Acks
    <3> QED BY <1>12, <2>2, <3>1, EmptyFacts
  <2>7. DueOK(b, mm)
    <3>1. \A i \in 1 .. k - 1 : r[i] = q[i + 1]
      BY <1>9, <1>13
    <3> QED BY <1>12, <2>3, <3>1 DEF DueOK
  <2>8. Len(mm.queue) = Len(mem.queue) - 1
    BY <1>1, <1>2, <1>9, <2>3
  <2>9. next \in Seq(Pkts) /\ Waiting(mem) = next \o Waiting(mm)
    BY <1>4, <2>2, <2>5, Zenon
  <2>10. DueOK(Tail(acks) \o Acks(next), mm)
    BY <1>11, <2>6, <2>7, Zenon
  <2> QED BY <1>5, <2>2, <2>3, <2>4, <2>8, <2>9, <2>10 DEF Shifted
<1>14. CASE l > k
  <2>1. mem.pending = k + 1 /\ k = inflight_window_size /\ k + 1 \in 1 .. l
    BY <1>6, <1>7, <1>14
  <2>2. PICK x \in Pkts : x = q[k + 1]
    BY <1>2, <2>1, ElementOfSeq
  <2>3. /\ mm = [queue |-> r, pending |-> IF k < l - 1 THEN k + 1 ELSE 0, inflight |-> k]
        /\ next = <<x>>
    <3>1. k + 1 > 1 /\ (k + 1) - 1 = k /\ k # 0 /\ k + 1 # 0
      BY <1>6
    <3>2. next = <<x>>
      BY <1>1, <1>5, <1>b, <2>1, <2>2, <3>1 DEF NextToSend
    <3> QED BY <1>1, <1>3, <1>8, <1>9, <1>10, <2>1, <3>1, <3>2 DEF Shift
  <2>4. mm \in Mems /\ mm.queue = r /\ mm.inflight = k /\ mm.pending = IF k < l - 1 THEN k + 1 ELSE 0
    BY <1>9, <2>3 DEF Mems
  <2>5. WellFormed(mm)
    <3>1. /\ k <= inflight_window_size /\ k <= l - 1
          /\ (IF k < l - 1 THEN k + 1 ELSE 0) = (IF l - 1 > k THEN k + 1 ELSE 0)
      BY <1>6, <1>14, <2>1, <1>7
    <3>2. Len(mm.queue) = l - 1
      BY <1>9, <2>4
    <3> QED BY <2>1, <2>4, <3>1, <3>2 DEF WellFormed
  <2>6. PICK v \in Seq(Pkts) : v = Waiting(mm)
    BY <2>4, <2>5, WaitingIs
  <2>7. Len(v) = (l - 1) - k /\ \A i \in 1 .. (l - 1) - k : v[i] = r[k + i]
    <3>1. /\ Len(Waiting(mm)) = Len(mm.queue) - mm.inflight
          /\ \A i \in 1 .. Len(mm.queue) - mm.inflight : Waiting(mm)[i] = mm.queue[mm.inflight + i]
      BY <2>4, <2>5, WaitingIs
    <3> QED BY <1>9, <2>4, <2>6, <3>1
  <2>8. PICK one \in Seq(Pkts) : one = <<x>> /\ Len(one) = 1 /\ one[1] = x
    BY SingleFacts
  <2>9. PICK u : u = one \o v
    OBVIOUS
  <2>10. /\ u \in Seq(Pkts) /\ Len(u) = 1 + ((l - 1) - k) /\ u[1] = x
         /\ \A i \in 1 .. (l - 1) - k : u[1 + i] = v[i]
    <3>1. /\ one \o v \in Seq(Pkts) /\ Len(one \o v) = Len(one) + Len(v)
          /\ \A i \in 1 .. Len(one) : (one \o v)[i] = one[i]
          /\ \A i \in 1 .. Len(v) : (one \o v)[Len(one) + i] = v[i]
      BY ConcatFacts
    <3> QED BY <2>7, <2>8, <2>9, <3>1
  <2>11. u = w
    <3>1. Len(u) = Len(w) /\ Len(w) = l - k
      BY <1>6, <2>10
    <3>2. u[1] = w[1]
      <4>1. 1 \in 1 .. l - k
        BY <1>14
      <4> QED BY <1>6, <2>2, <2>10, <4>1
    <3>3. ASSUME NEW i \in 2 .. l - k PROVE u[i] = w[i]
      <4>1. PICK j \in 1 .. (l - 1) - k : i = 1 + j
        BY <3>3
      <4>2. k + j \in 1 .. l - 1 /\ (k + j) + 1 = k + (1 + j) /\ 1 + j \in 1 .. l - k
        BY <1>6
      <4>3. u[1 + j] = r[k + j]
        BY <2>7, <2>10
      <4>4. r[k + j] = q[(k + j) + 1]
        BY <1>9, <4>2
      <4>5. w[1 + j] = q[k + (1 + j)]
        BY <1>6, <4>2
      <4> QED BY <4>1, <4>2, <4>3, <4>4, <4>5, Zenon
    <3>4. \A i \in 1 .. l - k : i = 1 \/ i \in 2 .. l - k
      OBVIOUS
    <3>5. \A i \in 1 .. Len(u) : u[i] = w[i]
      BY <3>1, <3>2, <3>3, <3>4
    <3> QED BY <2>10, <3>1, <3>5, SeqEqual
  <2>12. PICK c : c = Acks(next)
    OBVIOUS
  <2>13. c \in Seq(AckRecs) /\ Len(c) = 1 /\ c[1] = AckOf(x)
    <3>1. c = <<AckOf(x)>>
      BY <2>3, <2>12 DEF Acks
    <3> QED BY <3>1, AckOfType
  <2>14. DueOK(b \o c, mm)
    <3>1. b \in Seq(AckRecs) /\ c \in Seq(AckRecs)
      BY <1>12, <2>13
    <3>2. /\ b \o c \in Seq(AckRecs) /\ Len(b \o c) = Len(b) + Len(c)
          /\ \A i \in 1 .. Len(b) : (b \o c)[i] = b[i]
          /\ \A i \in 1 .. Len(c) : (b \o c)[Len(b) + i] = c[i]
      BY <3>1, ConcatFacts
    <3>3. Len(b \o c) = k /\ (k - 1) + 1 = k /\ Len(b) = k - 1
      BY <1>6, <1>12, <2>13, <3>2
    <3>4. (b \o c)[k] = AckOf(x)
      BY <2>13, <3>2, <3>3
    <3>5. \A i \in 1 .. k - 1 : (b \o c)[i] = AckOf(q[i + 1])
      BY <1>12, <3>2, <3>3
    <3>6. \A i \in 1 .. k : r[i] = q[i + 1]
      BY <1>9, <1>14
    <3>7. \A i \in 1 .. k : i \in 1 .. k - 1 \/ i = k
      OBVIOUS
    <3>8. \A i \in 1 .. k : (b \o c)[i] = AckOf(r[i])
      BY <2>2, <3>4, <3>5, <3>6, <3>7
    <3> QED BY <2>4, <3>2, <3>3, <3>8 DEF DueOK
  <2>15. Len(mm.queue) = Len(mem.queue) - 1
    BY <1>1, <1>2, <1>9, <2>4
  <2>16. next \in Seq(Pkts) /\ Waiting(mem) = next \o Waiting(mm)
    BY <1>4, <2>3, <2>6, <2>8, <2>9, <2>11, Zenon
  <2>17. DueOK(Tail(acks) \o Acks(next), mm)
    BY <1>11, <2>12, <2>14, Zenon
  <2>18. mm.queue # <<>>
    BY <1>6, <1>9, <1>14, <2>4, EmptyFacts
  <2> QED BY <1>5, <2>4, <2>5, <2>15, <2>16, <2>17, <2>18 DEF Shifted
<1>15. l = k \/ l > k
  BY <1>6
<1> QED BY <1>13, <1>14, <1>15

\* continue_send_messages on an empty queue: of the new packets as many are sent as fit
\* the window, and the others wait.
Continued(m, ps, acks, c, mm) ==
  /\ c.store = [m EXCEPT !.mem = mm]
  /\ WellFormed(mm) /\ mm.queue = ps
  /\ c.sends \in Seq(Pub)
  /\ Waiting(mm) \in Seq(Pub)
  /\ ps = c.sends \o Waiting(mm)
  /\ DueOK(acks \o Acks(c.sends), mm)

LEMMA MemContinue ==
  ASSUME NEW m, m.mem \in Mems, WellFormed(m.mem), m.mem.queue = <<>>, NEW ps \in Seq(Pub),
         NEW c, c = ContinueSend(m, ps), NEW acks, DueOK(acks, m.mem)
  PROVE  \E mm \in Mems : Continued(m, ps, acks, c, mm)
<1>1. PICK l \in Nat : l = Len(ps)
  BY LenProperties
<1>2. m.mem.inflight = 0 /\ acks = <<>>
  <2>1. m.mem.inflight \in 0 .. Len(m.mem.queue) /\ Len(m.mem.queue) = 0
    BY WaitingIs
  <2>2. m.mem.inflight = 0
    BY <2>1
  <2>3. acks \in Seq(AckRecs) /\ Len(acks) = 0
    BY <2>2 DEF DueOK
  <2> QED BY <2>2, <2>3, EmptyFacts
<1>3. inflight_window_size \in Nat \ {0}
  BY WindowAssumption
<1>4. PICK n \in 0 .. l : n = IF l < inflight_window_size THEN l ELSE inflight_window_size
  BY <1>3
<1>5. PICK mm : mm = [queue |-> ps, inflight |-> n, pending |-> IF n < l THEN n + 1 ELSE 0]
  OBVIOUS
<1>6. c.store = [m EXCEPT !.mem = mm] /\ c.sends = SubSeq(ps, 1, n)
  <2>1. 0 < inflight_window_size /\ inflight_window_size - 0 = inflight_window_size /\ 0 + n = n
    BY <1>3
  <2>2. ContinueSend(m, ps) =
          [store |-> [m EXCEPT !.mem = [queue |-> ps, inflight |-> 0 + n,
                                        pending |-> IF n < Len(ps) THEN n + 1 ELSE 0]],
           sends |-> SubSeq(ps, 1, n)]
    BY <1>1, <1>2, <1>4, <2>1 DEF ContinueSend
  <2>3. mm = [queue |-> ps, inflight |-> 0 + n, pending |-> IF n < Len(ps) THEN n + 1 ELSE 0]
    BY <1>1, <1>5, <2>1
  <2>4. c = [store |-> [m EXCEPT !.mem = mm], sends |-> SubSeq(ps, 1, n)]
    BY <2>2, <2>3, Zenon
  <2> QED BY <2>4
<1>7. ps \in Seq(Pkts) /\ \A i \in 1 .. l : ps[i] \in Pub /\ ps[i] \in Pkts
  BY <1>1, MessagesAll, ElementOfSeq, PacketKinds
<1>8. mm \in Mems /\ mm.queue = ps /\ mm.inflight = n /\ mm.pending = IF n < l THEN n + 1 ELSE 0
  BY <1>5, <1>7 DEF Mems
<1>9. WellFormed(mm)
  <2>1. /\ n <= inflight_window_size /\ n <= l /\ (l > n => n = inflight_window_size)
        /\ (IF n < l THEN n + 1 ELSE 0) = (IF l > n THEN n + 1 ELSE 0)
    BY <1>3, <1>4
  <2> QED BY <1>1, <1>8, <2>1 DEF WellFormed
<1>10. PICK v \in Seq(Pkts) : v = Waiting(mm)
  BY <1>8, <1>9, WaitingIs
<1>11. Len(v) = l - n /\ \A i \in 1 .. l - n : v[i] = ps[n + i]
  <2>1. /\ Len(Waiting(mm)) = Len(mm.queue) - mm.inflight
        /\ \A i \in 1 .. Len(mm.queue) - mm.inflight : Waiting(mm)[i] = mm.queue[mm.inflight + i]
    BY <1>8, <1>9, WaitingIs
  <2> QED BY <1>1, <1>8, <1>10, <2>1
<1>12. PICK r : r = SubSeq(ps, n + 1, Len(ps))
  OBVIOUS
<1>13. r \in Seq(Pub) /\ Len(r) = l - n /\ \A i \in 1 .. l - n : r[i] = ps[n + i]
  BY <1>1, <1>12, RestFacts
<1>14. v = r
  <2>1. r \in Seq(Pkts)
    BY <1>13, MessagesAll
  <2>2. Len(v) = Len(r) /\ \A i \in 1 .. Len(v) : v[i] = r[i]
    BY <1>11, <1>13
  <2> QED BY <2>1, <2>2, SeqEqual
<1>15. PICK s : s = SubSeq(ps, 1, n)
  OBVIOUS
<1>16. s \in Seq(Pub) /\ Len(s) = n /\ \A i \in 1 .. n : s[i] = ps[i]
  BY <1>1, <1>15, FrontFacts
<1>17. ps = s \o v
  BY <1>1, <1>12, <1>14, <1>15, Split
<1>18. PICK a : a = Acks(s)
  OBVIOUS
<1>19. a \in Seq(AckRecs) /\ Len(a) = n /\ \A i \in 1 .. n : a[i] = AckOf(ps[i])
  <2>1. DOMAIN s = 1 .. n
    BY <1>16, LenProperties
  <2>2. a = [i \in 1 .. n |-> AckOf(s[i])]
    BY <1>18, <2>1 DEF Acks
  <2>3. \A i \in 1 .. n : AckOf(s[i]) = AckOf(ps[i]) /\ AckOf(s[i]) \in AckRecs
    BY <1>7, <1>16, AckOfType
  <2> QED BY <2>2, <2>3
<1>20. acks \o a = a
  BY <1>2, <1>19, EmptyFacts
<1>21. DueOK(acks \o Acks(c.sends), mm)
  <2>1. DueOK(a, mm)
    BY <1>8, <1>19 DEF DueOK
  <2> QED BY <1>6, <1>15, <1>18, <1>20, <2>1, Zenon
<1>22. c.sends \in Seq(Pub) /\ Waiting(mm) \in Seq(Pub) /\ ps = c.sends \o Waiting(mm)
  BY <1>6, <1>10, <1>13, <1>14, <1>15, <1>16, <1>17
<1> QED BY <1>6, <1>8, <1>9, <1>21, <1>22 DEF Continued
-----------------------------------------------------------------------------
(* The invariant, of a store m, a task tk, documents d, acknowledgements   *)
(* due, and n messages published of which out were sent.                   *)

Flags == {"STORING", "FETCHING", "NEED_STORE", "NEED_FETCH", "STORED", "BUFFERED"}
Stores == [mem : Mems, total_size : Int, buffer : Seq(Pub), states : SUBSET Flags]
Tasks == [op : {"none", "store", "stored", "fetch", "fetched"}, packets : Seq(Pub)]

\* total_size counts the packets in memory.
Sized(m) == m.total_size = Len(m.mem.queue) + Len(m.buffer)

\* The flags tell which task is under way.
JobOK(m, tk) ==
  /\ tk \in Tasks
  /\ tk.op \in {"none", "stored", "fetch"} => tk.packets = <<>>
  /\ "STORING" \in m.states <=> tk.op \in {"store", "stored"}
  /\ "FETCHING" \in m.states <=> tk.op \in {"fetch", "fetched"}

\* Without BUFFERED there are no messages outside the queue, without STORED none outside
\* the memory.  A fetch brings nothing only when there is nothing.
FlagOK(m, tk, d) ==
  /\ "BUFFERED" \notin m.states => m.buffer = <<>> /\ "STORED" \notin m.states
  /\ "STORED" \notin m.states => d = <<>> /\ tk.packets = <<>> /\ "STORING" \notin m.states
  /\ tk.op = "fetched" /\ tk.packets = <<>> => d = <<>>

\* When the queue is empty, messages elsewhere are on their way to it.
RestOK(m) ==
  trigger >= 2 /\ m.mem.queue = <<>> =>
    /\ "BUFFERED" \in m.states => "STORING" \in m.states \/ "FETCHING" \in m.states
    /\ "STORING" \in m.states => "NEED_FETCH" \in m.states

OrderOK(m, tk, d, n, out) ==
  InOrder(out, Messages(Waiting(m.mem)), InTask(tk, "fetched"), d, InTask(tk, "store"), m.buffer, n)

Core(m, tk, d, acks, n, out) ==
  /\ m \in Stores /\ d \in Seq(Pub) /\ out \in Seq(Pub) /\ n \in Nat
  /\ WellFormed(m.mem) /\ Sized(m) /\ DueOK(acks, m.mem)
  /\ JobOK(m, tk) /\ FlagOK(m, tk, d) /\ OrderOK(m, tk, d, n, out)

Good(m, tk, d, acks, n, out) == Core(m, tk, d, acks, n, out) /\ RestOK(m)

\* The task after an operation that found the thread pool with tk.
Job(o, tk) == IF o.task = NoTask THEN tk ELSE o.task

LEMMA Fields ==
  ASSUME NEW m \in Stores
  PROVE  /\ m.mem \in Mems /\ m.total_size \in Int /\ m.buffer \in Seq(Pub) /\ m.states \in SUBSET Flags
         /\ m.mem.queue \in Seq(Pkts) /\ Len(m.mem.queue) \in Nat /\ Len(m.buffer) \in Nat
<1>1. m.mem \in Mems /\ m.total_size \in Int /\ m.buffer \in Seq(Pub) /\ m.states \in SUBSET Flags
  BY DEF Stores
<1>2. m.mem.queue \in Seq(Pkts)
  BY <1>1 DEF Mems
<1> QED BY <1>1, <1>2, EmptyFacts

LEMMA IdleTask ==
  /\ NoTask \in Tasks /\ NoTask.op = "none" /\ NoTask.packets = <<>>
  /\ \A op : op # "none" => InTask(NoTask, op) = <<>>
  /\ \A tk \in Tasks : tk.op = "none" /\ tk.packets = <<>> => tk = NoTask
<1>1. NoTask.op = "none" /\ NoTask.packets = <<>>
  BY DEF NoTask
<1>2. NoTask \in Tasks
  <2>1. <<>> \in Seq(Pub)
    OBVIOUS
  <2> QED BY <2>1 DEF NoTask, Tasks
<1>3. \A op : op # "none" => InTask(NoTask, op) = <<>>
  BY <1>1 DEF InTask
<1>4. \A tk \in Tasks : tk.op = "none" /\ tk.packets = <<>> => tk = NoTask
  BY DEF Tasks, NoTask
<1> QED BY <1>1, <1>2, <1>3, <1>4

\* initiate_storing_task, with no task under way.
LEMMA InitiateStoringCore ==
  ASSUME NEW m, NEW d, NEW acks, NEW n, NEW out, Core(m, NoTask, d, acks, n, out),
         "BUFFERED" \in m.states, NEW sends, NEW o, o = InitiateStoring(m, sends)
  PROVE  /\ Core(o.store, Job(o, NoTask), d, acks, n, out) /\ o.sends = sends /\ o.task # NoTask
         /\ o.store.mem = m.mem
         /\ o.store.states = (m.states \ {"NEED_STORE"}) \cup {"STORING", "STORED"}
<1>1. /\ m \in Stores /\ d \in Seq(Pub) /\ out \in Seq(Pub) /\ n \in Nat
      /\ WellFormed(m.mem) /\ Sized(m) /\ DueOK(acks, m.mem)
      /\ JobOK(m, NoTask) /\ FlagOK(m, NoTask, d) /\ OrderOK(m, NoTask, d, n, out)
  BY DEF Core
<1>2. PICK x : x = o.store
  OBVIOUS
<1>3. PICK b \in Seq(Pub) : b = m.buffer
  BY <1>1, Fields
<1>4. /\ x = [m EXCEPT !.states = (@ \ {"NEED_STORE"}) \cup {"STORING", "STORED"},
                       !.total_size = @ - Len(b), !.buffer = <<>>]
      /\ o.sends = sends /\ o.task = [op |-> "store", packets |-> b]
  BY <1>2, <1>3 DEF InitiateStoring, Outcome
<1>5. /\ x.mem = m.mem /\ x.total_size = m.total_size - Len(b) /\ x.buffer = <<>>
      /\ x.states = (m.states \ {"NEED_STORE"}) \cup {"STORING", "STORED"}
  BY <1>1, <1>4 DEF Stores
<1>6. x \in Stores
  <2>1. /\ m.total_size - Len(b) \in Int /\ <<>> \in Seq(Pub)
        /\ (m.states \ {"NEED_STORE"}) \cup {"STORING", "STORED"} \in SUBSET Flags
    BY <1>1, <1>3, Fields DEF Flags
  <2> QED BY <1>1, <1>4, <2>1 DEF Stores
<1>7. PICK tk \in Tasks : tk = o.task /\ tk.op = "store" /\ tk.packets = b
  BY <1>4 DEF Tasks
<1>8. tk # NoTask /\ Job(o, NoTask) = tk
  BY <1>7, IdleTask DEF Job
<1>9. Sized(x)
  <2>1. Len(<<>>) = 0
    OBVIOUS
  <2> QED BY <1>1, <1>3, <1>5, <2>1, Fields DEF Sized
<1>10. JobOK(x, tk)
  <2>1. "FETCHING" \notin m.states
    BY <1>1, IdleTask DEF JobOK
  <2> QED BY <1>5, <1>7, <2>1 DEF JobOK
<1>11. FlagOK(x, tk, d)
  BY <1>5, <1>7 DEF FlagOK
<1>12. OrderOK(x, tk, d, n, out)
  <2>1. InTask(tk, "fetched") = <<>> /\ InTask(tk, "store") = b
    BY <1>7 DEF InTask
  <2>2. PICK w \in Seq(Pub) : w = Messages(Waiting(m.mem))
    BY <1>1, Fields, WaitingIs, MessagesConcat
  <2>3. InOrder(out, w, <<>>, d, <<>>, b, n)
    BY <1>1, <1>3, <2>2, IdleTask DEF OrderOK
  <2>4. InOrder(out, w, <<>>, d, b, <<>>, n)
    <3>1. <<>> \in Seq(Pub)
      OBVIOUS
    <3> QED BY <1>1, <2>3, <3>1, OrderStoring
  <2> QED BY <1>5, <2>1, <2>2, <2>4 DEF OrderOK
<1>13. Core(x, tk, d, acks, n, out)
  BY <1>1, <1>5, <1>6, <1>9, <1>10, <1>11, <1>12 DEF Core
<1> QED BY <1>2, <1>4, <1>5, <1>7, <1>8, <1>13

\* initiate_fetching_task, with no task under way.
LEMMA InitiateFetchingGood ==
  ASSUME NEW m, NEW d, NEW acks, NEW n, NEW out, Core(m, NoTask, d, acks, n, out),
         NEW sends, NEW o, o = InitiateFetching(m, sends)
  PROVE  Good(o.store, Job(o, NoTask), d, acks, n, out) /\ o.sends = sends
<1>1. /\ m \in Stores /\ d \in Seq(Pub) /\ out \in Seq(Pub) /\ n \in Nat
      /\ WellFormed(m.mem) /\ Sized(m) /\ DueOK(acks, m.mem)
      /\ JobOK(m, NoTask) /\ FlagOK(m, NoTask, d) /\ OrderOK(m, NoTask, d, n, out)
  BY DEF Core
<1>2. PICK x : x = o.store
  OBVIOUS
<1>3. /\ x = [m EXCEPT !.states = (@ \ {"NEED_FETCH"}) \cup {"FETCHING"}]
      /\ o.sends = sends /\ o.task = [op |-> "fetch", packets |-> <<>>]
  BY <1>2 DEF InitiateFetching, Outcome
<1>4. /\ x.mem = m.mem /\ x.total_size = m.total_size /\ x.buffer = m.buffer
      /\ x.states = (m.states \ {"NEED_FETCH"}) \cup {"FETCHING"}
  BY <1>1, <1>3 DEF Stores
<1>5. x \in Stores
  <2>1. (m.states \ {"NEED_FETCH"}) \cup {"FETCHING"} \in SUBSET Flags
    BY <1>1, Fields DEF Flags
  <2> QED BY <1>1, <1>3, <2>1 DEF Stores
<1>6. PICK tk \in Tasks : tk = o.task /\ tk.op = "fetch" /\ tk.packets = <<>>
  <2>1. <<>> \in Seq(Pub)
    OBVIOUS
  <2>2. [op |-> "fetch", packets |-> <<>>] \in Tasks
    BY <2>1 DEF Tasks
  <2> QED BY <1>3, <2>2
<1>7. Job(o, NoTask) = tk
  BY <1>6, IdleTask DEF Job
<1>8. Sized(x)
  BY <1>1, <1>4 DEF Sized
<1>9. "STORING" \notin m.states
  BY <1>1, IdleTask DEF JobOK
<1>10. JobOK(x, tk)
  BY <1>4, <1>6, <1>9 DEF JobOK
<1>11. FlagOK(x, tk, d)
  BY <1>1, <1>4, <1>6 DEF FlagOK
<1>12. OrderOK(x, tk, d, n, out)
  <2>1. InTask(tk, "fetched") = <<>> /\ InTask(tk, "store") = <<>>
    BY <1>6 DEF InTask
  <2> QED BY <1>1, <1>4, <2>1, IdleTask DEF OrderOK
<1>13. RestOK(x)
  BY <1>4, <1>9 DEF RestOK
<1> QED BY <1>1, <1>2, <1>3, <1>4, <1>5, <1>7, <1>8, <1>10, <1>11, <1>12, <1>13 DEF Good, Core

\* Raising or lowering a flag that says nothing about messages or tasks.
LEMMA FlagCore ==
  ASSUME NEW m, NEW tk, NEW d, NEW acks, NEW n, NEW out, Core(m, tk, d, acks, n, out),
         NEW S \in SUBSET Flags, NEW x, x = [m EXCEPT !.states = S],
         \A flag \in {"STORING", "FETCHING", "STORED", "BUFFERED"} : flag \in S <=> flag \in m.states
  PROVE  Core(x, tk, d, acks, n, out) /\ x.mem = m.mem /\ x.buffer = m.buffer /\ x.states = S
<1>1. /\ m \in Stores /\ WellFormed(m.mem) /\ Sized(m) /\ DueOK(acks, m.mem)
      /\ JobOK(m, tk) /\ FlagOK(m, tk, d) /\ OrderOK(m, tk, d, n, out)
      /\ d \in Seq(Pub) /\ out \in Seq(Pub) /\ n \in Nat
  BY DEF Core
<1>2. x.mem = m.mem /\ x.total_size = m.total_size /\ x.buffer = m.buffer /\ x.states = S /\ x \in Stores
  BY <1>1 DEF Stores
<1>3. JobOK(x, tk)
  BY <1>1, <1>2 DEF JobOK
<1>4. FlagOK(x, tk, d)
  BY <1>1, <1>2 DEF FlagOK
<1>5. Sized(x) /\ OrderOK(x, tk, d, n, out)
  BY <1>1, <1>2 DEF Sized, OrderOK
<1> QED BY <1>1, <1>2, <1>3, <1>4, <1>5 DEF Core

\* What a receipt leads to in the end, once the task under way is done.
LEMMA ThenNextGood ==
  ASSUME NEW m, NEW d, NEW acks, NEW n, NEW out, Core(m, NoTask, d, acks, n, out),
         trigger >= 2 /\ m.mem.queue = <<>> =>
           "BUFFERED" \notin m.states \/ ("NEED_FETCH" \in m.states /\ "NEED_STORE" \notin m.states),
         NEW sends, NEW o, o = ThenNext(m, sends)
  PROVE  Good(o.store, Job(o, NoTask), d, acks, n, out) /\ o.sends = sends
<1>1. m \in Stores /\ FlagOK(m, NoTask, d) /\ JobOK(m, NoTask)
  BY DEF Core
<1>2. "STORING" \notin m.states /\ "FETCHING" \notin m.states
  BY <1>1, IdleTask DEF JobOK
<1>3. CASE "NEED_STORE" \in m.states /\ m.buffer # <<>>
  <2>1. "BUFFERED" \in m.states
    BY <1>1, <1>3 DEF FlagOK
  <2>2. o = InitiateStoring(m, sends)
    BY <1>3 DEF ThenNext
  <2>3. /\ Core(o.store, Job(o, NoTask), d, acks, n, out) /\ o.sends = sends
        /\ o.store.mem = m.mem
        /\ o.store.states = (m.states \ {"NEED_STORE"}) \cup {"STORING", "STORED"}
    BY <2>1, <2>2, InitiateStoringCore
  <2>4. RestOK(o.store)
    BY <1>3, <2>1, <2>3 DEF RestOK
  <2> QED BY <2>3, <2>4 DEF Good
<1>4. CASE "NEED_STORE" \in m.states /\ m.buffer = <<>>
  <2>1. PICK x : x = Clear(m, "NEED_STORE")
    OBVIOUS
  <2>2. o = Outcome(x, sends, NoTask)
    BY <1>4, <2>1 DEF ThenNext
  <2>3. o.store = x /\ o.sends = sends /\ o.task = NoTask /\ Job(o, NoTask) = NoTask
    BY <2>2 DEF Outcome, Job
  <2>4. PICK S \in SUBSET Flags : S = m.states \ {"NEED_STORE"}
    BY <1>1, Fields
  <2>5. x = [m EXCEPT !.states = S]
    BY <2>1, <2>4 DEF Clear
  <2>6. Core(x, NoTask, d, acks, n, out) /\ x.mem = m.mem /\ x.states = S
    <3>1. \A flag \in {"STORING", "FETCHING", "STORED", "BUFFERED"} : flag \in S <=> flag \in m.states
      BY <2>4
    <3> QED BY <2>5, <3>1, FlagCore
  <2>7. RestOK(x)
    BY <1>2, <1>4, <2>4, <2>6 DEF RestOK
  <2> QED BY <2>3, <2>6, <2>7 DEF Good
<1>5. CASE "NEED_STORE" \notin m.states /\ "NEED_FETCH" \in m.states
  <2>1. o = InitiateFetching(m, sends)
    BY <1>5 DEF ThenNext
  <2> QED BY <2>1, InitiateFetchingGood
<1>6. CASE "NEED_STORE" \notin m.states /\ "NEED_FETCH" \notin m.states
  <2>1. o = Outcome(m, sends, NoTask)
    BY <1>6 DEF ThenNext
  <2>2. o.store = m /\ o.sends = sends /\ Job(o, NoTask) = NoTask
    BY <2>1 DEF Outcome, Job
  <2>3. RestOK(m)
    BY <1>2, <1>6 DEF RestOK
  <2> QED BY <2>2, <2>3 DEF Good
<1> QED BY <1>3, <1>4, <1>5, <1>6

\* store_message_done.
LEMMA StoredGood ==
  ASSUME NEW m, NEW tk, NEW d, NEW acks, NEW n, NEW out, Good(m, tk, d, acks, n, out),
         tk.op = "stored", NEW o, o = StoreMessageDone(m)
  PROVE  Good(o.store, Job(o, NoTask), d, acks, n, out) /\ o.sends = <<>>
<1>1. /\ m \in Stores /\ WellFormed(m.mem) /\ Sized(m) /\ DueOK(acks, m.mem)
      /\ JobOK(m, tk) /\ FlagOK(m, tk, d) /\ OrderOK(m, tk, d, n, out)
      /\ d \in Seq(Pub) /\ out \in Seq(Pub) /\ n \in Nat /\ RestOK(m)
  BY DEF Good, Core
<1>2. PICK c : c = Clear(m, "STORING")
  OBVIOUS
<1>3. /\ c.mem = m.mem /\ c.total_size = m.total_size /\ c.buffer = m.buffer
      /\ c.states = m.states \ {"STORING"} /\ c \in Stores
  BY <1>1, <1>2 DEF Clear, Stores
<1>4. /\ "STORING" \in m.states /\ "FETCHING" \notin m.states
      /\ "STORED" \in m.states /\ "BUFFERED" \in m.states
  BY <1>1 DEF JobOK, FlagOK
<1>5. JobOK(c, NoTask)
  BY <1>3, <1>4, IdleTask DEF JobOK
<1>6. FlagOK(c, NoTask, d)
  BY <1>3, <1>4, IdleTask DEF FlagOK
<1>7. OrderOK(c, NoTask, d, n, out)
  <2>1. InTask(tk, "fetched") = <<>> /\ InTask(tk, "store") = <<>>
    BY DEF InTask
  <2> QED BY <1>1, <1>3, <2>1, IdleTask DEF OrderOK
<1>8. Core(c, NoTask, d, acks, n, out)
  BY <1>1, <1>3, <1>5, <1>6, <1>7 DEF Core, Sized
<1>9. CASE "NEED_STORE" \in c.states
  <2>1. o = InitiateStoring(c, <<>>)
    BY <1>2, <1>9 DEF StoreMessageDone
  <2>2. /\ Core(o.store, Job(o, NoTask), d, acks, n, out) /\ o.sends = <<>>
        /\ o.store.mem = c.mem
        /\ o.store.states = (c.states \ {"NEED_STORE"}) \cup {"STORING", "STORED"}
    BY <1>3, <1>4, <1>8, <2>1, InitiateStoringCore
  <2>3. RestOK(o.store)
    BY <1>1, <1>3, <1>4, <2>2 DEF RestOK
  <2> QED BY <2>2, <2>3 DEF Good
<1>10. CASE "NEED_STORE" \notin c.states
  <2>1. o = ThenNext(c, <<>>)
    BY <1>2, <1>10 DEF StoreMessageDone
  <2>2. trigger >= 2 /\ c.mem.queue = <<>> => "NEED_FETCH" \in c.states
    BY <1>1, <1>3, <1>4 DEF RestOK
  <2> QED BY <1>8, <1>10, <2>1, <2>2, ThenNextGood
<1> QED BY <1>9, <1>10

\* A message of n + 1 is published: mongodb_store_store_message.
LEMMA PublishGood ==
  ASSUME NEW m, NEW tk, NEW d, NEW acks, NEW n, NEW out, Good(m, tk, d, acks, n, out),
         NEW p \in Pub, p.packet_id = n + 1, NEW o, o = MongoStoreMessage(m, p)
  PROVE  Good(o.store, Job(o, tk), d, acks \o Acks(o.sends), n + 1, out \o Messages(o.sends))
<1>1. /\ m \in Stores /\ WellFormed(m.mem) /\ Sized(m) /\ DueOK(acks, m.mem)
      /\ JobOK(m, tk) /\ FlagOK(m, tk, d) /\ OrderOK(m, tk, d, n, out)
      /\ d \in Seq(Pub) /\ out \in Seq(Pub) /\ n \in Nat /\ RestOK(m) /\ n + 1 \in Nat
  BY DEF Good, Core
<1>2. /\ m.mem \in Mems /\ m.total_size \in Int /\ m.buffer \in Seq(Pub) /\ m.states \in SUBSET Flags
      /\ m.mem.queue \in Seq(Pkts) /\ Len(m.mem.queue) \in Nat /\ Len(m.buffer) \in Nat
  BY <1>1, Fields
<1>3. p.type = "PUBLISH" /\ p \in Pkts
  BY PacketKinds
<1>4. PICK w \in Seq(Pkts) : w = Waiting(m.mem)
  BY <1>1, <1>2, WaitingIs
<1>5. Messages(w) \in Seq(Pub)
  BY MessagesConcat
<1>6. CASE RoomInQueue(m, p)
  <2>1. m.total_size < trigger \div 2 /\ "BUFFERED" \notin m.states
    BY <1>3, <1>6 DEF RoomInQueue
  <2>2. PICK mm : mm = StoreMessage(m.mem, p)
    OBVIOUS
  <2>3. PICK sends : sends = IF SendNow(m.mem) THEN <<p>> ELSE <<>>
    OBVIOUS
  <2>4. /\ mm \in Mems /\ WellFormed(mm) /\ Len(mm.queue) = Len(m.mem.queue) + 1
        /\ sends \in Seq(Pkts)
        /\ w \o <<p>> = sends \o Waiting(mm)
        /\ DueOK(acks \o Acks(sends), mm)
    <3>1. PICK mem \in Mems : mem = m.mem
      BY <1>2
    <3>2. WellFormed(mem) /\ DueOK(acks, mem)
      BY <1>1, <3>1
    <3>3. mm = StoreMessage(mem, p)
      BY <2>2, <3>1
    <3>4. sends = AtOnce(mem, p)
      BY <2>3, <3>1 DEF AtOnce
    <3>5. Queued(mem, p, acks, mm, sends)
      BY <1>3, <3>2, <3>3, <3>4, MemStore
    <3> QED BY <1>4, <3>1, <3>5 DEF Queued
  <2>5. PICK x : x = [m EXCEPT !.mem = mm, !.total_size = m.total_size + 1]
    OBVIOUS
  <2>6. o = Outcome(x, sends, NoTask)
    BY <1>6, <2>2, <2>3, <2>5 DEF MongoStoreMessage
  <2>7. o.store = x /\ o.sends = sends /\ Job(o, tk) = tk
    BY <2>6 DEF Outcome, Job
  <2>8. /\ x.mem = mm /\ x.total_size = m.total_size + 1 /\ x.buffer = m.buffer /\ x.states = m.states
        /\ x \in Stores
    <3>1. x = [mem |-> mm, total_size |-> m.total_size + 1, buffer |-> m.buffer, states |-> m.states]
      BY <1>1, <2>5 DEF Stores
    <3>2. mm \in Mems /\ m.total_size + 1 \in Int
      BY <1>2, <2>4
    <3> QED BY <1>2, <3>1, <3>2 DEF Stores
  <2>9. Sized(x)
    <3>1. m.total_size = Len(m.mem.queue) + Len(m.buffer)
      BY <1>1 DEF Sized
    <3>2. PICK i \in Nat : i = Len(m.mem.queue)
      BY <1>2
    <3>3. PICK j \in Nat : j = Len(m.buffer)
      BY <1>2
    <3>4. (i + j) + 1 = (i + 1) + j
      OBVIOUS
    <3> QED BY <2>4, <2>8, <3>1, <3>2, <3>3, <3>4 DEF Sized
  <2>10. JobOK(x, tk) /\ FlagOK(x, tk, d)
    BY <1>1, <2>8 DEF JobOK, FlagOK
  <2>11. RestOK(x)
    <3>1. Len(mm.queue) # 0
      BY <1>2, <2>4
    <3>2. mm.queue # <<>>
      BY <3>1
    <3> QED BY <2>8, <3>2 DEF RestOK
  <2>12. PICK v \in Seq(Pkts) : v = Waiting(mm)
    BY <2>4, WaitingIs
  <2>13. Messages(w) \o <<p>> = Messages(sends) \o Messages(v)
    <3>1. <<p>> \in Seq(Pkts) /\ Messages(<<p>>) = <<p>>
      BY <1>3, MessagesOfOne
    <3>2. Messages(w \o <<p>>) = Messages(w) \o Messages(<<p>>)
      BY <3>1, MessagesConcat
    <3>3. Messages(sends \o v) = Messages(sends) \o Messages(v)
      BY <2>4, MessagesConcat
    <3> QED BY <2>4, <2>12, <3>1, <3>2, <3>3, Zenon
  <2>14. PICK s1 \in Seq(Pub) : s1 = Messages(sends)
    BY <2>4, MessagesConcat
  <2>15. PICK s2 \in Seq(Pub) : s2 = Messages(v)
    BY MessagesConcat
  <2>16. m.buffer = <<>> /\ d = <<>> /\ InTask(tk, "fetched") = <<>> /\ InTask(tk, "store") = <<>>
    BY <1>1, <2>1 DEF FlagOK, InTask
  <2>17. InOrder(out, Messages(w), <<>>, <<>>, <<>>, <<>>, n)
    BY <1>1, <1>4, <2>16 DEF OrderOK
  <2>18. InOrder(out, Messages(w) \o <<p>>, <<>>, <<>>, <<>>, <<>>, n + 1)
    BY <1>1, <1>5, <2>17, OrderQueue
  <2>19. InOrder(out \o s1, s2, <<>>, <<>>, <<>>, <<>>, n + 1)
    <3>1. PICK u \in Seq(Pub) : u = s1 \o s2
      BY ConcatFacts
    <3>2. InOrder(out, u, <<>>, <<>>, <<>>, <<>>, n + 1)
      BY <2>13, <2>14, <2>15, <2>18, <3>1
    <3>3. PICK e \in Seq(Pub) : e = <<>>
      BY EmptyFacts
    <3>4. InOrder(out, u, e, e, e, e, n + 1)
      BY <3>2, <3>3
    <3>5. InOrder(out \o s1, s2, e, e, e, e, n + 1)
      BY <1>1, <3>1, <3>4, OrderSend
    <3> QED BY <3>3, <3>5
  <2>20. OrderOK(x, tk, d, n + 1, out \o s1)
    BY <2>8, <2>12, <2>15, <2>16, <2>19 DEF OrderOK
  <2>21. out \o s1 \in Seq(Pub)
    BY <1>1, ConcatFacts
  <2>22. Good(x, tk, d, acks \o Acks(sends), n + 1, out \o s1)
    BY <1>1, <2>4, <2>8, <2>9, <2>10, <2>11, <2>20, <2>21 DEF Good, Core
  <2> QED BY <2>7, <2>14, <2>22
<1>7. CASE ~ RoomInQueue(m, p)
  <2>1. "BUFFERED" \in m.states \/ m.total_size >= trigger \div 2
    BY <1>2, <1>7, MongoAssumption DEF RoomInQueue
  <2>2. trigger >= 2 /\ m.mem.queue = <<>> => "STORING" \in m.states \/ "FETCHING" \in m.states
    <3>1. SUFFICES ASSUME trigger >= 2, m.mem.queue = <<>>, "BUFFERED" \notin m.states PROVE FALSE
      BY <1>1 DEF RestOK
    <3>2. m.buffer = <<>> /\ Len(<<>>) = 0
      BY <1>1, <3>1 DEF FlagOK
    <3>3. m.total_size = 0
      BY <1>1, <3>1, <3>2 DEF Sized
    <3>4. trigger \div 2 >= 1
      BY <3>1, MongoAssumption
    <3> QED BY <2>1, <3>1, <3>3, <3>4, MongoAssumption
  <2>3. PICK b : b = Append(m.buffer, p)
    OBVIOUS
  <2>4. b \in Seq(Pub) /\ Len(b) = Len(m.buffer) + 1
    BY <1>2, <2>3, AppendFacts
  <2>5. PICK x : x = Set([m EXCEPT !.total_size = @ + 1, !.buffer = Append(@, p)], "BUFFERED")
    OBVIOUS
  <2>6. /\ x.mem = m.mem /\ x.total_size = m.total_size + 1 /\ x.buffer = b
        /\ x.states = m.states \cup {"BUFFERED"} /\ x \in Stores
    <3>1. x = [mem |-> m.mem, total_size |-> m.total_size + 1, buffer |-> b,
               states |-> m.states \cup {"BUFFERED"}]
      BY <1>1, <2>3, <2>5 DEF Set, Stores
    <3>2. m.states \cup {"BUFFERED"} \in SUBSET Flags
      BY <1>2 DEF Flags
    <3> QED BY <1>2, <2>4, <3>1, <3>2 DEF Stores
  <2>7. Sized(x)
    <3>1. m.total_size = Len(m.mem.queue) + Len(m.buffer)
      BY <1>1 DEF Sized
    <3>2. PICK i \in Nat : i = Len(m.mem.queue)
      BY <1>2
    <3>3. PICK j \in Nat : j = Len(m.buffer)
      BY <1>2
    <3>4. (i + j) + 1 = i + (j + 1)
      OBVIOUS
    <3> QED BY <2>4, <2>6, <3>1, <3>2, <3>3, <3>4 DEF Sized
  <2>8. JobOK(x, tk)
    BY <1>1, <2>6 DEF JobOK
  <2>9. FlagOK(x, tk, d)
    BY <1>1, <2>6 DEF FlagOK
  <2>10. OrderOK(x, tk, d, n + 1, out)
    <3>1. PICK f \in Seq(Pub) : f = InTask(tk, "fetched")
      BY <1>1, EmptyFacts DEF JobOK, Tasks, InTask
    <3>2. PICK s \in Seq(Pub) : s = InTask(tk, "store")
      BY <1>1, EmptyFacts DEF JobOK, Tasks, InTask
    <3>3. InOrder(out, Messages(w), f, d, s, m.buffer, n)
      BY <1>1, <1>4, <3>1, <3>2 DEF OrderOK
    <3>4. InOrder(out, Messages(w), f, d, s, b, n + 1)
      BY <1>1, <1>2, <1>5, <2>3, <3>3, OrderBuffer
    <3> QED BY <1>4, <2>6, <3>1, <3>2, <3>4 DEF OrderOK
  <2>11. Core(x, tk, d, acks, n + 1, out)
    BY <1>1, <2>6, <2>7, <2>8, <2>9, <2>10 DEF Core
  <2>12. acks \o Acks(<<>>) = acks /\ out \o Messages(<<>>) = out
    <3>1. Acks(<<>>) = <<>>
      BY DEF Acks
    <3>2. acks \in Seq(AckRecs) /\ <<>> \in Seq(Pub)
      BY <1>1 DEF DueOK
    <3>3. Messages(<<>>) = <<>>
      BY <3>2, MessagesAll
    <3> QED BY <1>1, <3>1, <3>2, <3>3, EmptyFacts
  <2>13. CASE x.total_size < trigger
    <3>1. o = Outcome(x, <<>>, NoTask)
      BY <1>2, <1>7, <2>5, <2>6, <2>13, MongoAssumption DEF MongoStoreMessage
    <3>2. o.store = x /\ o.sends = <<>> /\ Job(o, tk) = tk
      BY <3>1 DEF Outcome, Job
    <3>3. RestOK(x)
      BY <1>1, <2>2, <2>6 DEF RestOK
    <3> QED BY <2>11, <2>12, <3>2, <3>3 DEF Good
  <2>14. CASE x.total_size >= trigger /\ Busy(x)
    <3>1. PICK y : y = Set(x, "NEED_STORE")
      OBVIOUS
    <3>2. o = Outcome(y, <<>>, NoTask)
      BY <1>2, <1>7, <2>5, <2>6, <2>14, <3>1, MongoAssumption DEF MongoStoreMessage
    <3>3. o.store = y /\ o.sends = <<>> /\ Job(o, tk) = tk
      BY <3>2 DEF Outcome, Job
    <3>4. PICK S \in SUBSET Flags : S = x.states \cup {"NEED_STORE"}
      BY <1>2, <2>6 DEF Flags
    <3>5. y = [x EXCEPT !.states = S]
      BY <3>1, <3>4 DEF Set
    <3>6. Core(y, tk, d, acks, n + 1, out) /\ y.mem = x.mem /\ y.states = S
      <4>1. \A flag \in {"STORING", "FETCHING", "STORED", "BUFFERED"} : flag \in S <=> flag \in x.states
        BY <3>4
      <4> QED BY <2>11, <3>5, <4>1, FlagCore
    <3>7. RestOK(y)
      BY <1>1, <2>2, <2>6, <3>4, <3>6 DEF RestOK
    <3> QED BY <2>12, <3>3, <3>6, <3>7 DEF Good
  <2>15. CASE x.total_size >= trigger /\ ~ Busy(x)
    <3>1. o = InitiateStoring(x, <<>>)
      BY <1>2, <1>7, <2>5, <2>6, <2>15, MongoAssumption DEF MongoStoreMessage
    <3>2. "STORING" \notin m.states /\ "FETCHING" \notin m.states
      BY <2>6, <2>15 DEF Busy
    <3>3. tk = NoTask
      BY <1>1, <3>2, IdleTask DEF JobOK, Tasks
    <3>4. /\ Core(o.store, Job(o, NoTask), d, acks, n + 1, out) /\ o.sends = <<>> /\ o.store.mem = x.mem
      BY <2>6, <2>11, <3>1, <3>3, InitiateStoringCore
    <3>5. RestOK(o.store)
      BY <2>2, <2>6, <3>2, <3>4 DEF RestOK
    <3> QED BY <2>12, <3>3, <3>4, <3>5 DEF Good
  <2>16. x.total_size < trigger \/ x.total_size >= trigger
    BY <1>2, <2>6, MongoAssumption
  <2> QED BY <2>13, <2>14, <2>15, <2>16
<1> QED BY <1>6, <1>7

\* A PUBREL takes its place in the queue: mongodb_store_store_message.
LEMMA RelGood ==
  ASSUME NEW m, NEW tk, NEW d, NEW acks, NEW n, NEW out, Good(m, tk, d, acks, n, out),
         NEW p \in Rel, NEW o, o = MongoStoreMessage(m, p)
  PROVE  /\ Good(o.store, tk, d, acks \o Acks(o.sends), n, out \o Messages(o.sends))
         /\ o.task = NoTask /\ o.sends \in Seq(Pkts)
<1>1. /\ m \in Stores /\ WellFormed(m.mem) /\ Sized(m) /\ DueOK(acks, m.mem)
      /\ JobOK(m, tk) /\ FlagOK(m, tk, d) /\ OrderOK(m, tk, d, n, out)
      /\ d \in Seq(Pub) /\ out \in Seq(Pub) /\ n \in Nat
  BY DEF Good, Core
<1>2. /\ m.mem \in Mems /\ m.total_size \in Int /\ m.buffer \in Seq(Pub) /\ m.states \in SUBSET Flags
      /\ m.mem.queue \in Seq(Pkts) /\ Len(m.mem.queue) \in Nat /\ Len(m.buffer) \in Nat
  BY <1>1, Fields
<1>3. p.type = "PUBREL" /\ p \in Pkts
  BY PacketKinds
<1>4. PICK mem \in Mems : mem = m.mem
  BY <1>2
<1>5. PICK mm : mm = StoreMessage(mem, p)
  OBVIOUS
<1>6. PICK sends : sends = AtOnce(mem, p)
  OBVIOUS
<1>7. Queued(mem, p, acks, mm, sends)
  <2>1. WellFormed(mem) /\ DueOK(acks, mem)
    BY <1>1, <1>4
  <2> QED BY <1>3, <1>5, <1>6, <2>1, MemStore
<1>8. /\ mm \in Mems /\ WellFormed(mm) /\ Len(mm.queue) = Len(mem.queue) + 1
      /\ sends \in Seq(Pkts)
      /\ Waiting(mem) \o <<p>> = sends \o Waiting(mm)
      /\ DueOK(acks \o Acks(sends), mm)
  BY <1>7 DEF Queued
<1>9. PICK w \in Seq(Pkts) : w = Waiting(mem)
  BY <1>1, <1>4, WaitingIs
<1>10. PICK v \in Seq(Pkts) : v = Waiting(mm)
  BY <1>8, WaitingIs
<1>11. PICK x : x = [m EXCEPT !.mem = mm, !.total_size = m.total_size + 1]
  OBVIOUS
<1>12. o = Outcome(x, sends, NoTask)
  <2>1. RoomInQueue(m, p)
    BY <1>3 DEF RoomInQueue
  <2> QED BY <1>4, <1>5, <1>6, <1>11, <2>1 DEF MongoStoreMessage, AtOnce
<1>13. o.store = x /\ o.sends = sends /\ o.task = NoTask
  BY <1>12 DEF Outcome
<1>14. /\ x.mem = mm /\ x.total_size = m.total_size + 1 /\ x.buffer = m.buffer /\ x.states = m.states
       /\ x \in Stores
  <2>1. x = [mem |-> mm, total_size |-> m.total_size + 1, buffer |-> m.buffer, states |-> m.states]
    BY <1>1, <1>11 DEF Stores
  <2>2. mm \in Mems /\ m.total_size + 1 \in Int
    BY <1>2, <1>8
  <2> QED BY <1>2, <2>1, <2>2 DEF Stores
<1>15. Sized(x)
  <2>1. m.total_size = Len(m.mem.queue) + Len(m.buffer)
    BY <1>1 DEF Sized
  <2>2. PICK i \in Nat : i = Len(m.mem.queue)
    BY <1>2
  <2>3. PICK j \in Nat : j = Len(m.buffer)
    BY <1>2
  <2>4. (i + j) + 1 = (i + 1) + j
    OBVIOUS
  <2> QED BY <1>4, <1>8, <1>14, <2>1, <2>2, <2>3, <2>4 DEF Sized
<1>16. JobOK(x, tk) /\ FlagOK(x, tk, d)
  BY <1>1, <1>14 DEF JobOK, FlagOK
<1>17. RestOK(x)
  <2>1. Len(mm.queue) # 0
    BY <1>2, <1>4, <1>8
  <2>2. mm.queue # <<>>
    BY <2>1
  <2> QED BY <1>14, <2>2 DEF RestOK
<1>18. Messages(w) = Messages(sends) \o Messages(v)
  <2>1. <<p>> \in Seq(Pkts) /\ Messages(<<p>>) = <<>>
    BY <1>3, MessagesOfOne
  <2>2. Messages(w) \in Seq(Pub) /\ Messages(w \o <<p>>) = Messages(w) \o Messages(<<p>>)
    BY <2>1, MessagesConcat
  <2>3. Messages(sends \o v) = Messages(sends) \o Messages(v)
    BY <1>8, MessagesConcat
  <2>4. Messages(w) \o <<>> = Messages(w)
    BY <2>2, EmptyFacts
  <2> QED BY <1>8, <1>9, <1>10, <2>1, <2>2, <2>3, <2>4, Zenon
<1>19. PICK s1 \in Seq(Pub) : s1 = Messages(sends)
  BY <1>8, MessagesConcat
<1>20. PICK s2 \in Seq(Pub) : s2 = Messages(v)
  BY MessagesConcat
<1>21. OrderOK(x, tk, d, n, out \o s1)
  <2>1. PICK f \in Seq(Pub) : f = InTask(tk, "fetched")
    BY <1>1, EmptyFacts DEF JobOK, Tasks, InTask
  <2>2. PICK s \in Seq(Pub) : s = InTask(tk, "store")
    BY <1>1, EmptyFacts DEF JobOK, Tasks, InTask
  <2>3. PICK u \in Seq(Pub) : u = s1 \o s2
    BY ConcatFacts
  <2>4. InOrder(out, u, f, d, s, m.buffer, n)
    BY <1>1, <1>4, <1>9, <1>18, <1>19, <1>20, <2>1, <2>2, <2>3 DEF OrderOK
  <2>5. InOrder(out \o s1, s2, f, d, s, m.buffer, n)
    BY <1>1, <1>2, <2>3, <2>4, OrderSend
  <2> QED BY <1>10, <1>14, <1>20, <2>1, <2>2, <2>5 DEF OrderOK
<1>22. out \o s1 \in Seq(Pub)
  BY <1>1, ConcatFacts
<1>23. Good(x, tk, d, acks \o Acks(sends), n, out \o s1)
  BY <1>1, <1>8, <1>14, <1>15, <1>16, <1>17, <1>21, <1>22 DEF Good, Core
<1> QED BY <1>8, <1>13, <1>19, <1>23

\* memory_store_acknowledge on the queue of the store.
AckedStore(m, mm) == [m EXCEPT !.mem = mm, !.total_size = m.total_size - 1]

LEMMA AckCore ==
  ASSUME NEW m, NEW tk, NEW d, NEW acks, NEW n, NEW out, Core(m, tk, d, acks, n, out),
         NEW mm, NEW next, Shifted(m.mem, acks, mm, next), NEW a, a = AckedStore(m, mm)
  PROVE  /\ Core(a, tk, d, Tail(acks) \o Acks(next), n, out \o Messages(next))
         /\ a.mem = mm /\ a.states = m.states /\ a.buffer = m.buffer
<1>1. /\ m \in Stores /\ WellFormed(m.mem) /\ Sized(m) /\ DueOK(acks, m.mem)
      /\ JobOK(m, tk) /\ FlagOK(m, tk, d) /\ OrderOK(m, tk, d, n, out)
      /\ d \in Seq(Pub) /\ out \in Seq(Pub) /\ n \in Nat
  BY DEF Core
<1>2. /\ m.mem \in Mems /\ m.total_size \in Int /\ m.buffer \in Seq(Pub) /\ m.states \in SUBSET Flags
      /\ m.mem.queue \in Seq(Pkts) /\ Len(m.mem.queue) \in Nat /\ Len(m.buffer) \in Nat
  BY <1>1, Fields
<1>3. /\ mm \in Mems /\ WellFormed(mm) /\ Len(mm.queue) = Len(m.mem.queue) - 1
      /\ next \in Seq(Pkts)
      /\ Waiting(m.mem) = next \o Waiting(mm)
      /\ DueOK(Tail(acks) \o Acks(next), mm)
  BY DEF Shifted
<1>4. /\ a.mem = mm /\ a.total_size = m.total_size - 1 /\ a.buffer = m.buffer /\ a.states = m.states
      /\ a \in Stores
  <2>1. a = [mem |-> mm, total_size |-> m.total_size - 1, buffer |-> m.buffer, states |-> m.states]
    BY <1>1 DEF Stores, AckedStore
  <2>2. mm \in Mems /\ m.total_size - 1 \in Int
    BY <1>2, <1>3
  <2> QED BY <1>2, <2>1, <2>2 DEF Stores
<1>5. Sized(a)
  <2>1. m.total_size = Len(m.mem.queue) + Len(m.buffer)
    BY <1>1 DEF Sized
  <2>2. PICK i \in Nat : i = Len(m.mem.queue)
    BY <1>2
  <2>3. PICK j \in Nat : j = Len(m.buffer)
    BY <1>2
  <2>4. (i + j) - 1 = (i - 1) + j
    OBVIOUS
  <2> QED BY <1>3, <1>4, <2>1, <2>2, <2>3, <2>4 DEF Sized
<1>6. JobOK(a, tk) /\ FlagOK(a, tk, d)
  BY <1>1, <1>4 DEF JobOK, FlagOK
<1>7. PICK v \in Seq(Pkts) : v = Waiting(mm)
  BY <1>3, WaitingIs
<1>8. Messages(Waiting(m.mem)) = Messages(next) \o Messages(v)
  <2>1. Messages(next \o v) = Messages(next) \o Messages(v)
    BY <1>3, MessagesConcat
  <2> QED BY <1>3, <1>7, <2>1, Zenon
<1>9. PICK s1 \in Seq(Pub) : s1 = Messages(next)
  BY <1>3, MessagesConcat
<1>10. PICK s2 \in Seq(Pub) : s2 = Messages(v)
  BY MessagesConcat
<1>11. OrderOK(a, tk, d, n, out \o s1)
  <2>1. PICK f \in Seq(Pub) : f = InTask(tk, "fetched")
    BY <1>1, EmptyFacts DEF JobOK, Tasks, InTask
  <2>2. PICK s \in Seq(Pub) : s = InTask(tk, "store")
    BY <1>1, EmptyFacts DEF JobOK, Tasks, InTask
  <2>3. PICK u \in Seq(Pub) : u = s1 \o s2
    BY ConcatFacts
  <2>4. InOrder(out, u, f, d, s, m.buffer, n)
    BY <1>1, <1>8, <1>9, <1>10, <2>1, <2>2, <2>3 DEF OrderOK
  <2>5. InOrder(out \o s1, s2, f, d, s, m.buffer, n)
    BY <1>1, <1>2, <2>3, <2>4, OrderSend
  <2> QED BY <1>4, <1>7, <1>10, <2>1, <2>2, <2>5 DEF OrderOK
<1>12. out \o s1 \in Seq(Pub)
  BY <1>1, ConcatFacts
<1> QED BY <1>1, <1>3, <1>4, <1>5, <1>6, <1>9, <1>11, <1>12 DEF Core

\* use_buffered_messages, with an empty queue and nothing outside the memory.
LEMMA UseCore ==
  ASSUME NEW m, NEW tk, NEW d, NEW acks, NEW n, NEW out, Core(m, tk, d, acks, n, out),
         m.mem.queue = <<>>, "STORED" \notin m.states, NEW c, c = UseBuffered(m)
  PROVE  /\ Core(c.store, tk, d, acks \o Acks(c.sends), n, out \o Messages(c.sends))
         /\ c.store.states = m.states \ {"BUFFERED"} /\ c.sends \in Seq(Pub)
<1>1. /\ m \in Stores /\ WellFormed(m.mem) /\ Sized(m) /\ DueOK(acks, m.mem)
      /\ JobOK(m, tk) /\ FlagOK(m, tk, d) /\ OrderOK(m, tk, d, n, out)
      /\ d \in Seq(Pub) /\ out \in Seq(Pub) /\ n \in Nat
  BY DEF Core
<1>2. m.mem \in Mems /\ m.total_size \in Int /\ m.states \in SUBSET Flags
  BY <1>1, Fields
<1>3. PICK b \in Seq(Pub) : b = m.buffer
  BY <1>1, Fields
<1>4. PICK e : e = [m EXCEPT !.buffer = <<>>, !.states = @ \ {"BUFFERED"}]
  OBVIOUS
<1>5. /\ e = [mem |-> m.mem, total_size |-> m.total_size, buffer |-> <<>>,
              states |-> m.states \ {"BUFFERED"}]
      /\ e.mem = m.mem
  BY <1>1, <1>4 DEF Stores
<1>6. c = ContinueSend(e, b)
  BY <1>3, <1>4 DEF UseBuffered
<1>7. PICK mm \in Mems : Continued(e, b, acks, c, mm)
  <2>1. e.mem \in Mems /\ WellFormed(e.mem) /\ e.mem.queue = <<>> /\ DueOK(acks, e.mem)
    BY <1>1, <1>2, <1>5
  <2> QED BY <1>6, <2>1, MemContinue
<1>8. /\ c.store = [e EXCEPT !.mem = mm] /\ WellFormed(mm) /\ mm.queue = b
      /\ c.sends \in Seq(Pub) /\ Waiting(mm) \in Seq(Pub) /\ b = c.sends \o Waiting(mm)
      /\ DueOK(acks \o Acks(c.sends), mm)
  BY <1>7 DEF Continued
<1>9. PICK x : x = c.store
  OBVIOUS
<1>10. x = [mem |-> mm, total_size |-> m.total_size, buffer |-> <<>>, states |-> m.states \ {"BUFFERED"}]
  BY <1>5, <1>8, <1>9
<1>11. /\ x.mem = mm /\ x.total_size = m.total_size /\ x.buffer = <<>>
       /\ x.states = m.states \ {"BUFFERED"} /\ x \in Stores
  <2>1. <<>> \in Seq(Pub) /\ m.states \ {"BUFFERED"} \in SUBSET Flags
    BY <1>2
  <2> QED BY <1>2, <1>10, <2>1 DEF Stores
<1>12. Sized(x)
  <2>1. m.total_size = Len(m.mem.queue) + Len(b) /\ Len(m.mem.queue) = 0 /\ Len(x.buffer) = 0
    BY <1>1, <1>3, <1>11 DEF Sized
  <2>2. Len(b) \in Nat /\ Len(x.mem.queue) = Len(b)
    BY <1>8, <1>11, LenProperties
  <2>3. 0 + Len(b) = Len(b) + 0
    BY <2>2
  <2> QED BY <1>11, <2>1, <2>2, <2>3 DEF Sized
<1>13. JobOK(x, tk)
  BY <1>1, <1>11 DEF JobOK
<1>14. d = <<>> /\ tk.packets = <<>> /\ "STORING" \notin m.states
  BY <1>1 DEF FlagOK
<1>15. FlagOK(x, tk, d)
  BY <1>11, <1>14 DEF FlagOK
<1>16. InTask(tk, "fetched") = <<>> /\ InTask(tk, "store") = <<>>
  BY <1>14 DEF InTask
<1>17. Waiting(m.mem) = <<>>
  <2>1. /\ Len(Waiting(m.mem)) = Len(m.mem.queue) - m.mem.inflight
        /\ m.mem.inflight \in 0 .. Len(m.mem.queue)
        /\ Waiting(m.mem) \in Seq(Pkts)
    BY <1>1, <1>2, WaitingIs
  <2>2. Len(m.mem.queue) = 0
    OBVIOUS
  <2>3. Len(Waiting(m.mem)) = 0
    BY <2>1, <2>2
  <2> QED BY <2>1, <2>3, EmptyFacts
<1>18. PICK s \in Seq(Pub) : s = c.sends /\ s = Messages(c.sends)
  BY <1>8, MessagesAll
<1>19. PICK v \in Seq(Pub) : v = Waiting(mm) /\ v = Messages(Waiting(mm))
  BY <1>8, MessagesAll
<1>20. InOrder(out, <<>>, <<>>, <<>>, <<>>, b, n)
  <2>1. Messages(<<>>) = <<>>
    BY EmptyFacts, MessagesAll
  <2> QED BY <1>1, <1>3, <1>14, <1>16, <1>17, <2>1 DEF OrderOK
<1>21. InOrder(out \o s, v, <<>>, <<>>, <<>>, <<>>, n)
  <2>1. PICK z \in Seq(Pub) : z = <<>>
    BY EmptyFacts
  <2>2. InOrder(out, b, z, z, z, z, n)
    BY <1>1, <1>20, <2>1, OrderUse
  <2>3. b = s \o v
    BY <1>8, <1>18, <1>19
  <2>4. InOrder(out \o s, v, z, z, z, z, n)
    BY <1>1, <2>2, <2>3, OrderSend
  <2> QED BY <2>1, <2>4
<1>22. OrderOK(x, tk, d, n, out \o s)
  BY <1>11, <1>14, <1>16, <1>19, <1>21 DEF OrderOK
<1>23. out \o s \in Seq(Pub)
  BY <1>1, ConcatFacts
<1>24. Core(x, tk, d, acks \o Acks(c.sends), n, out \o s)
  BY <1>1, <1>8, <1>11, <1>12, <1>13, <1>15, <1>22, <1>23 DEF Core
<1> QED BY <1>8, <1>9, <1>11, <1>18, <1>24

\* mongodb_store_acknowledge, for the packet whose acknowledgement comes next.
LEMMA AckGood ==
  ASSUME NEW m, NEW tk, NEW d, NEW acks, NEW n, NEW out, Good(m, tk, d, acks, n, out),
         acks # <<>>, NEW type, NEW qos, Answers(Head(acks).ack, type, qos),
         NEW o, o = MongoAcknowledge(m, Head(acks).packet_id, type, qos)
  PROVE  /\ Good(o.store, Job(o, tk), d, Tail(acks) \o Acks(o.sends), n, out \o Messages(o.sends))
         /\ o.sends \in Seq(Pkts)
<1>1. PICK id : id = Head(acks).packet_id
  OBVIOUS
<1>2. PICK mm : mm = Acknowledge(m.mem, id, type, qos)
  OBVIOUS
<1>3. PICK next : next = NextToSend(m.mem, id, type, qos)
  OBVIOUS
<1>4. m \in Stores /\ WellFormed(m.mem) /\ DueOK(acks, m.mem) /\ RestOK(m) /\ Core(m, tk, d, acks, n, out)
  BY DEF Good, Core
<1>5. Acknowledged(m.mem, id, type, qos) # {} /\ Shifted(m.mem, acks, mm, next)
  <2>1. PICK mem \in Mems : mem = m.mem
    BY <1>4, Fields
  <2>2. WellFormed(mem) /\ DueOK(acks, mem)
    BY <1>4, <2>1
  <2>3. /\ Acknowledged(mem, id, type, qos) # {}
        /\ Shifted(mem, acks, Acknowledge(mem, id, type, qos), NextToSend(mem, id, type, qos))
    BY <1>1, <2>2, MemAck
  <2> QED BY <1>2, <1>3, <2>1, <2>3
<1>6. PICK a : a = AckedStore(m, mm)
  OBVIOUS
<1>7. PICK due1 : due1 = Tail(acks) \o Acks(next)
  OBVIOUS
<1>8. PICK out1 : out1 = out \o Messages(next)
  OBVIOUS
<1>9. /\ Core(a, tk, d, due1, n, out1)
      /\ a.mem = mm /\ a.states = m.states /\ a.buffer = m.buffer
  BY <1>4, <1>5, <1>6, <1>7, <1>8, AckCore
<1>10. /\ a \in Stores /\ Sized(a) /\ JobOK(a, tk) /\ FlagOK(a, tk, d)
       /\ next \in Seq(Pkts) /\ (mm.queue = <<>> => next = <<>>)
  BY <1>5, <1>9 DEF Core, Shifted
<1>11. a.total_size = Len(a.buffer) <=> mm.queue = <<>>
  <2>1. /\ a.total_size = Len(mm.queue) + Len(a.buffer)
        /\ Len(mm.queue) \in Nat /\ Len(a.buffer) \in Nat /\ mm.queue \in Seq(Pkts)
    BY <1>9, <1>10, Fields DEF Sized
  <2>2. a.total_size = Len(a.buffer) <=> Len(mm.queue) = 0
    <3>1. PICK i \in Nat : i = Len(mm.queue)
      BY <2>1
    <3>2. PICK j \in Nat : j = Len(a.buffer)
      BY <2>1
    <3>3. i + j = j <=> i = 0
      OBVIOUS
    <3> QED BY <2>1, <3>1, <3>2, <3>3
  <2>3. Len(mm.queue) = 0 <=> mm.queue = <<>>
    BY <2>1, EmptyFacts
  <2> QED BY <2>2, <2>3
<1>12. a = [m EXCEPT !.mem = Acknowledge(@, id, type, qos),
                     !.total_size = IF Acknowledged(m.mem, id, type, qos) # {} THEN @ - 1 ELSE @]
  BY <1>2, <1>4, <1>5, <1>6 DEF AckedStore, Stores
<1>13. CASE mm.queue # <<>> \/ "BUFFERED" \notin m.states
  <2>1. o = Outcome(a, next, NoTask)
    BY <1>1, <1>3, <1>9, <1>11, <1>12, <1>13 DEF MongoAcknowledge
  <2>2. o.store = a /\ o.sends = next /\ Job(o, tk) = tk
    BY <2>1 DEF Outcome, Job
  <2>3. RestOK(a)
    BY <1>9, <1>10, <1>13 DEF RestOK, FlagOK
  <2> QED BY <1>7, <1>8, <1>9, <1>10, <2>2, <2>3 DEF Good
<1>14. CASE mm.queue = <<>> /\ "BUFFERED" \in m.states /\ "STORED" \notin m.states
  <2>1. PICK c : c = UseBuffered(a)
    OBVIOUS
  <2>2. o = Outcome(c.store, c.sends \o next, NoTask)
    BY <1>1, <1>3, <1>9, <1>11, <1>12, <1>14, <2>1 DEF MongoAcknowledge
  <2>3. /\ Core(c.store, tk, d, due1 \o Acks(c.sends), n, out1 \o Messages(c.sends))
        /\ c.store.states = m.states \ {"BUFFERED"} /\ c.sends \in Seq(Pub)
    BY <1>9, <1>14, <2>1, UseCore
  <2>4. next = <<>>
    BY <1>10, <1>14
  <2>5. c.sends \in Seq(Pkts) /\ c.sends \o <<>> = c.sends
    BY <2>3, MessagesAll, EmptyFacts
  <2>6. o.store = c.store /\ o.sends = c.sends /\ Job(o, tk) = tk
    BY <2>2, <2>4, <2>5 DEF Outcome, Job
  <2>7. due1 = Tail(acks) /\ out1 = out
    <3>1. Acks(<<>>) = <<>>
      BY DEF Acks
    <3>2. Messages(<<>>) = <<>>
      BY EmptyFacts, MessagesAll
    <3>3. acks \in Seq(AckRecs) /\ out \in Seq(Pub)
      BY <1>4 DEF DueOK, Core
    <3>4. Tail(acks) \in Seq(AckRecs)
      BY <3>3, HeadTailProperties
    <3> QED BY <1>7, <1>8, <2>4, <3>1, <3>2, <3>3, <3>4, EmptyFacts
  <2>8. RestOK(c.store)
    BY <1>9, <1>10, <1>14, <2>3 DEF RestOK, FlagOK
  <2> QED BY <2>3, <2>5, <2>6, <2>7, <2>8 DEF Good
<1>15. CASE mm.queue = <<>> /\ "BUFFERED" \in m.states /\ "STORED" \in m.states /\ Busy(a)
  <2>1. PICK y : y = Set(a, "NEED_FETCH")
    OBVIOUS
  <2>2. o = Outcome(y, next, NoTask)
    BY <1>1, <1>3, <1>9, <1>11, <1>12, <1>15, <2>1 DEF MongoAcknowledge
  <2>3. o.store = y /\ o.sends = next /\ Job(o, tk) = tk
    BY <2>2 DEF Outcome, Job
  <2>4. PICK S \in SUBSET Flags : S = a.states \cup {"NEED_FETCH"}
    BY <1>10, Fields DEF Flags
  <2>5. y = [a EXCEPT !.states = S]
    BY <2>1, <2>4 DEF Set
  <2>6. Core(y, tk, d, due1, n, out1) /\ y.mem = mm /\ y.states = S
    <3>1. \A flag \in {"STORING", "FETCHING", "STORED", "BUFFERED"} : flag \in S <=> flag \in a.states
      BY <2>4
    <3> QED BY <1>9, <2>5, <3>1, FlagCore
  <2>7. RestOK(y)
    BY <1>15, <2>4, <2>6 DEF RestOK, Busy
  <2> QED BY <1>7, <1>8, <1>10, <2>3, <2>6, <2>7 DEF Good
<1>16. CASE mm.queue = <<>> /\ "BUFFERED" \in m.states /\ "STORED" \in m.states /\ ~ Busy(a)
  <2>1. o = InitiateFetching(a, next)
    BY <1>1, <1>3, <1>9, <1>11, <1>12, <1>16 DEF MongoAcknowledge
  <2>2. tk = NoTask
    BY <1>10, <1>16, IdleTask DEF JobOK, Tasks, Busy
  <2>3. Good(o.store, Job(o, NoTask), d, due1, n, out1) /\ o.sends = next
    BY <1>9, <2>1, <2>2, InitiateFetchingGood
  <2> QED BY <1>7, <1>8, <1>10, <2>2, <2>3
<1> QED BY <1>13, <1>14, <1>15, <1>16

LEMMA NewMem ==
  ASSUME NEW mem, NEW mm, NEW k, NEW b, NEW S
  PROVE  [[mem |-> mem, total_size |-> k, buffer |-> b, states |-> S] EXCEPT !.mem = mm]
           = [mem |-> mm, total_size |-> k, buffer |-> b, states |-> S]
OBVIOUS

\* A fetched batch becomes the sending queue, which was empty.
LEMMA ArrivedCore ==
  ASSUME NEW m, NEW tk, NEW d, NEW acks, NEW n, NEW out, Core(m, tk, d, acks, n, out),
         tk.op = "fetched", tk.packets # <<>>, m.mem.queue = <<>>,
         NEW x, x = [Clear(m, "FETCHING") EXCEPT !.total_size = @ + Len(tk.packets)],
         NEW c, c = ContinueSend(x, tk.packets)
  PROVE  /\ Core(c.store, NoTask, d, acks \o Acks(c.sends), n, out \o Messages(c.sends))
         /\ c.store.mem.queue # <<>> /\ c.sends \in Seq(Pub)
<1>1. /\ m \in Stores /\ WellFormed(m.mem) /\ Sized(m) /\ DueOK(acks, m.mem)
      /\ JobOK(m, tk) /\ FlagOK(m, tk, d) /\ OrderOK(m, tk, d, n, out)
      /\ d \in Seq(Pub) /\ out \in Seq(Pub) /\ n \in Nat
  BY DEF Core
<1>2. m.mem \in Mems /\ m.total_size \in Int /\ m.states \in SUBSET Flags /\ m.buffer \in Seq(Pub)
  BY <1>1, Fields
<1>3. PICK ps \in Seq(Pub) : ps = tk.packets
  BY <1>1 DEF JobOK, Tasks
<1>4. Len(ps) \in Nat /\ Len(m.buffer) \in Nat
  BY <1>2, EmptyFacts
<1>5. /\ x = [mem |-> m.mem, total_size |-> m.total_size + Len(ps), buffer |-> m.buffer,
              states |-> m.states \ {"FETCHING"}]
      /\ x.mem = m.mem
  BY <1>1, <1>3 DEF Stores, Clear
<1>6. PICK mm \in Mems : Continued(x, ps, acks, c, mm)
  <2>1. x.mem \in Mems /\ WellFormed(x.mem) /\ x.mem.queue = <<>> /\ DueOK(acks, x.mem)
    BY <1>1, <1>2, <1>5
  <2> QED BY <1>3, <2>1, MemContinue
<1>7. /\ c.store = [x EXCEPT !.mem = mm] /\ WellFormed(mm) /\ mm.queue = ps
      /\ c.sends \in Seq(Pub) /\ Waiting(mm) \in Seq(Pub) /\ ps = c.sends \o Waiting(mm)
      /\ DueOK(acks \o Acks(c.sends), mm)
  BY <1>6 DEF Continued
<1>8. PICK y : y = c.store
  OBVIOUS
<1>9. y = [mem |-> mm, total_size |-> m.total_size + Len(ps), buffer |-> m.buffer,
           states |-> m.states \ {"FETCHING"}]
  <2>1. PICK k : k = m.total_size + Len(ps)
    OBVIOUS
  <2>2. PICK S : S = m.states \ {"FETCHING"}
    OBVIOUS
  <2>3. PICK e : e = [mem |-> m.mem, total_size |-> k, buffer |-> m.buffer, states |-> S]
    OBVIOUS
  <2>4. [e EXCEPT !.mem = mm] = [mem |-> mm, total_size |-> k, buffer |-> m.buffer, states |-> S]
    BY <2>3, NewMem
  <2>5. x = e
    BY <1>5, <2>1, <2>2, <2>3
  <2>6. y = [x EXCEPT !.mem = mm]
    BY <1>7, <1>8
  <2>7. y = [e EXCEPT !.mem = mm]
    BY <2>5, <2>6, Zenon
  <2> QED BY <2>1, <2>2, <2>4, <2>7, Zenon
<1>10. /\ y.mem = mm /\ y.total_size = m.total_size + Len(ps) /\ y.buffer = m.buffer
       /\ y.states = m.states \ {"FETCHING"} /\ y \in Stores
  <2>1. m.total_size + Len(ps) \in Int /\ m.states \ {"FETCHING"} \in SUBSET Flags
    BY <1>2, <1>4
  <2> QED BY <1>2, <1>9, <2>1 DEF Stores
<1>11. Sized(y)
  <2>1. m.total_size = Len(m.mem.queue) + Len(m.buffer) /\ Len(m.mem.queue) = 0
    BY <1>1 DEF Sized
  <2>2. PICK i \in Nat : i = Len(m.buffer)
    BY <1>4
  <2>3. PICK j \in Nat : j = Len(ps)
    BY <1>4
  <2>4. (0 + i) + j = j + i
    OBVIOUS
  <2> QED BY <1>7, <1>10, <2>1, <2>2, <2>3, <2>4 DEF Sized
<1>12. "STORED" \in m.states /\ "BUFFERED" \in m.states /\ "STORING" \notin m.states
  BY <1>1 DEF FlagOK, JobOK
<1>13. JobOK(y, NoTask)
  BY <1>10, <1>12, IdleTask DEF JobOK
<1>14. FlagOK(y, NoTask, d)
  BY <1>10, <1>12, IdleTask DEF FlagOK
<1>15. Waiting(m.mem) = <<>>
  <2>1. /\ Len(Waiting(m.mem)) = Len(m.mem.queue) - m.mem.inflight
        /\ m.mem.inflight \in 0 .. Len(m.mem.queue)
        /\ Waiting(m.mem) \in Seq(Pkts)
    BY <1>1, <1>2, WaitingIs
  <2>2. Len(m.mem.queue) = 0
    OBVIOUS
  <2>3. Len(Waiting(m.mem)) = 0
    BY <2>1, <2>2
  <2> QED BY <2>1, <2>3, EmptyFacts
<1>16. PICK s \in Seq(Pub) : s = c.sends /\ s = Messages(c.sends)
  BY <1>7, MessagesAll
<1>17. PICK v \in Seq(Pub) : v = Waiting(mm) /\ v = Messages(Waiting(mm))
  BY <1>7, MessagesAll
<1>18. InOrder(out, <<>>, ps, d, <<>>, m.buffer, n)
  <2>1. Messages(<<>>) = <<>>
    BY EmptyFacts, MessagesAll
  <2>2. InTask(tk, "fetched") = ps /\ InTask(tk, "store") = <<>>
    BY <1>3 DEF InTask
  <2> QED BY <1>1, <1>15, <2>1, <2>2 DEF OrderOK
<1>19. InOrder(out \o s, v, <<>>, d, <<>>, m.buffer, n)
  <2>1. PICK z \in Seq(Pub) : z = <<>>
    BY EmptyFacts
  <2>2. InOrder(out, ps, z, d, z, m.buffer, n)
    BY <1>1, <1>2, <1>18, <2>1, OrderFetched
  <2>3. ps = s \o v
    BY <1>7, <1>16, <1>17
  <2>4. InOrder(out \o s, v, z, d, z, m.buffer, n)
    BY <1>1, <1>2, <2>2, <2>3, OrderSend
  <2> QED BY <2>1, <2>4
<1>20. OrderOK(y, NoTask, d, n, out \o s)
  BY <1>10, <1>17, <1>19, IdleTask DEF OrderOK
<1>21. out \o s \in Seq(Pub)
  BY <1>1, ConcatFacts
<1>22. Core(y, NoTask, d, acks \o Acks(c.sends), n, out \o s)
  BY <1>1, <1>7, <1>10, <1>11, <1>13, <1>14, <1>20, <1>21 DEF Core
<1> QED BY <1>3, <1>7, <1>8, <1>10, <1>16, <1>22

\* A fetch that found nothing: the messages are in memory, all of them.
NothingOutside(m, S) ==
  /\ S \in {m.states \ {"FETCHING", "STORED"}, m.states \ {"FETCHING", "STORED", "BUFFERED"}}
  /\ "BUFFERED" \in S \/ m.buffer = <<>>

LEMMA NothingLeftCore ==
  ASSUME NEW m, NEW tk, NEW d, NEW acks, NEW n, NEW out, Core(m, tk, d, acks, n, out),
         tk.op = "fetched", tk.packets = <<>>,
         NEW S, NothingOutside(m, S), NEW x, x = [m EXCEPT !.states = S]
  PROVE  Core(x, NoTask, d, acks, n, out) /\ x.mem = m.mem /\ x.buffer = m.buffer /\ x.states = S
<1>1. /\ m \in Stores /\ WellFormed(m.mem) /\ Sized(m) /\ DueOK(acks, m.mem)
      /\ JobOK(m, tk) /\ FlagOK(m, tk, d) /\ OrderOK(m, tk, d, n, out)
      /\ d \in Seq(Pub) /\ out \in Seq(Pub) /\ n \in Nat
  BY DEF Core
<1>2. x.mem = m.mem /\ x.total_size = m.total_size /\ x.buffer = m.buffer /\ x.states = S /\ x \in Stores
  <2>1. S \in SUBSET Flags
    BY <1>1, Fields DEF NothingOutside
  <2> QED BY <1>1, <2>1 DEF Stores
<1>3. d = <<>> /\ "STORING" \notin m.states
  BY <1>1 DEF FlagOK, JobOK
<1>4. JobOK(x, NoTask)
  BY <1>2, <1>3, IdleTask DEF JobOK, NothingOutside
<1>5. FlagOK(x, NoTask, d)
  <2>1. "STORED" \notin S /\ "STORING" \notin S
    BY <1>3 DEF NothingOutside
  <2>2. "BUFFERED" \in S \/ m.buffer = <<>>
    BY DEF NothingOutside
  <2> QED BY <1>2, <1>3, <2>1, <2>2, IdleTask DEF FlagOK
<1>6. OrderOK(x, NoTask, d, n, out)
  <2>1. InTask(tk, "fetched") = <<>> /\ InTask(tk, "store") = <<>>
    BY DEF InTask
  <2> QED BY <1>1, <1>2, <2>1, IdleTask DEF OrderOK
<1> QED BY <1>1, <1>2, <1>4, <1>5, <1>6 DEF Core, Sized

\* fetch_message_done, when it does not replace packets of the queue.
LEMMA FetchedGood ==
  ASSUME NEW m, NEW tk, NEW d, NEW acks, NEW n, NEW out, Good(m, tk, d, acks, n, out),
         tk.op = "fetched", Replaced(m, tk.packets) = <<>>,
         NEW o, o = FetchMessageDone(m, tk.packets)
  PROVE  Good(o.store, Job(o, NoTask), d, acks \o Acks(o.sends), n, out \o Messages(o.sends))
<1>1. m \in Stores /\ Core(m, tk, d, acks, n, out) /\ JobOK(m, tk)
  BY DEF Good, Core
<1>2. CASE tk.packets # <<>>
  <2>1. PICK x : x = [Clear(m, "FETCHING") EXCEPT !.total_size = @ + Len(tk.packets)]
    OBVIOUS
  <2>2. PICK c : c = ContinueSend(x, tk.packets)
    OBVIOUS
  <2>3. m.mem.queue = <<>>
    BY <1>2 DEF Replaced
  <2>4. /\ Core(c.store, NoTask, d, acks \o Acks(c.sends), n, out \o Messages(c.sends))
        /\ c.store.mem.queue # <<>> /\ c.sends \in Seq(Pub)
    BY <1>1, <1>2, <2>1, <2>2, <2>3, ArrivedCore
  <2>5. o = ThenNext(c.store, c.sends)
    BY <1>2, <2>1, <2>2 DEF FetchMessageDone
  <2>6. Good(o.store, Job(o, NoTask), d, acks \o Acks(c.sends), n, out \o Messages(c.sends)) /\ o.sends = c.sends
    BY <2>4, <2>5, ThenNextGood
  <2> QED BY <2>6
<1>3. CASE tk.packets = <<>> /\ m.buffer # <<>>
  <2>1. PICK x : x = Clear(Clear(m, "FETCHING"), "STORED")
    OBVIOUS
  <2>2. PICK S : S = m.states \ {"FETCHING", "STORED"}
    OBVIOUS
  <2>3. x = [m EXCEPT !.states = S]
    <3>1. (m.states \ {"FETCHING"}) \ {"STORED"} = S
      BY <2>2
    <3> QED BY <1>1, <2>1, <3>1 DEF Clear, Stores
  <2>4. Core(x, NoTask, d, acks, n, out) /\ x.mem = m.mem /\ x.states = S
    <3>1. "BUFFERED" \in S
      BY <1>1, <1>3, <2>2 DEF Core, FlagOK
    <3>2. S \in {m.states \ {"FETCHING", "STORED"}, m.states \ {"FETCHING", "STORED", "BUFFERED"}}
      BY <2>2
    <3>3. NothingOutside(m, S) /\ tk.packets = <<>>
      BY <1>3, <3>1, <3>2 DEF NothingOutside
    <3> QED BY <1>1, <2>3, <3>3, NothingLeftCore
  <2>5. m.mem.queue = <<>>
    BY <1>3 DEF Replaced
  <2>6. PICK c : c = UseBuffered(x)
    OBVIOUS
  <2>7. /\ Core(c.store, NoTask, d, acks \o Acks(c.sends), n, out \o Messages(c.sends))
        /\ c.store.states = S \ {"BUFFERED"} /\ c.sends \in Seq(Pub)
    BY <2>2, <2>4, <2>5, <2>6, UseCore
  <2>8. o = ThenNext(c.store, c.sends)
    <3>1. Clear(m, "FETCHING").buffer = m.buffer
      BY <1>1 DEF Clear, Stores
    <3> QED BY <1>3, <2>1, <2>6, <3>1 DEF FetchMessageDone
  <2>9. "BUFFERED" \notin c.store.states
    BY <2>7
  <2>10. Good(o.store, Job(o, NoTask), d, acks \o Acks(c.sends), n, out \o Messages(c.sends)) /\ o.sends = c.sends
    BY <2>7, <2>8, <2>9, ThenNextGood
  <2> QED BY <2>10
<1>4. CASE tk.packets = <<>> /\ m.buffer = <<>>
  <2>1. PICK x : x = Clear(Clear(Clear(m, "FETCHING"), "STORED"), "BUFFERED")
    OBVIOUS
  <2>2. PICK S : S = m.states \ {"FETCHING", "STORED", "BUFFERED"}
    OBVIOUS
  <2>3. x = [m EXCEPT !.states = S]
    <3>1. ((m.states \ {"FETCHING"}) \ {"STORED"}) \ {"BUFFERED"} = S
      BY <2>2
    <3> QED BY <1>1, <2>1, <3>1 DEF Clear, Stores
  <2>4. Core(x, NoTask, d, acks, n, out) /\ x.mem = m.mem /\ x.states = S
    <3>1. S \in {m.states \ {"FETCHING", "STORED"}, m.states \ {"FETCHING", "STORED", "BUFFERED"}}
      BY <2>2
    <3>2. "BUFFERED" \in S \/ m.buffer = <<>>
      BY <1>4
    <3>3. tk.packets = <<>>
      BY <1>4
    <3>4. NothingOutside(m, S)
      BY <3>1, <3>2 DEF NothingOutside
    <3> QED BY <1>1, <2>3, <3>3, <3>4, NothingLeftCore
  <2>5. o = ThenNext(x, <<>>)
    <3>1. Clear(m, "FETCHING").buffer = m.buffer
      BY <1>1 DEF Clear, Stores
    <3> QED BY <1>4, <2>1, <3>1 DEF FetchMessageDone
  <2>6. "BUFFERED" \notin x.states
    BY <2>2, <2>4
  <2>7. Good(o.store, Job(o, NoTask), d, acks, n, out) /\ o.sends = <<>>
    BY <2>4, <2>5, <2>6, ThenNextGood
  <2>8. acks \o Acks(<<>>) = acks /\ out \o Messages(<<>>) = out
    <3>1. Acks(<<>>) = <<>>
      BY DEF Acks
    <3>2. Messages(<<>>) = <<>>
      BY EmptyFacts, MessagesAll
    <3>3. acks \in Seq(AckRecs) /\ out \in Seq(Pub)
      BY <1>1 DEF DueOK, Core
    <3> QED BY <3>1, <3>2, <3>3, EmptyFacts
  <2> QED BY <2>7, <2>8
<1> QED BY <1>2, <1>3, <1>4

\* store_messages_in_thread_pool, when the insert succeeds.
LEMMA StoreTaskGood ==
  ASSUME NEW m, NEW tk, NEW d, NEW acks, NEW n, NEW out, Good(m, tk, d, acks, n, out),
         tk.op = "store", NEW rc, rc = [op |-> "stored", packets |-> <<>>]
  PROVE  Good(m, rc, d \o tk.packets, acks, n, out)
<1>1. /\ m \in Stores /\ WellFormed(m.mem) /\ Sized(m) /\ DueOK(acks, m.mem)
      /\ JobOK(m, tk) /\ FlagOK(m, tk, d) /\ OrderOK(m, tk, d, n, out)
      /\ d \in Seq(Pub) /\ out \in Seq(Pub) /\ n \in Nat /\ RestOK(m)
  BY DEF Good, Core
<1>2. PICK ps \in Seq(Pub) : ps = tk.packets
  BY <1>1 DEF JobOK, Tasks
<1>3. rc \in Tasks /\ rc.op = "stored" /\ rc.packets = <<>>
  <2>1. <<>> \in Seq(Pub)
    OBVIOUS
  <2> QED BY <2>1 DEF Tasks
<1>4. /\ "STORING" \in m.states /\ "FETCHING" \notin m.states
      /\ "STORED" \in m.states /\ "BUFFERED" \in m.states
  BY <1>1 DEF JobOK, FlagOK
<1>5. JobOK(m, rc)
  BY <1>3, <1>4 DEF JobOK
<1>6. FlagOK(m, rc, d \o ps)
  BY <1>3, <1>4 DEF FlagOK
<1>7. d \o ps \in Seq(Pub)
  BY <1>1, ConcatFacts
<1>8. OrderOK(m, rc, d \o ps, n, out)
  <2>1. PICK w \in Seq(Pub) : w = Messages(Waiting(m.mem))
    BY <1>1, Fields, WaitingIs, MessagesConcat
  <2>2. PICK b \in Seq(Pub) : b = m.buffer
    BY <1>1, Fields
  <2>3. PICK z \in Seq(Pub) : z = <<>>
    BY EmptyFacts
  <2>4. InTask(tk, "fetched") = z /\ InTask(tk, "store") = ps
    BY <1>2, <2>3 DEF InTask
  <2>5. InTask(rc, "fetched") = z /\ InTask(rc, "store") = z
    BY <1>3, <2>3 DEF InTask
  <2>6. InOrder(out, w, z, d, ps, b, n)
    BY <1>1, <2>1, <2>2, <2>4 DEF OrderOK
  <2>7. InOrder(out, w, z, d \o ps, z, b, n)
    BY <1>1, <2>3, <2>6, OrderStored
  <2> QED BY <2>1, <2>2, <2>5, <2>7 DEF OrderOK
<1>9. Good(m, rc, d \o ps, acks, n, out)
  BY <1>1, <1>5, <1>6, <1>7, <1>8 DEF Good, Core
<1> QED BY <1>2, <1>9

\* fetch_messages_in_thread_pool, when the query succeeds: of the documents it takes
\* some, the oldest, unless there are none.
LEMMA FetchTaskGood ==
  ASSUME NEW m, NEW tk, NEW d, NEW acks, NEW n, NEW out, Good(m, tk, d, acks, n, out),
         tk.op = "fetch", NEW k \in 0 .. Len(d), k = 0 => d = <<>>,
         NEW rc, rc = [op |-> "fetched", packets |-> SubSeq(d, 1, k)]
  PROVE  Good(m, rc, SubSeq(d, k + 1, Len(d)), acks, n, out)
<1>1. /\ m \in Stores /\ WellFormed(m.mem) /\ Sized(m) /\ DueOK(acks, m.mem)
      /\ JobOK(m, tk) /\ FlagOK(m, tk, d) /\ OrderOK(m, tk, d, n, out)
      /\ d \in Seq(Pub) /\ out \in Seq(Pub) /\ n \in Nat /\ RestOK(m)
  BY DEF Good, Core
<1>2. PICK d1 : d1 = SubSeq(d, 1, k)
  OBVIOUS
<1>3. PICK d2 : d2 = SubSeq(d, k + 1, Len(d))
  OBVIOUS
<1>4. d1 \in Seq(Pub) /\ Len(d1) = k
  BY <1>1, <1>2, FrontFacts
<1>5. d2 \in Seq(Pub) /\ Len(d2) = Len(d) - k /\ Len(d) \in Nat
  BY <1>1, <1>3, RestFacts
<1>6. d = d1 \o d2
  BY <1>1, <1>2, <1>3, Split
<1>7. (d = <<>> => d1 = <<>> /\ d2 = <<>>) /\ (d1 = <<>> => d2 = <<>>)
  <2>1. d = <<>> => d1 = <<>> /\ d2 = <<>>
    <3>1. SUFFICES ASSUME d = <<>> PROVE d1 = <<>> /\ d2 = <<>>
      OBVIOUS
    <3>2. Len(d) = 0
      BY <3>1
    <3>3. k = 0
      BY <3>2
    <3>4. Len(d1) = 0 /\ Len(d2) = 0
      BY <1>4, <1>5, <3>2, <3>3
    <3> QED BY <1>4, <1>5, <3>4, EmptyFacts
  <2>2. d1 = <<>> => k = 0
    BY <1>4, EmptyFacts
  <2> QED BY <2>1, <2>2
<1>8. rc \in Tasks /\ rc.op = "fetched" /\ rc.packets = d1
  BY <1>2, <1>4 DEF Tasks
<1>9. "FETCHING" \in m.states /\ "STORING" \notin m.states
  BY <1>1 DEF JobOK
<1>10. JobOK(m, rc)
  BY <1>8, <1>9 DEF JobOK
<1>11. FlagOK(m, rc, d2)
  BY <1>1, <1>7, <1>8, <1>9 DEF FlagOK
<1>12. OrderOK(m, rc, d2, n, out)
  <2>1. PICK w \in Seq(Pub) : w = Messages(Waiting(m.mem))
    BY <1>1, Fields, WaitingIs, MessagesConcat
  <2>2. PICK b \in Seq(Pub) : b = m.buffer
    BY <1>1, Fields
  <2>3. PICK z \in Seq(Pub) : z = <<>>
    BY EmptyFacts
  <2>4. InTask(tk, "fetched") = z /\ InTask(tk, "store") = z
    BY <2>3 DEF InTask
  <2>5. InTask(rc, "fetched") = d1 /\ InTask(rc, "store") = z
    BY <1>8, <2>3 DEF InTask
  <2>6. InOrder(out, w, z, d, z, b, n)
    BY <1>1, <2>1, <2>2, <2>4 DEF OrderOK
  <2>7. InOrder(out, w, d1, d2, z, b, n)
    BY <1>1, <1>4, <1>5, <1>6, <2>3, <2>6, OrderFetch
  <2> QED BY <2>1, <2>2, <2>5, <2>7 DEF OrderOK
<1>13. Good(m, rc, d2, acks, n, out)
  BY <1>1, <1>5, <1>10, <1>11, <1>12 DEF Good, Core
<1> QED BY <1>3, <1>13

\* The acknowledgements of packets sent one after the other.
LEMMA AcksConcat ==
  ASSUME NEW s \in Seq(Pkts), NEW t \in Seq(Pkts)
  PROVE  /\ Acks(s) \in Seq(AckRecs) /\ Acks(t) \in Seq(AckRecs)
         /\ Acks(s \o t) = Acks(s) \o Acks(t)
<1>1. \A u \in Seq(Pkts) : /\ Acks(u) \in Seq(AckRecs) /\ Len(Acks(u)) = Len(u) /\ Len(u) \in Nat
                           /\ \A i \in 1 .. Len(u) : Acks(u)[i] = AckOf(u[i])
  <2>1. SUFFICES ASSUME NEW u \in Seq(Pkts)
                 PROVE  /\ Acks(u) \in Seq(AckRecs) /\ Len(Acks(u)) = Len(u) /\ Len(u) \in Nat
                        /\ \A i \in 1 .. Len(u) : Acks(u)[i] = AckOf(u[i])
    OBVIOUS
  <2>2. PICK l \in Nat : l = Len(u) /\ DOMAIN u = 1 .. l
    BY LenProperties
  <2>3. \A i \in 1 .. l : AckOf(u[i]) \in AckRecs
    BY <2>2, ElementOfSeq, AckOfType
  <2>4. Acks(u) = [i \in 1 .. l |-> AckOf(u[i])]
    BY <2>2 DEF Acks
  <2> QED BY <2>2, <2>3, <2>4
<1>2. PICK a \in Seq(AckRecs) : a = Acks(s) /\ Len(a) = Len(s) /\ \A i \in 1 .. Len(s) : a[i] = AckOf(s[i])
  BY <1>1
<1>3. PICK b \in Seq(AckRecs) : b = Acks(t) /\ Len(b) = Len(t) /\ \A i \in 1 .. Len(t) : b[i] = AckOf(t[i])
  BY <1>1
<1>4. PICK k \in Nat : k = Len(s)
  BY <1>1
<1>5. PICK l \in Nat : l = Len(t)
  BY <1>1
<1>6. PICK u : u = s \o t
  OBVIOUS
<1>7. /\ u \in Seq(Pkts) /\ Len(u) = k + l /\ \A i \in 1 .. k : u[i] = s[i]
      /\ \A i \in 1 .. l : u[k + i] = t[i]
  BY <1>4, <1>5, <1>6, ConcatFacts
<1>8. PICK c \in Seq(AckRecs) : c = Acks(u) /\ Len(c) = k + l /\ \A i \in 1 .. k + l : c[i] = AckOf(u[i])
  BY <1>1, <1>7
<1>9. PICK e : e = a \o b
  OBVIOUS
<1>10. /\ e \in Seq(AckRecs) /\ Len(e) = k + l /\ \A i \in 1 .. k : e[i] = a[i]
       /\ \A i \in 1 .. l : e[k + i] = b[i]
  <2>1. /\ a \o b \in Seq(AckRecs) /\ Len(a \o b) = Len(a) + Len(b)
        /\ \A i \in 1 .. Len(a) : (a \o b)[i] = a[i]
        /\ \A i \in 1 .. Len(b) : (a \o b)[Len(a) + i] = b[i]
    BY ConcatFacts
  <2>2. Len(a) = k /\ Len(b) = l
    BY <1>2, <1>3, <1>4, <1>5
  <2> QED BY <1>9, <2>1, <2>2
<1>11. ASSUME NEW i \in 1 .. k + l PROVE c[i] = e[i]
  <2>1. CASE i \in 1 .. k
    <3>1. c[i] = AckOf(u[i]) /\ u[i] = s[i]
      BY <1>7, <1>8, <2>1
    <3>2. e[i] = a[i] /\ a[i] = AckOf(s[i])
      BY <1>2, <1>4, <1>10, <2>1
    <3> QED BY <3>1, <3>2
  <2>2. CASE i \in k + 1 .. k + l
    <3>1. PICK j \in 1 .. l : i = k + j
      BY <2>2
    <3>2. c[k + j] = AckOf(t[j]) /\ e[k + j] = AckOf(t[j])
      BY <1>3, <1>5, <1>7, <1>8, <1>10, <3>1
    <3> QED BY <3>1, <3>2, Zenon
  <2> QED BY <2>1, <2>2
<1>12. c = e
  BY <1>8, <1>10, <1>11, SeqEqual
<1> QED BY <1>2, <1>3, <1>6, <1>8, <1>9, <1>12
-----------------------------------------------------------------------------
(* The specification.                                                      *)

\* The database has not failed and no fetched batch has replaced queued packets.
Clean == lost = {} /\ faults = 0

\* The inductive invariant.
MInv == faults \in Nat /\ (Clean => Good(store, task, db, due, published, sent))

LEMMA MInvInit == Init => MInv
<1>1. SUFFICES ASSUME Init PROVE Good(store, task, db, due, published, sent) /\ faults \in Nat
  BY DEF MInv
<1>2. /\ store = EmptyMongoStore /\ task = NoTask /\ db = <<>> /\ due = <<>>
      /\ published = 0 /\ sent = <<>> /\ faults = 0
  BY <1>1 DEF Init
<1>3. PICK mem : mem = [queue |-> <<>>, pending |-> 0, inflight |-> 0]
  OBVIOUS
<1>4. <<>> \in Seq(Pkts) /\ <<>> \in Seq(Pub) /\ <<>> \in Seq(AckRecs) /\ Len(<<>>) = 0
  BY EmptyFacts
<1>5. mem \in Mems /\ mem.queue = <<>> /\ mem.pending = 0 /\ mem.inflight = 0
  BY <1>3, <1>4 DEF Mems
<1>6. WellFormed(mem) /\ DueOK(<<>>, mem) /\ Waiting(mem) = <<>>
  <2>1. WellFormed(mem)
    BY <1>4, <1>5, WindowAssumption DEF WellFormed
  <2>2. DueOK(<<>>, mem)
    BY <1>4, <1>5 DEF DueOK
  <2> QED BY <1>5, <2>1, <2>2 DEF Waiting
<1>7. PICK m : m = [mem |-> mem, total_size |-> 0, buffer |-> <<>>, states |-> {}]
  OBVIOUS
<1>8. store = m
  BY <1>2, <1>3, <1>7 DEF EmptyMongoStore, EmptyStore
<1>9. m \in Stores /\ m.mem = mem /\ m.total_size = 0 /\ m.buffer = <<>> /\ m.states = {}
  <2>1. {} \in SUBSET Flags /\ 0 \in Int
    OBVIOUS
  <2> QED BY <1>4, <1>5, <1>7, <2>1 DEF Stores
<1>10. Sized(m) /\ RestOK(m)
  BY <1>4, <1>5, <1>9 DEF Sized, RestOK
<1>11. JobOK(m, NoTask)
  BY <1>9, IdleTask DEF JobOK
<1>12. FlagOK(m, NoTask, <<>>)
  BY <1>9, IdleTask DEF FlagOK
<1>13. OrderOK(m, NoTask, <<>>, 0, <<>>)
  <2>1. Messages(<<>>) = <<>>
    BY EmptyFacts, MessagesAll
  <2>2. InOrder(<<>>, <<>>, <<>>, <<>>, <<>>, <<>>, 0)
    BY <1>4, RunEmpty DEF InOrder
  <2> QED BY <1>6, <1>9, <2>1, <2>2, IdleTask DEF OrderOK
<1>14. Good(m, NoTask, <<>>, <<>>, 0, <<>>)
  BY <1>4, <1>6, <1>9, <1>10, <1>11, <1>12, <1>13 DEF Good, Core
<1> QED BY <1>2, <1>8, <1>14

LEMMA ApplyGives ==
  ASSUME NEW o, NEW acks, Apply(o, acks, task)
  PROVE  /\ store' = o.store /\ due' = acks \o Acks(o.sends)
         /\ sent' = sent \o Messages(o.sends) /\ task' = Job(o, task)
BY DEF Apply, Job

LEMMA ReceiptGives ==
  ASSUME NEW o, NEW acks, Apply(o, acks, NoTask)
  PROVE  /\ store' = o.store /\ due' = acks \o Acks(o.sends)
         /\ sent' = sent \o Messages(o.sends) /\ task' = Job(o, NoTask)
BY DEF Apply, Job

\* The state an action starts from, when it is clean afterwards.
GoodNow == Good(store, task, db, due, published, sent)

LEMMA PublishStep ==
  ASSUME GoodNow, NEW qos \in 1 .. 2, Publish(qos)
  PROVE  GoodNow'
<1>1. PICK p : p = Packet("PUBLISH", published + 1, qos)
  OBVIOUS
<1>2. published \in Nat
  BY DEF GoodNow, Good, Core
<1>3. p \in Pub /\ p.packet_id = published + 1
  <2>1. qos \in {1, 2} /\ published + 1 \in Nat
    BY <1>2
  <2> QED BY <1>1, <2>1 DEF Packet, Pub
<1>4. PICK o : o = MongoStoreMessage(store, p)
  OBVIOUS
<1>5. published' = published + 1 /\ db' = db /\ Apply(o, due, task)
  BY <1>1, <1>4 DEF Publish
<1>6. Good(o.store, Job(o, task), db, due \o Acks(o.sends), published + 1, sent \o Messages(o.sends))
  BY <1>3, <1>4, PublishGood DEF GoodNow
<1> QED BY <1>5, <1>6, ApplyGives DEF GoodNow

LEMMA AckedStep ==
  ASSUME GoodNow, NEW ack, NEW type, NEW qos, Answers(ack, type, qos), Acked(ack, type, qos)
  PROVE  GoodNow'
<1>1. PICK o : o = MongoAcknowledge(store, Head(due).packet_id, type, qos)
  OBVIOUS
<1>2. /\ due # <<>> /\ Head(due).ack = ack /\ Apply(o, Tail(due), task)
      /\ db' = db /\ published' = published
  BY <1>1 DEF Acked
<1>3. Good(o.store, Job(o, task), db, Tail(due) \o Acks(o.sends), published, sent \o Messages(o.sends))
  BY <1>1, <1>2, AckGood DEF GoodNow
<1> QED BY <1>2, <1>3, ApplyGives DEF GoodNow

LEMMA ReceivedStep ==
  ASSUME GoodNow, Received
  PROVE  GoodNow'
<1>1. PICK id : id = Head(due).packet_id
  OBVIOUS
<1>2. PICK a : a = MongoAcknowledge(store, id, "PUBLISH", 2)
  OBVIOUS
<1>3. PICK p : p = Packet("PUBREL", id, 0)
  OBVIOUS
<1>4. PICK r : r = MongoStoreMessage(a.store, p)
  OBVIOUS
<1>5. PICK o : o = Outcome(r.store, a.sends \o r.sends, a.task)
  OBVIOUS
<1>6. /\ due # <<>> /\ Head(due).ack = "PUBREC" /\ Apply(o, Tail(due), task)
      /\ db' = db /\ published' = published
  BY <1>1, <1>2, <1>3, <1>4, <1>5 DEF Received
<1>7. due \in Seq(AckRecs) /\ sent \in Seq(Pub)
  BY DEF GoodNow, Good, Core, DueOK
<1>8. Head(due) \in AckRecs /\ Tail(due) \in Seq(AckRecs)
  BY <1>6, <1>7, HeadTailProperties
<1>9. p \in Rel
  BY <1>1, <1>3, <1>8 DEF AckRecs, Packet, Rel
<1>10. Answers(Head(due).ack, "PUBLISH", 2)
  BY <1>6 DEF Answers
<1>11. /\ Good(a.store, Job(a, task), db, Tail(due) \o Acks(a.sends), published, sent \o Messages(a.sends))
       /\ a.sends \in Seq(Pkts)
  BY <1>1, <1>2, <1>6, <1>10, AckGood DEF GoodNow
<1>12. /\ Good(r.store, Job(a, task), db, (Tail(due) \o Acks(a.sends)) \o Acks(r.sends), published,
               (sent \o Messages(a.sends)) \o Messages(r.sends))
       /\ r.sends \in Seq(Pkts)
  BY <1>4, <1>9, <1>11, RelGood
<1>13. o.store = r.store /\ o.sends = a.sends \o r.sends /\ Job(o, task) = Job(a, task)
  BY <1>5 DEF Outcome, Job
<1>14. Tail(due) \o Acks(o.sends) = (Tail(due) \o Acks(a.sends)) \o Acks(r.sends)
  <2>1. /\ Acks(a.sends) \in Seq(AckRecs) /\ Acks(r.sends) \in Seq(AckRecs)
        /\ Acks(a.sends \o r.sends) = Acks(a.sends) \o Acks(r.sends)
    BY <1>11, <1>12, AcksConcat
  <2>2. (Tail(due) \o Acks(a.sends)) \o Acks(r.sends) = Tail(due) \o (Acks(a.sends) \o Acks(r.sends))
    <3>1. PICK x \in Seq(AckRecs) : x = Acks(a.sends)
      BY <2>1
    <3>2. PICK y \in Seq(AckRecs) : y = Acks(r.sends)
      BY <2>1
    <3>3. PICK t \in Seq(AckRecs) : t = Tail(due)
      BY <1>8
    <3>4. (t \o x) \o y = t \o (x \o y)
      BY ConcatAssociative
    <3> QED BY <3>1, <3>2, <3>3, <3>4
  <2> QED BY <1>13, <2>1, <2>2, Zenon
<1>15. sent \o Messages(o.sends) = (sent \o Messages(a.sends)) \o Messages(r.sends)
  <2>1. /\ Messages(a.sends) \in Seq(Pub) /\ Messages(r.sends) \in Seq(Pub)
        /\ Messages(a.sends \o r.sends) = Messages(a.sends) \o Messages(r.sends)
    BY <1>11, <1>12, MessagesConcat
  <2>2. (sent \o Messages(a.sends)) \o Messages(r.sends) = sent \o (Messages(a.sends) \o Messages(r.sends))
    <3>1. PICK x \in Seq(Pub) : x = Messages(a.sends)
      BY <2>1
    <3>2. PICK y \in Seq(Pub) : y = Messages(r.sends)
      BY <2>1
    <3>3. PICK t \in Seq(Pub) : t = sent
      BY <1>7
    <3>4. (t \o x) \o y = t \o (x \o y)
      BY ConcatAssociative
    <3> QED BY <3>1, <3>2, <3>3, <3>4
  <2> QED BY <1>13, <2>1, <2>2, Zenon
<1> QED BY <1>6, <1>12, <1>13, <1>14, <1>15, ApplyGives DEF GoodNow

LEMMA StoreStep ==
  ASSUME GoodNow, StoreTask(FALSE)
  PROVE  GoodNow'
<1>1. PICK rc : rc = [op |-> "stored", packets |-> <<>>]
  OBVIOUS
<1>2. /\ task.op = "store" /\ db' = db \o task.packets /\ task' = rc
      /\ store' = store /\ due' = due /\ published' = published /\ sent' = sent
  BY <1>1 DEF StoreTask, Inserted
<1>3. Good(store, rc, db \o task.packets, due, published, sent)
  BY <1>1, <1>2, StoreTaskGood DEF GoodNow
<1> QED BY <1>2, <1>3 DEF GoodNow

LEMMA FetchStep ==
  ASSUME GoodNow, FetchTask(FALSE)
  PROVE  GoodNow'
<1>1. PICK k : k = Found(FALSE)
  OBVIOUS
<1>2. db \in Seq(Pub) /\ Len(db) \in Nat
  <2>1. db \in Seq(Pub)
    BY DEF GoodNow, Good, Core
  <2> QED BY <2>1, EmptyFacts
<1>3. k \in 0 .. Len(db) /\ (k = 0 => db = <<>>)
  <2>1. k = IF Len(db) < Limit THEN Len(db) ELSE Limit
    BY <1>1 DEF Found
  <2>2. PICK l \in Nat : l = Len(db)
    BY <1>2
  <2>3. k \in 0 .. l /\ (k = 0 => l = 0)
    BY <2>1, <2>2, MongoAssumption
  <2> QED BY <1>2, <2>2, <2>3, EmptyFacts
<1>4. PICK rc : rc = [op |-> "fetched", packets |-> SubSeq(db, 1, k)]
  OBVIOUS
<1>5. /\ task.op = "fetch" /\ db' = SubSeq(db, k + 1, Len(db)) /\ task' = rc
      /\ store' = store /\ due' = due /\ published' = published /\ sent' = sent
  BY <1>1, <1>4 DEF FetchTask
<1>6. Good(store, rc, SubSeq(db, k + 1, Len(db)), due, published, sent)
  BY <1>3, <1>4, <1>5, FetchTaskGood DEF GoodNow
<1> QED BY <1>5, <1>6 DEF GoodNow

LEMMA StoredStep ==
  ASSUME GoodNow, StoredReceipt
  PROVE  GoodNow'
<1>1. PICK o : o = StoreMessageDone(store)
  OBVIOUS
<1>2. task.op = "stored" /\ Apply(o, due, NoTask) /\ db' = db /\ published' = published
  BY <1>1 DEF StoredReceipt
<1>3. Good(o.store, Job(o, NoTask), db, due, published, sent) /\ o.sends = <<>>
  BY <1>1, <1>2, StoredGood DEF GoodNow
<1>4. due \o Acks(<<>>) = due /\ sent \o Messages(<<>>) = sent
  <2>1. Acks(<<>>) = <<>>
    BY DEF Acks
  <2>2. Messages(<<>>) = <<>>
    BY EmptyFacts, MessagesAll
  <2>3. due \in Seq(AckRecs) /\ sent \in Seq(Pub)
    BY DEF GoodNow, Good, Core, DueOK
  <2> QED BY <2>1, <2>2, <2>3, EmptyFacts
<1> QED BY <1>2, <1>3, <1>4, ReceiptGives DEF GoodNow

LEMMA FetchedStep ==
  ASSUME GoodNow, FetchedReceipt, lost' = {}
  PROVE  GoodNow'
<1>1. PICK o : o = FetchMessageDone(store, task.packets)
  OBVIOUS
<1>2. /\ task.op = "fetched" /\ Apply(o, due, NoTask) /\ db' = db /\ published' = published
      /\ lost' = lost \cup ToSet(Replaced(store, task.packets))
  BY <1>1 DEF FetchedReceipt
<1>3. PICK q \in Seq(Pkts) : q = Replaced(store, task.packets)
  BY EmptyFacts, Fields DEF Replaced, GoodNow, Good, Core
<1>4. q = <<>>
  <2>1. ToSet(q) = {}
    BY <1>2, <1>3
  <2>2. Len(q) \in Nat /\ DOMAIN q = 1 .. Len(q)
    BY LenProperties
  <2>3. Len(q) = 0
    <3>1. SUFFICES ASSUME Len(q) # 0 PROVE FALSE
      OBVIOUS
    <3>2. 1 \in DOMAIN q
      BY <2>2, <3>1
    <3>3. q[1] \in ToSet(q)
      BY <3>2, Zenon DEF ToSet
    <3> QED BY <2>1, <3>3
  <2> QED BY <2>3, EmptyFacts
<1>5. Good(o.store, Job(o, NoTask), db, due \o Acks(o.sends), published, sent \o Messages(o.sends))
  BY <1>1, <1>2, <1>3, <1>4, FetchedGood DEF GoodNow
<1> QED BY <1>2, <1>5, ReceiptGives DEF GoodNow

LEMMA MInvNext == MInv /\ [Next]_mongoVars => MInv'
<1>1. SUFFICES ASSUME MInv, [Next]_mongoVars PROVE MInv'
  OBVIOUS
<1>2. faults \in Nat /\ (Clean => GoodNow)
  BY <1>1 DEF MInv, GoodNow
<1>3. SUFFICES faults' \in Nat /\ (Clean' => GoodNow')
  BY DEF MInv, GoodNow
<1>4. ASSUME Clean => GoodNow', UNCHANGED <<lost, faults>> PROVE faults' \in Nat /\ (Clean' => GoodNow')
  BY <1>2, <1>4 DEF Clean
<1>5. CASE \E qos \in 1 .. 2 : Publish(qos)
  <2>1. PICK qos \in 1 .. 2 : Publish(qos)
    BY <1>5
  <2>2. UNCHANGED <<lost, faults>>
    BY <2>1 DEF Publish
  <2> QED BY <1>2, <1>4, <2>1, <2>2, PublishStep
<1>6. CASE Acked("PUBACK", "PUBLISH", 1)
  <2>1. UNCHANGED <<lost, faults>>
    BY <1>6 DEF Acked
  <2>2. Answers("PUBACK", "PUBLISH", 1)
    BY DEF Answers
  <2> QED BY <1>2, <1>4, <1>6, <2>1, <2>2, AckedStep
<1>7. CASE Acked("PUBCOMP", "PUBREL", -1)
  <2>1. UNCHANGED <<lost, faults>>
    BY <1>7 DEF Acked
  <2>2. Answers("PUBCOMP", "PUBREL", -1)
    BY DEF Answers
  <2> QED BY <1>2, <1>4, <1>7, <2>1, <2>2, AckedStep
<1>8. CASE Received
  <2>1. UNCHANGED <<lost, faults>>
    BY <1>8 DEF Received
  <2> QED BY <1>2, <1>4, <1>8, <2>1, ReceivedStep
<1>9. ASSUME NEW fails \in BOOLEAN, StoreTask(fails) \/ FetchTask(fails)
      PROVE  faults' \in Nat /\ (Clean' => GoodNow')
  <2>1. CASE fails
    <3>1. faults' = faults + 1
      BY <1>9, <2>1 DEF StoreTask, FetchTask
    <3>2. faults' \in Nat /\ faults' # 0
      BY <1>2, <3>1
    <3> QED BY <3>2 DEF Clean
  <2>2. CASE ~ fails
    <3>1. fails = FALSE
      BY <2>2
    <3>2. UNCHANGED <<lost, faults>>
      BY <1>9, <2>2 DEF StoreTask, FetchTask
    <3>3. CASE StoreTask(FALSE)
      BY <1>2, <1>4, <3>2, <3>3, StoreStep
    <3>4. CASE FetchTask(FALSE)
      BY <1>2, <1>4, <3>2, <3>4, FetchStep
    <3> QED BY <1>9, <3>1, <3>3, <3>4
  <2> QED BY <2>1, <2>2
<1>10. CASE StoredReceipt
  <2>1. UNCHANGED <<lost, faults>>
    BY <1>10 DEF StoredReceipt
  <2> QED BY <1>2, <1>4, <1>10, <2>1, StoredStep
<1>11. CASE FetchedReceipt
  <2>1. faults' = faults /\ (lost' = {} => lost = {})
    BY <1>11 DEF FetchedReceipt
  <2>2. ASSUME Clean' PROVE GoodNow'
    <3>1. Clean /\ lost' = {}
      BY <2>1, <2>2 DEF Clean
    <3> QED BY <1>2, <1>11, <3>1, FetchedStep
  <2> QED BY <1>2, <2>1, <2>2
<1>12. CASE UNCHANGED mongoVars
  <2>1. UNCHANGED <<lost, faults>> /\ (GoodNow' <=> GoodNow)
    BY <1>12 DEF mongoVars, GoodNow
  <2> QED BY <1>2, <1>4, <2>1
<1> QED BY <1>1, <1>5, <1>6, <1>7, <1>8, <1>9, <1>10, <1>11, <1>12 DEF Next

\* Every reachable state of the store satisfies the invariant: for every window,
\* trigger, fetch limit and number of messages.
THEOREM MongoInvariance == Spec => []MInv
<1>1. Init => MInv
  BY MInvInit
<1>2. MInv /\ [Next]_mongoVars => MInv'
  BY MInvNext
<1> QED BY <1>1, <1>2, PTL DEF Spec

\* Two runs, the one where the other ends.
Stretch(s, a, k) == s \in Seq(Pub) /\ Len(s) = k /\ Run(s, a)

LEMMA Joined ==
  ASSUME NEW s, NEW t, NEW a \in Nat, NEW k \in Nat, NEW l \in Nat, NEW c, NEW j,
         c = a + k, j = k + l, Stretch(s, a, k), Stretch(t, c, l)
  PROVE  Stretch(s \o t, a, j)
<1>1. /\ s \in Seq(Pub) /\ Len(s) = k /\ Run(s, a)
      /\ t \in Seq(Pub) /\ Len(t) = l /\ Run(t, a + k)
  BY DEF Stretch
<1>2. s \o t \in Seq(Pub) /\ Len(s \o t) = j
  BY <1>1, ConcatFacts
<1>3. Run(s \o t, a)
  BY <1>1, RunConcat
<1> QED BY <1>2, <1>3 DEF Stretch

\* A sequence of the messages 1 .. n.
Numbered(all, n) == Len(all) = n /\ \A i \in DOMAIN all : all[i].packet_id = i

\* The six places one after the other.
LEMMA AllInOrder ==
  ASSUME NEW out \in Seq(Pub), NEW w \in Seq(Pub), NEW f \in Seq(Pub), NEW d \in Seq(Pub),
         NEW s \in Seq(Pub), NEW b \in Seq(Pub), NEW n, InOrder(out, w, f, d, s, b, n),
         NEW all, all = out \o ((((w \o f) \o d) \o s) \o b)
  PROVE  Numbered(all, n)
<1>1. PICK lo \in Nat : lo = Len(out)
  BY LenProperties
<1>2. PICK lw \in Nat : lw = Len(w)
  BY LenProperties
<1>3. PICK lf \in Nat : lf = Len(f)
  BY LenProperties
<1>4. PICK ld \in Nat : ld = Len(d)
  BY LenProperties
<1>5. PICK ls \in Nat : ls = Len(s)
  BY LenProperties
<1>6. PICK lb \in Nat : lb = Len(b)
  BY LenProperties
<1>7. PICK k1 \in Nat : k1 = lw + lf
  OBVIOUS
<1>8. PICK k2 \in Nat : k2 = k1 + ld
  OBVIOUS
<1>9. PICK k3 \in Nat : k3 = k2 + ls
  OBVIOUS
<1>10. PICK k4 \in Nat : k4 = k3 + lb
  OBVIOUS
<1>11. /\ Stretch(out, 0, lo) /\ Stretch(w, lo, lw) /\ Stretch(f, lo + lw, lf) /\ Stretch(d, lo + k1, ld)
       /\ Stretch(s, lo + k2, ls) /\ Stretch(b, lo + k3, lb) /\ n = lo + k4
  <2>1. /\ (lo + lw) + lf = lo + k1 /\ ((lo + lw) + lf) + ld = lo + k2
        /\ (((lo + lw) + lf) + ld) + ls = lo + k3
        /\ ((((lo + lw) + lf) + ld) + ls) + lb = lo + k4
    BY <1>7, <1>8, <1>9, <1>10
  <2>2. /\ Run(out, 0) /\ Run(w, lo) /\ Run(f, lo + lw) /\ Run(d, lo + k1)
        /\ Run(s, lo + k2) /\ Run(b, lo + k3) /\ n = lo + k4
    BY <1>1, <1>2, <1>3, <1>4, <1>5, <1>6, <2>1 DEF InOrder
  <2> QED BY <1>1, <1>2, <1>3, <1>4, <1>5, <1>6, <2>2 DEF Stretch
<1>12. Stretch(w \o f, lo, k1)
  BY <1>7, <1>11, Joined, Zenon
<1>13. Stretch((w \o f) \o d, lo, k2)
  BY <1>8, <1>11, <1>12, Joined, Zenon
<1>14. Stretch(((w \o f) \o d) \o s, lo, k3)
  BY <1>9, <1>11, <1>13, Joined, Zenon
<1>15. Stretch((((w \o f) \o d) \o s) \o b, lo, k4)
  BY <1>10, <1>11, <1>14, Joined, Zenon
<1>16. Stretch(all, 0, n)
  <2>1. lo = 0 + lo /\ 0 \in Nat
    OBVIOUS
  <2> QED BY <1>11, <1>15, <2>1, Joined, Zenon
<1>17. all \in Seq(Pub) /\ Len(all) = n /\ Run(all, 0)
  BY <1>16 DEF Stretch
<1>18. ASSUME NEW i \in DOMAIN all PROVE all[i].packet_id = i
  <2>1. i \in 1 .. Len(all) /\ i \in Nat
    BY <1>17, LenProperties
  <2>2. all[i].packet_id = 0 + i
    BY <1>17, <2>1 DEF Run
  <2> QED BY <2>1, <2>2
<1> QED BY <1>17, <1>18 DEF Numbered

LEMMA GoodInOrder ==
  ASSUME GoodNow
  PROVE  Numbered(sent \o Unsent, published)
<1>1. /\ store \in Stores /\ WellFormed(store.mem) /\ JobOK(store, task)
      /\ db \in Seq(Pub) /\ sent \in Seq(Pub) /\ OrderOK(store, task, db, published, sent)
  BY DEF GoodNow, Good, Core
<1>2. PICK w \in Seq(Pub) : w = Messages(Waiting(store.mem))
  BY <1>1, Fields, WaitingIs, MessagesConcat
<1>3. PICK f \in Seq(Pub) : f = InTask(task, "fetched")
  BY <1>1, EmptyFacts DEF JobOK, Tasks, InTask
<1>4. PICK s \in Seq(Pub) : s = InTask(task, "store")
  BY <1>1, EmptyFacts DEF JobOK, Tasks, InTask
<1>5. PICK b \in Seq(Pub) : b = store.buffer
  BY <1>1, Fields
<1>6. InOrder(sent, w, f, db, s, b, published)
  BY <1>1, <1>2, <1>3, <1>4, <1>5 DEF OrderOK
<1>7. Unsent = (((w \o f) \o db) \o s) \o b
  BY <1>2, <1>3, <1>4, <1>5, Zenon DEF Unsent
<1>8. PICK all : all = sent \o Unsent
  OBVIOUS
<1>9. all = sent \o ((((w \o f) \o db) \o s) \o b)
  BY <1>7, <1>8, Zenon
<1>10. sent \in Seq(Pub) /\ db \in Seq(Pub)
  BY <1>1
<1>11. Numbered(all, published)
  BY <1>6, <1>9, <1>10, AllInOrder, Zenon
<1> QED BY <1>8, <1>11

\* Between memory and MongoDB no message is dropped, doubled or overtaken, unless the
\* database fails or fetch_message_done replaces packets still queued.
THEOREM MongoStoresInOrder == Spec => []StoredInOrder
<1>1. MInv => StoredInOrder
  <2>1. SUFFICES ASSUME GoodNow PROVE StoredInOrder
    BY DEF MInv, GoodNow, Clean, StoredInOrder
  <2> QED BY <2>1, GoodInOrder DEF StoredInOrder, Numbered
<1> QED BY <1>1, MongoInvariance, PTL

\* With a trigger of at least two, no message waits in the buffer, in the database or
\* in the queue when no task and no acknowledgement is on its way: the requests that
\* NEED_STORE and NEED_FETCH note are all acted on.
THEOREM MongoNothingWaits ==
  ASSUME trigger >= 2
  PROVE  Spec => []NothingWaitsForever
<1>1. MInv => NothingWaitsForever
  <2>1. SUFFICES ASSUME GoodNow, due = <<>>, task = NoTask PROVE Unsent = <<>>
    BY DEF MInv, GoodNow, Clean, NothingWaitsForever
  <2>2. /\ store \in Stores /\ WellFormed(store.mem) /\ DueOK(<<>>, store.mem) /\ JobOK(store, NoTask)
        /\ FlagOK(store, NoTask, db) /\ RestOK(store)
    BY <2>1 DEF GoodNow, Good, Core
  <2>3. /\ store.mem \in Mems /\ store.mem.queue \in Seq(Pkts)
    BY <2>2, Fields
  <2>4. store.mem.inflight = 0 /\ Len(store.mem.queue) \in Nat
    BY <2>2, <2>3, EmptyFacts DEF DueOK
  <2>5. Len(store.mem.queue) = 0
    <3>1. PICK l \in Nat : l = Len(store.mem.queue)
      BY <2>4
    <3>2. l > 0 => 0 = inflight_window_size
      BY <2>2, <2>4, <3>1 DEF WellFormed
    <3>3. inflight_window_size # 0
      BY WindowAssumption
    <3> QED BY <3>1, <3>2, <3>3
  <2>6. store.mem.queue = <<>> /\ store.mem.pending = 0
    BY <2>2, <2>3, <2>4, <2>5, EmptyFacts DEF WellFormed
  <2>7. "STORING" \notin store.states /\ "FETCHING" \notin store.states
    BY <2>2, IdleTask DEF JobOK
  <2>8. "BUFFERED" \notin store.states
    BY <2>2, <2>6, <2>7 DEF RestOK
  <2>9. store.buffer = <<>> /\ db = <<>>
    BY <2>2, <2>8 DEF FlagOK
  <2>10. Messages(Waiting(store.mem)) = <<>>
    <3>1. Waiting(store.mem) = <<>>
      BY <2>6 DEF Waiting
    <3>2. Messages(<<>>) = <<>>
      BY EmptyFacts, MessagesAll
    <3> QED BY <3>1, <3>2
  <2>11. InTask(task, "fetched") = <<>> /\ InTask(task, "store") = <<>>
    BY <2>1, IdleTask
  <2>12. <<>> \o <<>> = <<>>
    OBVIOUS
  <2> QED BY <2>9, <2>10, <2>11, <2>12, Zenon DEF Unsent
<1> QED BY <1>1, MongoInvariance, PTL
=============================================================================
