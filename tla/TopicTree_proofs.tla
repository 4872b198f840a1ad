-------------------------- MODULE TopicTree_proofs --------------------------
(***************************************************************************)
(* Proofs about the topic tree (mqtt/mqtt_topic.c): what a publish and a   *)
(* subscription find in it is exactly what the subscriptions in force and  *)
(* the retained messages say, for every set of filters and topics that     *)
(* keep to MQTT's grammar (WellFormedNames, which no caller checks).       *)
(*                                                                         *)
(* The walks along a topic and along a filter are recursive functions.     *)
(* That they compute the sets the properties speak of is an induction on   *)
(* the level, by the least level at which the two would differ (Least).    *)
(***************************************************************************)
EXTENDS TopicTree, TLAPS, SequenceTheorems, WellFoundedInduction

\* The levels of a path.  (The wildcards are strings; the provers do not know
\* which strings there are.)
Levels == STRING \cup Wildcards

Parent(n) == SubSeq(n, 1, Len(n) - 1)

\* A non-empty set of naturals has a least element.
LEMMA Least ==
  ASSUME NEW T \in SUBSET Nat, T # {}
  PROVE  \E x \in T : \A y \in T : x <= y
<1>1. PICK x \in T : \A y \in T : ~ (<<y, x>> \in OpToRel(<, Nat))
  BY NatLessThanWellFounded, WFMin, Zenon
<1>2. \A y \in T : ~ (y < x)
  BY <1>1, Zenon DEF OpToRel
<1> QED BY <1>2, SMT
-----------------------------------------------------------------------------
(* Paths: the node above one, the nodes on the way to one.                 *)

LEMMA PrefixProps ==
  ASSUME NEW n \in Seq(Levels), NEW i \in 0 .. Len(n)
  PROVE  /\ SubSeq(n, 1, i) \in Seq(Levels)
         /\ Len(SubSeq(n, 1, i)) = i
         /\ \A j \in 1 .. i : SubSeq(n, 1, i)[j] = n[j]
<1>1. Len(n) \in Nat
  BY LenProperties
<1>2. \A j \in 1 .. i : n[j] \in Levels
  BY <1>1, ElementOfSeq
<1>3. SubSeq(n, 1, i) \in Seq(Levels) /\ Len(SubSeq(n, 1, i)) = (IF 1 <= i THEN i - 1 + 1 ELSE 0)
        /\ \A j \in 1 .. i - 1 + 1 : SubSeq(n, 1, i)[j] = n[1 + j - 1]
  BY <1>1, <1>2, SubSeqProperties
<1> QED BY <1>1, <1>3

LEMMA SamePath ==
  ASSUME NEW m \in Seq(Levels), NEW n \in Seq(Levels), Len(m) = Len(n),
         \A j \in 1 .. Len(n) : m[j] = n[j]
  PROVE  m = n
BY SeqEqual

LEMMA EmptyPath ==
  ASSUME NEW n \in Seq(Levels)
  PROVE  /\ n = <<>> <=> Len(n) = 0
         /\ Len(n) \in Nat
BY EmptySeq, LenProperties

LEMMA AppendProps ==
  ASSUME NEW n \in Seq(Levels), NEW l \in Levels
  PROVE  /\ Append(n, l) \in Seq(Levels) /\ Append(n, l) # <<>>
         /\ Len(Append(n, l)) = Len(n) + 1
         /\ \A j \in 1 .. Len(n) : Append(n, l)[j] = n[j]
         /\ Append(n, l)[Len(n) + 1] = l
         /\ Parent(Append(n, l)) = n
<1>1. /\ Append(n, l) \in Seq(Levels) /\ Append(n, l) # <<>>
      /\ Len(Append(n, l)) = Len(n) + 1 /\ Len(n) \in Nat
      /\ \A j \in 1 .. Len(n) : Append(n, l)[j] = n[j]
      /\ Append(n, l)[Len(n) + 1] = l
  <2>1. Append(n, l) \in Seq(Levels) /\ Append(n, l) # <<>>
    BY AppendProperties
  <2>2. Len(Append(n, l)) = Len(n) + 1 /\ Len(n) \in Nat
    BY AppendProperties, LenProperties
  <2>3. \A j \in 1 .. Len(n) : Append(n, l)[j] = n[j]
    BY AppendProperties
  <2>4. Append(n, l)[Len(n) + 1] = l
    BY AppendProperties
  <2> QED BY <2>1, <2>2, <2>3, <2>4
<1>2. Parent(Append(n, l)) = SubSeq(Append(n, l), 1, Len(n))
  BY <1>1 DEF Parent
<1>3. /\ SubSeq(Append(n, l), 1, Len(n)) \in Seq(Levels)
      /\ Len(SubSeq(Append(n, l), 1, Len(n))) = Len(n)
      /\ \A j \in 1 .. Len(n) : SubSeq(Append(n, l), 1, Len(n))[j] = Append(n, l)[j]
  BY <1>1, PrefixProps
<1>4. \A j \in 1 .. Len(n) : SubSeq(Append(n, l), 1, Len(n))[j] = n[j]
  BY <1>1, <1>3
<1>5. SubSeq(Append(n, l), 1, Len(n)) = n
  BY <1>3, <1>4, SamePath
<1> QED BY <1>1, <1>2, <1>5

LEMMA ParentProps ==
  ASSUME NEW n \in Seq(Levels), n # <<>>
  PROVE  /\ Parent(n) \in Seq(Levels)
         /\ Len(Parent(n)) = Len(n) - 1 /\ Len(n) \in Nat \ {0}
         /\ \A j \in 1 .. Len(n) - 1 : Parent(n)[j] = n[j]
         /\ n[Len(n)] \in Levels
         /\ n = Append(Parent(n), n[Len(n)])
<1>1. Len(n) \in Nat \ {0}
  BY EmptyPath
<1>2. /\ Parent(n) \in Seq(Levels) /\ Len(Parent(n)) = Len(n) - 1
      /\ \A j \in 1 .. Len(n) - 1 : Parent(n)[j] = n[j]
  <2>1. Len(n) - 1 \in 0 .. Len(n)
    BY <1>1
  <2> QED BY <2>1, PrefixProps DEF Parent
<1>3. n[Len(n)] \in Levels
  BY <1>1, ElementOfSeq
<1> DEFINE a == Append(Parent(n), n[Len(n)])
<1>4. /\ a \in Seq(Levels) /\ Len(a) = Len(n) - 1 + 1
      /\ \A j \in 1 .. Len(n) - 1 : a[j] = Parent(n)[j]
      /\ a[Len(n) - 1 + 1] = n[Len(n)]
  BY <1>2, <1>3, AppendProps
<1> HIDE DEF a
<1>5. Len(n) - 1 + 1 = Len(n)
  BY <1>1
<1>6. \A j \in 1 .. Len(n) : a[j] = n[j]
  BY <1>1, <1>2, <1>4, <1>5
<1>7. a = n
  BY <1>4, <1>5, <1>6, SamePath
<1> QED BY <1>1, <1>2, <1>3, <1>7 DEF a

LEMMA PrefixParent ==
  ASSUME NEW f \in Seq(Levels), NEW i \in 1 .. Len(f)
  PROVE  SubSeq(f, 1, i) # <<>> /\ Parent(SubSeq(f, 1, i)) = SubSeq(f, 1, i - 1)
<1>1. Len(f) \in Nat
  BY EmptyPath
<1>2. PICK n : n = SubSeq(f, 1, i)
  OBVIOUS
<1>3. n \in Seq(Levels) /\ Len(n) = i /\ \A j \in 1 .. i : n[j] = f[j]
  BY <1>1, <1>2, PrefixProps
<1>4. n # <<>>
  BY <1>3, EmptyPath
<1>5. Parent(n) \in Seq(Levels) /\ Len(Parent(n)) = i - 1 /\ \A j \in 1 .. i - 1 : Parent(n)[j] = n[j]
  BY <1>3, <1>4, ParentProps
<1>6. /\ SubSeq(f, 1, i - 1) \in Seq(Levels) /\ Len(SubSeq(f, 1, i - 1)) = i - 1
      /\ \A j \in 1 .. i - 1 : SubSeq(f, 1, i - 1)[j] = f[j]
  BY <1>1, PrefixProps
<1>7. \A j \in 1 .. i - 1 : Parent(n)[j] = SubSeq(f, 1, i - 1)[j]
  BY <1>1, <1>3, <1>5, <1>6
<1>8. Parent(n) = SubSeq(f, 1, i - 1)
  BY <1>5, <1>6, <1>7, SamePath
<1> QED BY <1>2, <1>4, <1>8

LEMMA WayProps ==
  ASSUME NEW f \in Seq(Levels)
  PROVE  /\ f # <<>> => f \in Way(f)
         /\ \A n \in Way(f) :
              /\ n \in Seq(Levels) /\ n # <<>> /\ Len(n) \in 1 .. Len(f)
              /\ n = SubSeq(f, 1, Len(n))
              /\ Parent(n) \in Way(f) \cup {<<>>}
         /\ \A m, n \in Way(f) : Len(m) = Len(n) => m = n
<1>1. Len(f) \in Nat
  BY EmptyPath
<1>2. f # <<>> => f \in Way(f)
  <2>1. f # <<>> => Len(f) \in 1 .. Len(f)
    BY <1>1, EmptyPath
  <2>2. SubSeq(f, 1, Len(f)) = f
    BY SubSeqFull
  <2> QED BY <2>1, <2>2 DEF Way
<1>3. ASSUME NEW n \in Way(f)
      PROVE  /\ n \in Seq(Levels) /\ n # <<>> /\ Len(n) \in 1 .. Len(f)
             /\ n = SubSeq(f, 1, Len(n))
             /\ Parent(n) \in Way(f) \cup {<<>>}
  <2>1. PICK i \in 1 .. Len(f) : n = SubSeq(f, 1, i)
    BY DEF Way
  <2>2. n \in Seq(Levels) /\ Len(n) = i /\ \A j \in 1 .. i : n[j] = f[j]
    BY <1>1, <2>1, PrefixProps
  <2>3. n # <<>>
    BY <2>1, <2>2, EmptyPath
  <2>4. Parent(n) = SubSeq(f, 1, i - 1)
    BY <2>1, PrefixParent
  <2>5. Parent(n) \in Way(f) \cup {<<>>}
    <3>1. CASE i = 1
      BY <2>4, <3>1, SubSeqEmpty
    <3>2. CASE i # 1
      <4>1. i - 1 \in 1 .. Len(f)
        BY <1>1, <2>1, <3>2
      <4> QED BY <2>4, <4>1 DEF Way
    <3> QED BY <3>1, <3>2
  <2> QED BY <2>1, <2>2, <2>3, <2>5
<1>4. ASSUME NEW m \in Way(f), NEW n \in Way(f), Len(m) = Len(n) PROVE m = n
  BY <1>3, <1>4
<1> QED BY <1>2, <1>3, <1>4

LEMMA PathFacts ==
  /\ Path \subseteq Seq(Levels) /\ <<>> \in Path
  /\ \A f \in Filters \cup Topics : f \in Path /\ f # <<>> /\ Way(f) \subseteq Path
<1>1. \A f \in Filters \cup Topics : f \in Seq(Levels) /\ f # <<>>
  <2>1. STRING \subseteq Levels
    BY DEF Levels
  <2>2. \A f \in Seq(STRING) : f \in Seq(Levels)
    BY <2>1, SeqMonotonic
  <2> QED BY <2>2, TopicTreeAssumption
<1>2. \A f \in Filters \cup Topics : Way(f) \subseteq Path
  BY DEF Path
<1>3. \A f \in Filters \cup Topics : f \in Way(f) /\ Way(f) \subseteq Seq(Levels)
  BY <1>1, WayProps
<1>4. Path \subseteq Seq(Levels) /\ <<>> \in Path
  BY <1>3, EmptySeq DEF Path
<1> QED BY <1>1, <1>2, <1>3, <1>4

LEMMA ChildrenDef ==
  ASSUME nodes \subseteq Path, NEW n \in Path
  PROVE  Children(n) = {c \in nodes : c # <<>> /\ Parent(c) = n}
<1>1. ASSUME NEW c \in nodes
      PROVE  (Len(c) = Len(n) + 1 /\ SubSeq(c, 1, Len(n)) = n) <=> (c # <<>> /\ Parent(c) = n)
  <2>1. c \in Seq(Levels) /\ n \in Seq(Levels) /\ Len(n) \in Nat /\ Len(c) \in Nat
    BY PathFacts, EmptyPath
  <2>2. c = <<>> <=> Len(c) = 0
    BY <2>1, EmptyPath
  <2>3. CASE Len(c) = Len(n) + 1
    <3>1. Len(c) - 1 = Len(n) /\ c # <<>>
      BY <2>1, <2>2, <2>3
    <3> QED BY <2>3, <3>1 DEF Parent
  <2>4. CASE c # <<>> /\ Parent(c) = n
    <3>1. Len(n) = Len(c) - 1
      BY <2>1, <2>4, ParentProps
    <3>2. Len(c) = Len(n) + 1
      BY <2>1, <3>1
    <3> QED BY <2>4, <3>1, <3>2 DEF Parent
  <2> QED BY <2>3, <2>4
<1> QED BY <1>1 DEF Children
-----------------------------------------------------------------------------
(* The tree: its nodes hang together, none is useless, and what they hold  *)
(* are the subscriptions in force and the retained messages.               *)

Hangs == <<>> \in nodes /\ \A n \in nodes : n # <<>> => Parent(n) \in nodes

HasChild(n) == \E c \in nodes : c # <<>> /\ Parent(c) = n
Useful ==
  \A n \in nodes : n # <<>> =>
    HasChild(n) \/ subscribers[n] # {} \/ retain[n] # None \/ registered[n] # {}

SubsHeld ==
  /\ \A n \in Path, k \in Clients : k \in subscribers[n] <=> <<n, k>> \in subscribed
  /\ \A n \in Path : subscribers[n] # {} => n \in nodes

RetainHeld ==
  /\ \A n \in Path : retain[n] # None => n \in nodes /\ n \in Topics
  /\ \A t \in Topics : retain[t] = retained[t]

TreeInv == TreeTypeOK /\ Hangs /\ Useful /\ SubsHeld /\ RetainHeld

\* What a subscription, a registration and a retained message add to the nodes.
LEMMA Grows ==
  ASSUME TreeInv, NEW f \in Filters \cup Topics, nodes' = nodes \cup Way(f),
         \A n \in nodes \ {f} :
           /\ subscribers[n] # {} => subscribers'[n] # {}
           /\ retain[n] # None => retain'[n] # None
           /\ registered[n] # {} => registered'[n] # {},
         subscribers'[f] # {} \/ retain'[f] # None \/ registered'[f] # {}
  PROVE  nodes' \subseteq Path /\ Hangs' /\ Useful'
<1>0. /\ f \in Path /\ f # <<>> /\ f \in Seq(Levels) /\ Way(f) \subseteq Path
      /\ nodes \subseteq Path
  BY PathFacts DEF TreeInv, TreeTypeOK
<1>1. nodes' \subseteq Path
  BY <1>0
<1>2. Hangs'
  <2>1. \A n \in Way(f) : Parent(n) \in Way(f) \cup {<<>>}
    BY <1>0, WayProps
  <2> QED BY <2>1 DEF Hangs, TreeInv
<1>3. Useful'
  <2> SUFFICES ASSUME NEW n \in nodes', n # <<>>
               PROVE  HasChild(n)' \/ subscribers'[n] # {} \/ retain'[n] # None \/ registered'[n] # {}
    BY DEF Useful
  <2>1. CASE n = f
    BY <2>1
  <2>2. CASE n \in nodes /\ n # f
    <3>1. HasChild(n) => HasChild(n)'
      BY DEF HasChild
    <3>2. HasChild(n) \/ subscribers[n] # {} \/ retain[n] # None \/ registered[n] # {}
      BY <2>2 DEF TreeInv, Useful
    <3>3. /\ subscribers[n] # {} => subscribers'[n] # {}
          /\ retain[n] # None => retain'[n] # None
          /\ registered[n] # {} => registered'[n] # {}
      BY <2>2
    <3> QED BY <3>1, <3>2, <3>3, Zenon
  <2>3. CASE n \in Way(f) /\ n # f
    <3>1. Len(n) \in 1 .. Len(f) /\ Len(f) \in Nat /\ f \in Way(f) /\ n \in Seq(Levels)
      BY <1>0, <2>3, WayProps, EmptyPath
    <3>2. Len(n) # Len(f)
      BY <1>0, <2>3, <3>1, WayProps
    <3>3. PICK c : c = SubSeq(f, 1, Len(n) + 1)
      OBVIOUS
    <3>4. Len(n) + 1 \in 1 .. Len(f)
      BY <3>1, <3>2
    <3>5. c \in Way(f)
      BY <3>3, <3>4 DEF Way
    <3>6. Len(c) = Len(n) + 1
      BY <1>0, <3>3, <3>4, PrefixProps
    <3>7. c # <<>> /\ c \in Seq(Levels) /\ Parent(c) \in Way(f) \cup {<<>>}
      BY <1>0, <3>5, WayProps
    <3>8. Len(Parent(c)) = Len(n)
      BY <3>1, <3>6, <3>7, ParentProps
    <3>9. Parent(c) = n
      <4>1. Parent(c) # <<>>
        BY <3>1, <3>8, EmptyPath
      <4> QED BY <1>0, <2>3, <3>7, <3>8, <4>1, WayProps
    <3>10. HasChild(n)'
      BY <3>5, <3>7, <3>9 DEF HasChild
    <3> QED BY <3>10
  <2> QED BY <2>1, <2>2, <2>3
<1> QED BY <1>1, <1>2, <1>3

\* try_remove_topic: which nodes an unsubscription prunes.
LEMMA Pruned ==
  ASSUME TreeInv, NEW f \in Filters, NEW subs \in [Path -> SUBSET Clients]
  PROVE  /\ \A n \in Removed(f, subs) :
              /\ n \in Way(f) /\ n \in Path /\ n # <<>>
              /\ subs[n] = {} /\ retain[n] = None
              /\ Children(n) \subseteq {x \in Way(f) : Len(x) > Len(n)}
         /\ \A n \in Removed(f, subs), m \in Way(f) : Len(m) >= Len(n) => m \in Removed(f, subs)
<1>1. /\ f \in Seq(Levels) /\ Way(f) \subseteq Path
      /\ \A n \in Way(f) : Len(n) \in Nat /\ n # <<>>
  <2>1. f \in Seq(Levels) /\ Way(f) \subseteq Path
    BY PathFacts
  <2> QED BY <2>1, WayProps, EmptyPath
<1>2. ASSUME NEW n \in Removed(f, subs)
      PROVE  /\ n \in Way(f) /\ n \in Path /\ n # <<>>
             /\ subs[n] = {} /\ retain[n] = None
             /\ Children(n) \subseteq {x \in Way(f) : Len(x) > Len(n)}
  <2>1. n \in Way(f) /\ Len(n) >= Len(n)
    BY <1>1 DEF Removed
  <2>2. Bare(n, subs, {x \in Way(f) : Len(x) > Len(n)})
    BY <2>1 DEF Removed
  <2> QED BY <1>1, <2>1, <2>2 DEF Bare
<1>3. ASSUME NEW n \in Removed(f, subs), NEW m \in Way(f), Len(m) >= Len(n)
      PROVE  m \in Removed(f, subs)
  <2>1. n \in Way(f)
    BY DEF Removed
  <2>2. \A x \in Way(f) : Len(x) >= Len(m) => Len(x) >= Len(n)
    BY <1>1, <1>3, <2>1
  <2> QED BY <2>2 DEF Removed
<1> QED BY <1>2, <1>3

LEMMA UnsubscribeStep ==
  ASSUME TreeInv, NEW f \in Filters, NEW k \in Clients, Unsubscribe(f, k)
  PROVE  TreeInv'
<1>0. /\ f \in Path /\ f # <<>> /\ f \in Seq(Levels) /\ Way(f) \subseteq Path
      /\ nodes \subseteq Path /\ Path \subseteq Seq(Levels)
      /\ subscribers \in [Path -> SUBSET Clients]
      /\ retain \in [Path -> Messages \cup {None}]
      /\ registered \in [Path -> SUBSET (Listeners \cup Members)]
  BY PathFacts DEF TreeInv, TreeTypeOK
<1>1. PICK subs : subs = [subscribers EXCEPT ![f] = @ \ {k}]
  OBVIOUS
<1>2. PICK gone : gone = Removed(f, subs)
  OBVIOUS
<1>3. /\ subscribers' = subs /\ nodes' = nodes \ gone
      /\ registered' = [n \in Path |-> IF n \in gone THEN {} ELSE registered[n]]
      /\ retain' = [n \in Path |-> IF n \in gone THEN None ELSE retain[n]]
      /\ subscribed' = subscribed \ {<<f, k>>} /\ retained' = retained
  BY <1>1, <1>2 DEF Unsubscribe
<1>4. /\ subs \in [Path -> SUBSET Clients]
      /\ \A n \in Path : n # f => subs[n] = subscribers[n]
      /\ subs[f] = subscribers[f] \ {k}
  BY <1>0, <1>1
<1>5. \A n \in gone :
        /\ n \in Way(f) /\ n \in Path /\ n # <<>>
        /\ subs[n] = {} /\ retain[n] = None
        /\ Children(n) \subseteq {x \in Way(f) : Len(x) > Len(n)}
  BY <1>2, <1>4, Pruned
<1>6. \A n \in gone, m \in Way(f) : Len(m) >= Len(n) => m \in gone
  BY <1>2, <1>4, Pruned
<1>7. retain' = retain
  BY <1>0, <1>3, <1>5
<1>8. \A n \in Path, c \in nodes : c \in Children(n) <=> (c # <<>> /\ Parent(c) = n)
  BY <1>0, ChildrenDef
<1>9. TreeTypeOK'
  <2>1. registered' \in [Path -> SUBSET (Listeners \cup Members)]
    BY <1>0, <1>3
  <2> QED BY <1>0, <1>3, <1>4, <1>7, <2>1 DEF TreeTypeOK, TreeInv
<1>10. Hangs'
  <2>1. <<>> \in nodes'
    BY <1>3, <1>5 DEF TreeInv, Hangs
  <2>2. ASSUME NEW n \in nodes', n # <<>>, Parent(n) \in gone PROVE FALSE
    <3>1. n \in nodes /\ n \notin gone
      BY <1>3
    <3>2. n \in Children(Parent(n))
      BY <1>5, <1>8, <2>2, <3>1
    <3>3. n \in Way(f) /\ Len(n) > Len(Parent(n))
      BY <1>5, <2>2, <3>2
    <3>4. Len(n) \in Nat /\ Len(Parent(n)) \in Nat
      BY <1>0, <1>5, <2>2, <3>1, EmptyPath
    <3> QED BY <1>6, <2>2, <3>1, <3>3, <3>4
  <2>3. \A n \in nodes' : n # <<>> => Parent(n) \in nodes
    BY <1>3 DEF TreeInv, Hangs
  <2> QED BY <1>3, <2>1, <2>2, <2>3 DEF Hangs
<1>11. Useful'
  <2> SUFFICES ASSUME NEW n \in nodes', n # <<>>, ~ HasChild(n)', subscribers'[n] = {},
                      retain'[n] = None, registered'[n] = {}
               PROVE  FALSE
    BY DEF Useful
  <2>1. n \in nodes /\ n \notin gone /\ n \in Path /\ n \in Seq(Levels)
    BY <1>0, <1>3
  <2>2. subs[n] = {} /\ retain[n] = None /\ registered[n] = {}
    BY <1>0, <1>3, <1>7, <2>1
  <2>3. \A c \in nodes : c # <<>> /\ Parent(c) = n => c \in gone
    BY <1>3 DEF HasChild
  <2>4. HasChild(n) \/ subscribers[n] # {}
    BY <2>1, <2>2 DEF TreeInv, Useful
  <2>5. Len(n) \in Nat /\ Len(f) \in Nat /\ \A m \in Way(f) : Len(m) \in Nat /\ Len(m) <= Len(f)
    BY <1>0, <2>1, EmptyPath, WayProps
  <2>6. n \in Way(f) /\ \A m \in Way(f) : Len(m) > Len(n) => m \in gone
    <3>1. CASE HasChild(n)
      <4>1. PICK c \in nodes : c # <<>> /\ Parent(c) = n
        BY <3>1 DEF HasChild
      <4>2. c \in gone /\ c \in Way(f) /\ c \in Seq(Levels)
        BY <1>0, <1>5, <2>3, <4>1
      <4>3. n \in Way(f)
        BY <1>0, <4>1, <4>2, WayProps
      <4>4. Len(n) = Len(c) - 1 /\ Len(c) \in Nat
        BY <4>1, <4>2, ParentProps
      <4>5. \A m \in Way(f) : Len(m) > Len(n) => Len(m) >= Len(c)
        BY <2>5, <4>4
      <4> QED BY <1>6, <4>2, <4>3, <4>5
    <3>2. CASE subscribers[n] # {}
      <4>1. n = f
        BY <1>4, <2>1, <2>2, <3>2
      <4>2. f \in Way(f)
        BY <1>0, WayProps
      <4> QED BY <2>5, <4>1, <4>2
    <3> QED BY <2>4, <3>1, <3>2
  <2>7. ASSUME NEW m \in Way(f), Len(m) >= Len(n)
        PROVE  Bare(m, subs, {x \in Way(f) : Len(x) > Len(m)})
    <3>1. CASE Len(m) = Len(n)
      <4>1. m = n
        BY <1>0, <2>6, <3>1, WayProps
      <4>2. ASSUME NEW c \in Children(n) PROVE c \in Way(f) /\ Len(c) > Len(n)
        <5>1. c \in nodes
          BY DEF Children
        <5>2. c \in gone
          BY <1>8, <2>1, <2>3, <5>1
        <5>3. Len(c) = Len(n) + 1
          BY DEF Children
        <5> QED BY <1>5, <2>5, <5>2, <5>3
      <4> QED BY <2>2, <4>1, <4>2 DEF Bare
    <3>2. CASE Len(m) > Len(n)
      BY <1>5, <2>6, <3>2 DEF Bare
    <3> QED BY <2>5, <2>7, <3>1, <3>2
  <2>8. n \in gone
    BY <1>2, <2>6, <2>7 DEF Removed
  <2> QED BY <2>1, <2>8
<1>12. SubsHeld'
  <2>1. ASSUME NEW n \in Path, NEW j \in Clients
        PROVE  j \in subscribers'[n] <=> <<n, j>> \in subscribed'
    BY <1>0, <1>3, <1>4 DEF TreeInv, SubsHeld
  <2>2. ASSUME NEW n \in Path, subscribers'[n] # {} PROVE n \in nodes'
    BY <1>0, <1>3, <1>4, <1>5, <2>2 DEF TreeInv, SubsHeld
  <2> QED BY <2>1, <2>2 DEF SubsHeld
<1>13. RetainHeld'
  BY <1>0, <1>3, <1>5, <1>7 DEF TreeInv, RetainHeld
<1> QED BY <1>9, <1>10, <1>11, <1>12, <1>13 DEF TreeInv

LEMMA InitTree == TreeInit => TreeInv
<1> SUFFICES ASSUME TreeInit PROVE TreeInv
  OBVIOUS
<1>1. TreeTypeOK
  <2>1. retain \in [Path -> Messages \cup {None}] /\ retained \in [Topics -> Messages \cup {None}]
    BY DEF TreeInit
  <2> QED BY <2>1, PathFacts DEF TreeInit, TreeTypeOK
<1>2. Hangs /\ Useful
  BY DEF TreeInit, Hangs, Useful
<1>3. SubsHeld /\ RetainHeld
  BY PathFacts DEF TreeInit, SubsHeld, RetainHeld
<1> QED BY <1>1, <1>2, <1>3 DEF TreeInv

LEMMA TreeStep == TreeInv /\ [TreeNext]_treeVars => TreeInv'
<1> SUFFICES ASSUME TreeInv, [TreeNext]_treeVars PROVE TreeInv'
  OBVIOUS
<1>0. /\ nodes \subseteq Path /\ Path \subseteq Seq(Levels)
      /\ subscribers \in [Path -> SUBSET Clients]
      /\ retain \in [Path -> Messages \cup {None}]
      /\ registered \in [Path -> SUBSET (Listeners \cup Members)]
      /\ retained \in [Topics -> Messages \cup {None}]
  BY PathFacts DEF TreeInv, TreeTypeOK
<1>f. \A f \in Filters \cup Topics : f \in Path /\ f \in Way(f)
  BY PathFacts, WayProps
<1>1. ASSUME NEW f \in Filters, NEW k \in Clients, Subscribe(f, k) PROVE TreeInv'
  <2>1. /\ nodes' = nodes \cup Way(f) /\ subscribed' = subscribed \cup {<<f, k>>}
        /\ subscribers' = [subscribers EXCEPT ![f] = @ \cup {k}]
        /\ UNCHANGED <<retain, registered, retained>>
    BY <1>1 DEF Subscribe
  <2>2. /\ subscribers' \in [Path -> SUBSET Clients]
        /\ \A n \in Path : n # f => subscribers'[n] = subscribers[n]
        /\ subscribers'[f] = subscribers[f] \cup {k}
    BY <1>0, <1>f, <2>1
  <2>3. nodes' \subseteq Path /\ Hangs' /\ Useful'
    BY <1>0, <2>1, <2>2, Grows
  <2>4. TreeTypeOK'
    BY <2>1, <2>2, <2>3 DEF TreeInv, TreeTypeOK
  <2>5. SubsHeld'
    <3>1. ASSUME NEW n \in Path, NEW j \in Clients
          PROVE  j \in subscribers'[n] <=> <<n, j>> \in subscribed'
      BY <2>1, <2>2 DEF TreeInv, SubsHeld
    <3>2. ASSUME NEW n \in Path, subscribers'[n] # {} PROVE n \in nodes'
      BY <1>f, <2>1, <2>2, <3>2 DEF TreeInv, SubsHeld
    <3> QED BY <3>1, <3>2 DEF SubsHeld
  <2>6. RetainHeld'
    BY <2>1 DEF TreeInv, RetainHeld
  <2> QED BY <2>3, <2>4, <2>5, <2>6 DEF TreeInv
<1>2. ASSUME NEW f \in Filters, NEW r \in Listeners \cup Members, Register(f, r) PROVE TreeInv'
  <2>1. /\ nodes' = nodes \cup Way(f) /\ registered' = [registered EXCEPT ![f] = @ \cup {r}]
        /\ UNCHANGED <<subscribers, retain, subscribed, retained>>
    BY <1>2 DEF Register
  <2>2. /\ registered' \in [Path -> SUBSET (Listeners \cup Members)]
        /\ \A n \in Path : n # f => registered'[n] = registered[n]
        /\ registered'[f] = registered[f] \cup {r}
    BY <1>0, <1>f, <2>1
  <2>3. nodes' \subseteq Path /\ Hangs' /\ Useful'
    BY <1>0, <2>1, <2>2, Grows
  <2>4. TreeTypeOK'
    BY <2>1, <2>2, <2>3 DEF TreeInv, TreeTypeOK
  <2>5. SubsHeld' /\ RetainHeld'
    BY <2>1 DEF TreeInv, SubsHeld, RetainHeld
  <2> QED BY <2>3, <2>4, <2>5 DEF TreeInv
<1>3. ASSUME NEW t \in Topics, NEW m \in Messages, PublishRetained(t, m) PROVE TreeInv'
  <2>1. /\ nodes' = nodes \cup Way(t) /\ retain' = [retain EXCEPT ![t] = m]
        /\ retained' = [retained EXCEPT ![t] = m]
        /\ UNCHANGED <<subscribers, registered, subscribed>>
    BY <1>3 DEF PublishRetained
  <2>2. /\ retain' \in [Path -> Messages \cup {None}] /\ retain'[t] = m
        /\ \A n \in Path : n # t => retain'[n] = retain[n]
        /\ retained' \in [Topics -> Messages \cup {None}] /\ retained'[t] = m
        /\ \A n \in Topics : n # t => retained'[n] = retained[n]
        /\ m # None
    BY <1>0, <1>f, <2>1, TopicTreeAssumption
  <2>3. nodes' \subseteq Path /\ Hangs' /\ Useful'
    BY <1>0, <2>1, <2>2, Grows
  <2>4. TreeTypeOK'
    BY <2>1, <2>2, <2>3 DEF TreeInv, TreeTypeOK
  <2>5. SubsHeld'
    BY <2>1 DEF TreeInv, SubsHeld
  <2>6. RetainHeld'
    <3>1. ASSUME NEW n \in Path, retain'[n] # None PROVE n \in nodes' /\ n \in Topics
      BY <1>f, <2>1, <2>2, <3>1 DEF TreeInv, RetainHeld
    <3>2. ASSUME NEW n \in Topics PROVE retain'[n] = retained'[n]
      BY <1>f, <2>2 DEF TreeInv, RetainHeld
    <3> QED BY <3>1, <3>2 DEF RetainHeld
  <2> QED BY <2>3, <2>4, <2>5, <2>6 DEF TreeInv
<1>4. CASE UNCHANGED treeVars
  BY <1>4 DEF treeVars, nodeVars, TreeInv, TreeTypeOK, Hangs, Useful, HasChild, SubsHeld, RetainHeld
<1> QED BY <1>1, <1>2, <1>3, <1>4, UnsubscribeStep DEF TreeNext

\* The tree holds exactly the subscriptions in force and the retained messages,
\* and its nodes hang together, whatever was added and pruned.
THEOREM TreeInvariance == TreeSpec => []TreeInv
<1> QED BY InitTree, TreeStep, PTL DEF TreeSpec

\* Pruning keeps no useless node, for every set of filters and topics: every node
\* has children, subscribers, a retained message or a registration
\* (mqtt_topic.c:250-262).
THEOREM NoNodeLeftOver == TreeSpec => []NoUselessNodes
<1>1. TreeInv => NoUselessNodes
  <2> SUFFICES ASSUME TreeInv, NEW n \in nodes \ {<<>>}
               PROVE  /\ SubSeq(n, 1, Len(n) - 1) \in nodes
                      /\ \/ Children(n) # {}
                         \/ subscribers[n] # {} \/ retain[n] # None \/ registered[n] # {}
    BY DEF NoUselessNodes
  <2>1. SubSeq(n, 1, Len(n) - 1) \in nodes
    BY DEF TreeInv, Hangs, Parent
  <2>2. nodes \subseteq Path /\ n \in Path
    BY DEF TreeInv, TreeTypeOK
  <2>3. HasChild(n) => Children(n) # {}
    BY <2>2, ChildrenDef DEF HasChild
  <2> QED BY <2>1, <2>3 DEF TreeInv, Useful
<1> QED BY <1>1, TreeInvariance, PTL
-----------------------------------------------------------------------------
(* Walks along the levels.                                                 *)

\* Two functions that agree at 0 and take the same step from what they agree on
\* agree everywhere.
LEMMA SameWalk ==
  ASSUME NEW N \in Nat, NEW f, NEW g, f[0] = g[0],
         \A i \in 1 .. N : f[i - 1] = g[i - 1] => f[i] = g[i]
  PROVE  \A i \in 0 .. N : f[i] = g[i]
<1> SUFFICES ASSUME NEW i \in 0 .. N, f[i] # g[i] PROVE FALSE
  OBVIOUS
<1> DEFINE T == {j \in 0 .. N : f[j] # g[j]}
<1>1. T \in SUBSET Nat /\ T # {}
  OBVIOUS
<1> HIDE DEF T
<1>2. PICK x \in T : \A y \in T : x <= y
  BY <1>1, Least
<1>3. x \in 0 .. N /\ f[x] # g[x]
  BY <1>2 DEF T
<1>4. x \in 1 .. N /\ x - 1 \in 0 .. N /\ ~ (x <= x - 1)
  BY <1>3
<1>5. f[x - 1] = g[x - 1]
  BY <1>2, <1>4 DEF T
<1> QED BY <1>3, <1>4, <1>5

\* The nodes at level i whose path agrees with topic t.
AtLevel(t, i) == {n \in nodes : Len(n) = i /\ \A j \in 1 .. i : n[j] \in {t[j], "+"}}

\* match goes from level to level.
LEMMA MatchStep ==
  ASSUME TreeInv, NEW t \in Topics, NEW i \in 1 .. Len(t)
  PROVE  AtLevel(t, i) = NextNodes(AtLevel(t, i - 1), t[i])
<1>0. /\ nodes \subseteq Seq(Levels) /\ t \in Seq(Levels) /\ Len(t) \in Nat /\ t[i] \in Levels
      /\ "+" \in Levels
  <2>1. nodes \subseteq Seq(Levels) /\ t \in Seq(Levels)
    BY PathFacts DEF TreeInv, TreeTypeOK
  <2>2. Len(t) \in Nat
    BY <2>1, EmptyPath
  <2>3. t[i] \in Levels
    BY <2>1, <2>2, ElementOfSeq
  <2>4. "+" \in Levels
    BY DEF Levels, Wildcards
  <2> QED BY <2>1, <2>2, <2>3, <2>4
<1>1. ASSUME NEW c \in AtLevel(t, i) PROVE c \in NextNodes(AtLevel(t, i - 1), t[i])
  <2>1. c \in nodes /\ c \in Seq(Levels) /\ Len(c) = i /\ \A j \in 1 .. i : c[j] \in {t[j], "+"}
    BY <1>0 DEF AtLevel
  <2>2. c # <<>>
    BY <2>1, EmptyPath
  <2>3. /\ Parent(c) \in Seq(Levels) /\ Len(Parent(c)) = i - 1
        /\ \A j \in 1 .. i - 1 : Parent(c)[j] = c[j]
        /\ c = Append(Parent(c), c[i])
    BY <2>1, <2>2, ParentProps
  <2>4. Parent(c) \in nodes
    BY <2>1, <2>2 DEF TreeInv, Hangs
  <2>5. \A j \in 1 .. i - 1 : Parent(c)[j] \in {t[j], "+"}
    BY <2>1, <2>3
  <2>6. Parent(c) \in AtLevel(t, i - 1)
    BY <2>3, <2>4, <2>5 DEF AtLevel
  <2>7. c[i] \in {t[i], "+"}
    BY <2>1
  <2> QED BY <2>1, <2>3, <2>6, <2>7 DEF NextNodes
<1>2. ASSUME NEW c \in NextNodes(AtLevel(t, i - 1), t[i]) PROVE c \in AtLevel(t, i)
  <2>1. PICK n \in AtLevel(t, i - 1) : c = Append(n, t[i]) \/ c = Append(n, "+")
    BY DEF NextNodes
  <2>2. PICK l \in {t[i], "+"} : c = Append(n, l)
    BY <2>1
  <2>3. c \in nodes /\ n \in Seq(Levels) /\ l \in Levels
    BY <1>0, <2>2 DEF NextNodes, AtLevel
  <2>4. Len(n) = i - 1 /\ \A j \in 1 .. i - 1 : n[j] \in {t[j], "+"}
    BY DEF AtLevel
  <2>5. Len(c) = Len(n) + 1 /\ (\A j \in 1 .. Len(n) : c[j] = n[j]) /\ c[Len(n) + 1] = l
    BY <2>2, <2>3, AppendProps
  <2>6. Len(c) = i /\ c[i] = l /\ \A j \in 1 .. i - 1 : c[j] = n[j]
    BY <1>0, <2>4, <2>5
  <2>7. \A j \in 1 .. i : c[j] \in {t[j], "+"}
    <3>1. \A j \in 1 .. i : j = i \/ j \in 1 .. i - 1
      BY <1>0
    <3> QED BY <2>2, <2>4, <2>6, <3>1
  <2> QED BY <2>3, <2>6, <2>7 DEF AtLevel
<1> QED BY <1>1, <1>2

LEMMA MatchStart ==
  ASSUME TreeInv, NEW t
  PROVE  AtLevel(t, 0) = {<<>>}
<1>1. nodes \subseteq Seq(Levels) /\ <<>> \in nodes
  BY PathFacts DEF TreeInv, TreeTypeOK, Hangs
<1> QED BY <1>1, EmptyPath DEF AtLevel

\* match reaches, level by level, the nodes that agree with the topic.
LEMMA ReachedIs ==
  ASSUME TreeInv, NEW t \in Topics
  PROVE  \A i \in 0 .. Len(t) : Reached(t)[i] = AtLevel(t, i)
<1>0. Len(t) \in Nat
  BY PathFacts, EmptyPath
<1> DEFINE walk(r) == r = [i \in 0 .. Len(t) |-> IF i = 0 THEN {<<>>} ELSE NextNodes(r[i - 1], t[i])]
<1>1. PICK g : g = [i \in 0 .. Len(t) |-> AtLevel(t, i)]
  OBVIOUS
<1>2. walk(g)
  <2>1. \A i \in 0 .. Len(t) : g[i] = IF i = 0 THEN {<<>>} ELSE NextNodes(g[i - 1], t[i])
    <3> SUFFICES ASSUME NEW i \in 0 .. Len(t)
                 PROVE  g[i] = IF i = 0 THEN {<<>>} ELSE NextNodes(g[i - 1], t[i])
      OBVIOUS
    <3>1. CASE i = 0
      BY <1>1, <3>1, MatchStart
    <3>2. CASE i # 0
      <4>1. i \in 1 .. Len(t) /\ i - 1 \in 0 .. Len(t)
        BY <1>0, <3>2
      <4> QED BY <1>1, <3>2, <4>1, MatchStep
    <3> QED BY <3>1, <3>2
  <2> QED BY <1>1, <2>1
<1>3. Reached(t) = CHOOSE r : walk(r)
  BY Zenon DEF Reached
<1> HIDE DEF walk
<1>4. walk(Reached(t))
  BY <1>2, <1>3, Zenon
<1>5. PICK f : f = Reached(t)
  OBVIOUS
<1>6. f = [i \in 0 .. Len(t) |-> IF i = 0 THEN {<<>>} ELSE NextNodes(f[i - 1], t[i])]
  BY <1>4, <1>5, Zenon DEF walk
<1>7. g = [i \in 0 .. Len(t) |-> IF i = 0 THEN {<<>>} ELSE NextNodes(g[i - 1], t[i])]
  BY <1>2, Zenon DEF walk
<1>8. f[0] = g[0]
  <2>1. f[0] = {<<>>}
    BY <1>0, <1>6
  <2>2. g[0] = {<<>>}
    BY <1>0, <1>7
  <2> QED BY <2>1, <2>2
<1>9. ASSUME NEW i \in 1 .. Len(t), f[i - 1] = g[i - 1] PROVE f[i] = g[i]
  <2>0. i \in 0 .. Len(t) /\ i # 0
    BY <1>0
  <2>1. f[i] = NextNodes(f[i - 1], t[i])
    BY <1>6, <2>0
  <2>2. g[i] = NextNodes(g[i - 1], t[i])
    BY <1>7, <2>0
  <2> QED BY <1>9, <2>1, <2>2, Zenon
<1>10. \A i \in 0 .. Len(t) : f[i] = g[i]
  BY <1>0, <1>8, <1>9, SameWalk
<1> QED BY <1>1, <1>5, <1>10

\* Of the filters that have a node, match finds those that match the topic.
LEMMA MatchedIs ==
  ASSUME WellFormedNames, TreeInv, NEW t \in Topics, NEW f \in Filters, f \in nodes
  PROVE  f \in Matched(t) <=> Matches(f, t)
<1>0. /\ f \in Seq(Levels) /\ f # <<>> /\ t \in Seq(Levels) /\ Len(t) \in Nat
      /\ Len(f) \in Nat \ {0} /\ nodes \subseteq Seq(Levels)
  <2>1. f \in Seq(Levels) /\ f # <<>> /\ t \in Seq(Levels) /\ nodes \subseteq Seq(Levels)
    BY PathFacts DEF TreeInv, TreeTypeOK
  <2> QED BY <2>1, EmptyPath
<1>1. \A j \in 1 .. Len(t) : t[j] # "+" /\ t[j] # "#"
  BY DEF WellFormedNames, Wildcards
<1>2. f \in Matched(t) <=> \/ f \in AtLevel(t, Len(t))
                          \/ \E i \in 0 .. Len(t) : \E n \in AtLevel(t, i) : f = Append(n, "#")
  <2>1. f \in Matched(t) <=> \/ f \in Reached(t)[Len(t)]
                             \/ \E i \in 0 .. Len(t) : \E n \in Reached(t)[i] : f \in HashBelow(n)
    BY DEF Matched
  <2>2. Reached(t)[Len(t)] = AtLevel(t, Len(t)) /\ \A i \in 0 .. Len(t) : Reached(t)[i] = AtLevel(t, i)
    BY <1>0, ReachedIs
  <2>3. \A n : f \in HashBelow(n) <=> f = Append(n, "#")
    BY DEF HashBelow
  <2> QED BY <2>1, <2>2, <2>3
<1>3. /\ Parent(f) \in nodes /\ Len(Parent(f)) = Len(f) - 1 /\ Parent(f) \in Seq(Levels)
      /\ \A j \in 1 .. Len(f) - 1 : Parent(f)[j] = f[j]
      /\ f = Append(Parent(f), f[Len(f)])
  BY <1>0, ParentProps DEF TreeInv, Hangs
<1>4. \A n \in nodes : f = Append(n, "#") <=> n = Parent(f) /\ f[Len(f)] = "#"
  <2> SUFFICES ASSUME NEW n \in nodes PROVE f = Append(n, "#") <=> n = Parent(f) /\ f[Len(f)] = "#"
    OBVIOUS
  <2>1. n \in Seq(Levels) /\ "#" \in Levels
    BY <1>0 DEF Levels, Wildcards
  <2>2. Append(n, "#")[Len(n) + 1] = "#" /\ Parent(Append(n, "#")) = n /\ Len(Append(n, "#")) = Len(n) + 1
    BY <2>1, AppendProps
  <2>3. CASE f = Append(n, "#")
    BY <2>2, <2>3
  <2>4. CASE n = Parent(f) /\ f[Len(f)] = "#"
    BY <1>3, <2>4
  <2> QED BY <2>3, <2>4
<1>5. CASE f[Len(f)] = "#"
  <2>1. f \notin AtLevel(t, Len(t))
    <3>1. SUFFICES ASSUME f \in AtLevel(t, Len(t)) PROVE FALSE
      OBVIOUS
    <3>2. Len(f) = Len(t) /\ \A j \in 1 .. Len(t) : f[j] \in {t[j], "+"}
      BY <3>1 DEF AtLevel
    <3>3. Len(f) \in 1 .. Len(t)
      BY <1>0, <3>2
    <3> QED BY <1>1, <1>5, <3>2, <3>3
  <2>2. f \in Matched(t) <=> \E i \in 0 .. Len(t) : Parent(f) \in AtLevel(t, i)
    <3>1. \A i : \A n \in AtLevel(t, i) : n \in nodes
      BY DEF AtLevel
    <3> QED BY <1>2, <1>3, <1>4, <1>5, <2>1, <3>1
  <2>3. \A i \in 0 .. Len(t) : Parent(f) \in AtLevel(t, i) <=>
          i = Len(f) - 1 /\ \A j \in 1 .. Len(f) - 1 : f[j] \in {t[j], "+"}
    BY <1>0, <1>3 DEF AtLevel
  <2>4. f \in Matched(t) <=> Len(f) - 1 \in 0 .. Len(t) /\ \A j \in 1 .. Len(f) - 1 : f[j] \in {t[j], "+"}
    BY <2>2, <2>3
  <2>5. Len(f) - 1 \in 0 .. Len(t) <=> Len(t) >= Len(f) - 1
    BY <1>0
  <2> QED BY <1>5, <2>4, <2>5 DEF Matches
<1>6. CASE f[Len(f)] # "#"
  <2>1. f \in Matched(t) <=> f \in AtLevel(t, Len(t))
    <3>1. \A i : \A n \in AtLevel(t, i) : n \in nodes
      BY DEF AtLevel
    <3> QED BY <1>2, <1>4, <1>6, <3>1
  <2>2. f \in AtLevel(t, Len(t)) <=> Len(f) = Len(t) /\ \A j \in 1 .. Len(t) : f[j] \in {t[j], "+"}
    BY DEF AtLevel
  <2>3. Matches(f, t) <=> Len(t) = Len(f) /\ \A j \in 1 .. Len(f) : f[j] \in {t[j], "+"}
    BY <1>6 DEF Matches
  <2> QED BY <2>1, <2>2, <2>3
<1> QED BY <1>5, <1>6

\* A message is broadcast to exactly the subscriptions in force whose filter
\* matches its topic, for all filters and topics that keep to MQTT's grammar and
\* whatever was added, removed and pruned before (mqtt_topic.c:250-280, 322-388).
THEOREM BroadcastExact ==
  ASSUME WellFormedNames
  PROVE  TreeSpec => []RecipientsExact
<1>1. TreeInv => RecipientsExact
  <2> SUFFICES ASSUME TreeInv, NEW t \in Topics
               PROVE  Recipients(t) = {s \in subscribed : Matches(s[1], t)}
    BY DEF RecipientsExact
  <2>0. /\ subscribed \subseteq Filters \X Clients /\ subscribers \in [Path -> SUBSET Clients]
        /\ nodes \subseteq Path /\ Filters \subseteq Path
    BY PathFacts DEF TreeInv, TreeTypeOK
  <2>1. Matched(t) \subseteq Path
    <3>1. Matched(t) \subseteq nodes \cup Reached(t)[Len(t)]
      BY DEF Matched, HashBelow
    <3>2. Reached(t)[Len(t)] \subseteq nodes
      <4>1. Len(t) \in 0 .. Len(t)
        BY PathFacts, EmptyPath
      <4> QED BY <4>1, ReachedIs DEF AtLevel
    <3> QED BY <2>0, <3>1, <3>2
  <2>2. ASSUME NEW f \in Path, NEW k \in Clients
        PROVE  (f \in Matched(t) /\ k \in subscribers[f]) <=> (<<f, k>> \in subscribed /\ Matches(f, t))
    <3>1. k \in subscribers[f] <=> <<f, k>> \in subscribed
      BY DEF TreeInv, SubsHeld
    <3>2. k \in subscribers[f] => f \in nodes
      BY DEF TreeInv, SubsHeld
    <3>3. <<f, k>> \in subscribed => f \in Filters
      BY <2>0
    <3>4. f \in Filters /\ f \in nodes => (f \in Matched(t) <=> Matches(f, t))
      BY MatchedIs
    <3> QED BY <3>1, <3>2, <3>3, <3>4
  <2>3. \A s : s \in Recipients(t) <=>
          \E f \in Matched(t) : \E k \in subscribers[f] : s = <<f, k>>
    BY DEF Recipients
  <2>4. ASSUME NEW s \in Recipients(t) PROVE s \in {x \in subscribed : Matches(x[1], t)}
    <3>1. PICK f \in Matched(t) : \E k \in subscribers[f] : s = <<f, k>>
      BY <2>3
    <3>2. PICK k \in subscribers[f] : s = <<f, k>>
      BY <3>1
    <3>3. f \in Path /\ k \in Clients
      BY <2>0, <2>1
    <3> QED BY <2>2, <3>2, <3>3
  <2>5. ASSUME NEW s \in subscribed, Matches(s[1], t) PROVE s \in Recipients(t)
    <3>1. PICK f \in Filters, k \in Clients : s = <<f, k>>
      BY <2>0
    <3>2. f \in Matched(t) /\ k \in subscribers[f]
      BY <2>0, <2>2, <2>5, <3>1
    <3> QED BY <2>3, <3>1, <3>2
  <2> QED BY <2>4, <2>5
<1> QED BY <1>1, TreeInvariance, PTL
-----------------------------------------------------------------------------
(* The retained messages.                                                  *)

\* All nodes above a node are there.
LEMMA PrefixesThere ==
  ASSUME TreeInv, NEW c \in nodes, NEW i \in 0 .. Len(c)
  PROVE  SubSeq(c, 1, i) \in nodes
<1>0. c \in Seq(Levels) /\ Len(c) \in Nat
  BY PathFacts, EmptyPath DEF TreeInv, TreeTypeOK
<1> DEFINE T == {d \in 0 .. Len(c) : SubSeq(c, 1, Len(c) - d) \notin nodes}
<1>1. SUFFICES ASSUME T # {} PROVE FALSE
  <2>1. Len(c) - i \in 0 .. Len(c) /\ Len(c) - (Len(c) - i) = i
    BY <1>0
  <2> QED BY <2>1
<1>2. T \in SUBSET Nat
  OBVIOUS
<1> HIDE DEF T
<1>3. PICK d \in T : \A e \in T : d <= e
  BY <1>1, <1>2, Least
<1>4. d \in 0 .. Len(c) /\ SubSeq(c, 1, Len(c) - d) \notin nodes
  BY <1>3 DEF T
<1>5. d # 0
  <2>1. SubSeq(c, 1, Len(c)) = c
    BY <1>0, SubSeqFull
  <2>2. Len(c) - 0 = Len(c)
    BY <1>0
  <2> QED BY <1>4, <2>1, <2>2
<1>6. d - 1 \in 0 .. Len(c) /\ ~ (d <= d - 1)
  BY <1>0, <1>4, <1>5
<1>7. SubSeq(c, 1, Len(c) - (d - 1)) \in nodes
  BY <1>3, <1>6 DEF T
<1>8. PICK j \in 1 .. Len(c) : j = Len(c) - (d - 1)
  <2>1. d \in 1 .. Len(c)
    BY <1>0, <1>4, <1>5
  <2>2. Len(c) - (d - 1) \in 1 .. Len(c)
    BY <1>0, <2>1
  <2> QED BY <2>2
<1>9. SubSeq(c, 1, j) # <<>> /\ Parent(SubSeq(c, 1, j)) = SubSeq(c, 1, j - 1)
  BY <1>0, PrefixParent
<1>10. SubSeq(c, 1, j - 1) \in nodes
  BY <1>7, <1>8, <1>9 DEF TreeInv, Hangs
<1>11. j - 1 = Len(c) - d
  BY <1>0, <1>4, <1>8
<1> QED BY <1>4, <1>10, <1>11

Fits(c, f, i) == \A j \in 1 .. i : IF f[j] = "+" THEN c[j] \notin Wildcards ELSE c[j] = f[j]

\* The nodes that level i of filter f leads to.
FoundAt(f, i) ==
  IF i > 0 /\ f[i] = "#"
  THEN {c \in nodes : Len(c) >= i - 1 /\ Fits(c, f, i - 1)
                        /\ \A j \in i .. Len(c) : c[j] \notin Wildcards}
  ELSE {c \in nodes : Len(c) = i /\ Fits(c, f, i)}

\* find_retain_messages goes from level to level.
LEMMA RetainWalkStep ==
  ASSUME WellFormedNames, TreeInv, NEW f \in Filters, NEW i \in 1 .. Len(f)
  PROVE  FoundAt(f, i) = RetainStep(FoundAt(f, i - 1), f[i])
<1>0. /\ nodes \subseteq Seq(Levels) /\ nodes \subseteq Path /\ f \in Seq(Levels) /\ Len(f) \in Nat
      /\ \A c \in nodes : Len(c) \in Nat
  <2>1. nodes \subseteq Seq(Levels) /\ nodes \subseteq Path /\ f \in Seq(Levels)
    BY PathFacts DEF TreeInv, TreeTypeOK
  <2> QED BY <2>1, EmptyPath
<1>1. f[i] \in Levels
  BY <1>0, ElementOfSeq
<1> DEFINE S == {c \in nodes : Len(c) = i - 1 /\ Fits(c, f, i - 1)}
<1>2. FoundAt(f, i - 1) = S
  <2>1. i - 1 > 0 => i - 1 \in 1 .. Len(f) - 1
    BY <1>0
  <2>2. i - 1 > 0 => f[i - 1] # "#"
    BY <2>1 DEF WellFormedNames
  <2> QED BY <2>2 DEF FoundAt
\* A node one level down that fits hangs on one that fits.
<1>3. ASSUME NEW c \in nodes, Len(c) = i
      PROVE  /\ c # <<>> /\ Parent(c) \in nodes /\ c = Append(Parent(c), c[i])
             /\ Fits(c, f, i - 1) => Parent(c) \in S
             /\ Parent(c) \in S => Fits(c, f, i - 1)
  <2>1. c # <<>> /\ c \in Seq(Levels)
    BY <1>0, <1>3, EmptyPath
  <2>2. /\ Len(Parent(c)) = i - 1 /\ c = Append(Parent(c), c[i])
        /\ \A j \in 1 .. i - 1 : Parent(c)[j] = c[j]
    BY <1>3, <2>1, ParentProps
  <2>3. Parent(c) \in nodes
    BY <2>1 DEF TreeInv, Hangs
  <2>4. Fits(Parent(c), f, i - 1) <=> Fits(c, f, i - 1)
    BY <2>2 DEF Fits
  <2> QED BY <2>1, <2>2, <2>3, <2>4
<1>4. \A c : Fits(c, f, i) <=> /\ Fits(c, f, i - 1)
                               /\ IF f[i] = "+" THEN c[i] \notin Wildcards ELSE c[i] = f[i]
  <2>1. \A j \in 1 .. i : j = i \/ j \in 1 .. i - 1
    BY <1>0
  <2>2. i \in 1 .. i /\ \A j \in 1 .. i - 1 : j \in 1 .. i
    BY <1>0
  <2> QED BY <2>1, <2>2 DEF Fits
<1>5. CASE f[i] = "+"
  <2>1. FoundAt(f, i) = {c \in nodes : Len(c) = i /\ Fits(c, f, i)}
    BY <1>5 DEF FoundAt
  <2>2. RetainStep(S, f[i]) = {c \in UNION {Children(n) : n \in S} : Level(c) \notin Wildcards}
    BY <1>5 DEF RetainStep
  <2>3. ASSUME NEW c \in nodes, Len(c) = i, Fits(c, f, i) PROVE c \in RetainStep(S, f[i])
    <3>1. Parent(c) \in S /\ c # <<>> /\ c[i] \notin Wildcards
      BY <1>3, <1>4, <1>5, <2>3
    <3>2. c \in Children(Parent(c))
      BY <1>0, <3>1, ChildrenDef
    <3> QED BY <2>2, <2>3, <3>1, <3>2 DEF Level
  <2>4. ASSUME NEW c \in RetainStep(S, f[i]) PROVE c \in nodes /\ Len(c) = i /\ Fits(c, f, i)
    <3>1. PICK n \in S : c \in Children(n)
      BY <2>2
    <3>2. c \in nodes /\ Parent(c) = n /\ Len(c) = Len(n) + 1
      BY <1>0, <3>1, ChildrenDef DEF Children
    <3>3. Len(c) = i
      BY <1>0, <3>1, <3>2
    <3>4. c[i] \notin Wildcards
      BY <2>2, <3>3 DEF Level
    <3> QED BY <1>3, <1>4, <1>5, <3>1, <3>2, <3>3, <3>4
  <2> QED BY <1>2, <2>1, <2>3, <2>4
<1>6. CASE f[i] = "#"
  <2>1. FoundAt(f, i) = {c \in nodes : Len(c) >= i - 1 /\ Fits(c, f, i - 1)
                                         /\ \A j \in i .. Len(c) : c[j] \notin Wildcards}
    BY <1>6 DEF FoundAt
  <2>2. RetainStep(S, f[i]) = UNION {AllBelow(n) : n \in S}
    BY <1>6 DEF RetainStep
  <2>3. ASSUME NEW c \in nodes, Len(c) >= i - 1
        PROVE  /\ SubSeq(c, 1, i - 1) \in nodes /\ Len(SubSeq(c, 1, i - 1)) = i - 1
               /\ Fits(SubSeq(c, 1, i - 1), f, i - 1) <=> Fits(c, f, i - 1)
    <3>1. i - 1 \in 0 .. Len(c) /\ c \in Seq(Levels)
      BY <1>0, <2>3
    <3>2. /\ Len(SubSeq(c, 1, i - 1)) = i - 1
          /\ \A j \in 1 .. i - 1 : SubSeq(c, 1, i - 1)[j] = c[j]
      BY <3>1, PrefixProps
    <3>3. Fits(SubSeq(c, 1, i - 1), f, i - 1) <=> Fits(c, f, i - 1)
      BY <3>2 DEF Fits
    <3> QED BY <3>1, <3>2, <3>3, PrefixesThere
  <2>4. \A n \in S : Len(n) = i - 1 /\ Len(n) + 1 = i
    BY <1>0
  <2>5. ASSUME NEW c \in FoundAt(f, i) PROVE c \in RetainStep(S, f[i])
    <3>1. c \in nodes /\ Len(c) >= i - 1 /\ Fits(c, f, i - 1) /\ \A j \in i .. Len(c) : c[j] \notin Wildcards
      BY <2>1
    <3>2. PICK n \in S : n = SubSeq(c, 1, i - 1)
      BY <2>3, <3>1
    <3>3. c \in AllBelow(n)
      BY <2>4, <3>1, <3>2 DEF AllBelow
    <3> QED BY <2>2, <3>3
  <2>6. ASSUME NEW c \in RetainStep(S, f[i]) PROVE c \in FoundAt(f, i)
    <3>1. PICK n \in S : c \in AllBelow(n)
      BY <2>2
    <3>2. /\ c \in nodes /\ Len(c) >= i - 1 /\ SubSeq(c, 1, i - 1) = n
          /\ \A j \in i .. Len(c) : c[j] \notin Wildcards
      BY <2>4, <3>1 DEF AllBelow
    <3>3. Fits(c, f, i - 1)
      BY <2>3, <3>1, <3>2
    <3> QED BY <2>1, <3>2, <3>3
  <2> QED BY <1>2, <2>5, <2>6
<1>7. CASE f[i] # "+" /\ f[i] # "#"
  <2>1. FoundAt(f, i) = {c \in nodes : Len(c) = i /\ Fits(c, f, i)}
    BY <1>7 DEF FoundAt
  <2>2. RetainStep(S, f[i]) = {c \in nodes : \E n \in S : c = Append(n, f[i])}
    BY <1>7 DEF RetainStep
  <2>3. ASSUME NEW c \in nodes, Len(c) = i, Fits(c, f, i) PROVE c \in RetainStep(S, f[i])
    <3>1. Parent(c) \in S /\ c = Append(Parent(c), c[i]) /\ c[i] = f[i]
      BY <1>3, <1>4, <1>7, <2>3
    <3> QED BY <2>2, <3>1
  <2>4. ASSUME NEW c \in RetainStep(S, f[i]) PROVE c \in nodes /\ Len(c) = i /\ Fits(c, f, i)
    <3>1. PICK n \in S : c = Append(n, f[i])
      BY <2>2
    <3>2. c \in nodes /\ n \in Seq(Levels) /\ Len(n) = i - 1
      BY <1>0, <2>2, <3>1
    <3>3. Len(c) = Len(n) + 1 /\ c[Len(n) + 1] = f[i] /\ Parent(c) = n
      BY <1>1, <3>1, <3>2, AppendProps
    <3>4. Len(c) = i /\ c[i] = f[i]
      BY <1>0, <3>2, <3>3
    <3>5. Fits(c, f, i - 1)
      <4>1. Parent(c) \in S => Fits(c, f, i - 1)
        BY <1>3, <3>2, <3>4
      <4>2. Parent(c) \in S
        BY <3>1, <3>3, Zenon
      <4> QED BY <4>1, <4>2, Zenon
    <3> QED BY <1>4, <1>7, <3>2, <3>4, <3>5
  <2> QED BY <1>2, <2>1, <2>3, <2>4
<1> QED BY <1>5, <1>6, <1>7

\* find_retain_messages finds the nodes that the filter leads to.
LEMMA FoundIs ==
  ASSUME WellFormedNames, TreeInv, NEW f \in Filters
  PROVE  FoundNodes(f) = FoundAt(f, Len(f))
<1>0. Len(f) \in Nat
  BY PathFacts, EmptyPath
<1> DEFINE walk(r) == r = [i \in 0 .. Len(f) |-> IF i = 0 THEN {<<>>} ELSE RetainStep(r[i - 1], f[i])]
<1>1. PICK g : g = [i \in 0 .. Len(f) |-> FoundAt(f, i)]
  OBVIOUS
<1>2. walk(g)
  <2>1. \A i \in 0 .. Len(f) : g[i] = IF i = 0 THEN {<<>>} ELSE RetainStep(g[i - 1], f[i])
    <3> SUFFICES ASSUME NEW i \in 0 .. Len(f)
                 PROVE  g[i] = IF i = 0 THEN {<<>>} ELSE RetainStep(g[i - 1], f[i])
      OBVIOUS
    <3>1. CASE i = 0
      <4>1. FoundAt(f, 0) = {c \in nodes : Len(c) = 0}
        BY DEF FoundAt, Fits
      <4>2. nodes \subseteq Seq(Levels) /\ <<>> \in nodes
        BY PathFacts DEF TreeInv, TreeTypeOK, Hangs
      <4>3. FoundAt(f, 0) = {<<>>}
        BY <4>1, <4>2, EmptyPath
      <4> QED BY <1>1, <3>1, <4>3
    <3>2. CASE i # 0
      <4>1. i \in 1 .. Len(f) /\ i - 1 \in 0 .. Len(f)
        BY <1>0, <3>2
      <4> QED BY <1>1, <3>2, <4>1, RetainWalkStep
    <3> QED BY <3>1, <3>2
  <2> QED BY <1>1, <2>1
<1>3. FoundNodes(f) = (CHOOSE r : walk(r))[Len(f)]
  BY Zenon DEF FoundNodes
<1> HIDE DEF walk
<1>4. PICK h : h = CHOOSE r : walk(r)
  OBVIOUS
<1>5. walk(h)
  BY <1>2, <1>4, Zenon
<1>6. h = [i \in 0 .. Len(f) |-> IF i = 0 THEN {<<>>} ELSE RetainStep(h[i - 1], f[i])]
  BY <1>5, Zenon DEF walk
<1>7. g = [i \in 0 .. Len(f) |-> IF i = 0 THEN {<<>>} ELSE RetainStep(g[i - 1], f[i])]
  BY <1>2, Zenon DEF walk
<1>8. h[0] = g[0]
  <2>1. h[0] = {<<>>}
    BY <1>0, <1>6
  <2>2. g[0] = {<<>>}
    BY <1>0, <1>7
  <2> QED BY <2>1, <2>2
<1>9. ASSUME NEW i \in 1 .. Len(f), h[i - 1] = g[i - 1] PROVE h[i] = g[i]
  <2>0. i \in 0 .. Len(f) /\ i # 0
    BY <1>0
  <2>1. h[i] = RetainStep(h[i - 1], f[i])
    BY <1>6, <2>0
  <2>2. g[i] = RetainStep(g[i - 1], f[i])
    BY <1>7, <2>0
  <2> QED BY <1>9, <2>1, <2>2, Zenon
<1>10. \A i \in 0 .. Len(f) : h[i] = g[i]
  BY <1>0, <1>8, <1>9, SameWalk
<1>11. Len(f) \in 0 .. Len(f)
  BY <1>0
<1>12. h[Len(f)] = FoundAt(f, Len(f))
  BY <1>1, <1>10, <1>11
<1> QED BY <1>3, <1>4, <1>12, Zenon

\* A topic that has a node is found by the filters that match it.
LEMMA TopicFound ==
  ASSUME WellFormedNames, TreeInv, NEW f \in Filters, NEW t \in Topics, t \in nodes
  PROVE  t \in FoundNodes(f) <=> Matches(f, t)
<1>0. Len(f) \in Nat \ {0} /\ Len(t) \in Nat
  BY PathFacts, EmptyPath
<1>1. \A j \in 1 .. Len(t) : t[j] \notin Wildcards
  BY DEF WellFormedNames
<1>2. \A j \in 1 .. Len(t) :
        (IF f[j] = "+" THEN t[j] \notin Wildcards ELSE t[j] = f[j]) <=> f[j] \in {t[j], "+"}
  BY <1>1
<1>3. t \in FoundNodes(f) <=> t \in FoundAt(f, Len(f))
  BY FoundIs
<1>4. CASE f[Len(f)] = "#"
  <2>1. t \in FoundAt(f, Len(f)) <=>
          /\ Len(t) >= Len(f) - 1 /\ Fits(t, f, Len(f) - 1)
          /\ \A j \in Len(f) .. Len(t) : t[j] \notin Wildcards
    BY <1>0, <1>4 DEF FoundAt
  <2>2. \A j \in Len(f) .. Len(t) : t[j] \notin Wildcards
    BY <1>0, <1>1
  <2>3. ASSUME Len(t) >= Len(f) - 1
        PROVE  Fits(t, f, Len(f) - 1) <=> \A j \in 1 .. Len(f) - 1 : f[j] \in {t[j], "+"}
    <3>1. \A j \in 1 .. Len(f) - 1 : j \in 1 .. Len(t)
      BY <1>0, <2>3
    <3> QED BY <1>2, <3>1 DEF Fits
  <2>4. Matches(f, t) <=> Len(t) >= Len(f) - 1 /\ \A j \in 1 .. Len(f) - 1 : f[j] \in {t[j], "+"}
    BY <1>4 DEF Matches
  <2> QED BY <1>3, <2>1, <2>2, <2>3, <2>4
<1>5. CASE f[Len(f)] # "#"
  <2>1. t \in FoundAt(f, Len(f)) <=> Len(t) = Len(f) /\ Fits(t, f, Len(f))
    BY <1>0, <1>5 DEF FoundAt
  <2>2. Matches(f, t) <=> Len(t) = Len(f) /\ \A j \in 1 .. Len(f) : f[j] \in {t[j], "+"}
    BY <1>5 DEF Matches
  <2>3. ASSUME Len(t) = Len(f)
        PROVE  Fits(t, f, Len(f)) <=> \A j \in 1 .. Len(f) : f[j] \in {t[j], "+"}
    BY <1>2, <2>3 DEF Fits
  <2> QED BY <1>3, <2>1, <2>2, <2>3
<1> QED BY <1>4, <1>5

\* A new subscription finds exactly the last retained messages of the topics that
\* match it, for all filters and topics that keep to MQTT's grammar
\* (mqtt_topic.c:133-179, 213-225).
THEOREM RetainedMessagesExact ==
  ASSUME WellFormedNames
  PROVE  TreeSpec => []RetainedExact
<1>1. TreeInv => RetainedExact
  <2> SUFFICES ASSUME TreeInv, NEW f \in Filters
               PROVE  FoundRetained(f) = {<<t, retained[t]>> :
                        t \in {x \in Topics : retained[x] # None /\ Matches(f, x)}}
    BY DEF RetainedExact
  <2>1. FoundNodes(f) \subseteq nodes /\ nodes \subseteq Path
    BY FoundIs DEF FoundAt, TreeInv, TreeTypeOK
  <2>2. Topics \subseteq Path
    BY PathFacts
  <2>3. {x \in FoundNodes(f) : retain[x] # None}
          = {x \in Topics : retained[x] # None /\ Matches(f, x)}
    <3>1. ASSUME NEW x \in FoundNodes(f), retain[x] # None
          PROVE  x \in Topics /\ retained[x] # None /\ Matches(f, x)
      <4>1. x \in nodes /\ x \in Topics /\ retain[x] = retained[x]
        BY <2>1, <3>1 DEF TreeInv, RetainHeld
      <4> QED BY <3>1, <4>1, TopicFound
    <3>2. ASSUME NEW x \in Topics, retained[x] # None, Matches(f, x)
          PROVE  x \in FoundNodes(f) /\ retain[x] # None
      <4>1. retain[x] = retained[x]
        BY DEF TreeInv, RetainHeld
      <4>2. x \in nodes
        BY <2>2, <3>2, <4>1 DEF TreeInv, RetainHeld
      <4> QED BY <3>2, <4>1, <4>2, TopicFound
    <3> QED BY <3>1, <3>2
  <2>4. \A x \in {y \in Topics : retained[y] # None /\ Matches(f, y)} : retain[x] = retained[x]
    BY DEF TreeInv, RetainHeld
  <2> QED BY <2>3, <2>4 DEF FoundRetained
<1> QED BY <1>1, TreeInvariance, PTL
=============================================================================
