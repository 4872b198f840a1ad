---------------------------- MODULE Timer_proofs ----------------------------
(***************************************************************************)
(* Proof that between two handlers every timer is in the heap once and the *)
(* timerfd goes off no later than it expires (TimersArmed), for any        *)
(* timeouts and any sequence of additions, cancellations and rounds of     *)
(* timer_heap_timeout, as long as the heap keeps to its memory; and that   *)
(* it does with fewer timers than TIMER_HEAP_INITIAL_SIZE (HeapInMemory).  *)
(*                                                                         *)
(* timer_swim and timer_sink are one construction: they move elements      *)
(* along a way of places and put one in the last (IsShift).  What that     *)
(* leaves in the heap is shown once (ShiftFacts); the order of the heap,   *)
(* for each of the two.  The loops are recursive functions; that a         *)
(* function with the equation of the recursion exists, and what it         *)
(* returns, is shown by induction over sets of numbers (NatInductive).     *)
(***************************************************************************)
EXTENDS Timer, TLAPS, SequenceTheorems, WellFoundedInduction, FiniteSetTheorems

\* A set of natural numbers has a least member.
LEMMA LeastIn ==
  ASSUME NEW S, S \subseteq Nat, S # {}
  PROVE  \E x \in S : \A y \in S : x <= y
<1> DEFINE R == {ss \in Nat \X Nat : ss[1] < ss[2]}
<1>1. IsWellFoundedOn(R, Nat)
  BY NatLessThanWellFounded DEF OpToRel
<1>2. PICK x \in S : \A y \in S : ~ (<<y, x>> \in R)
  <2> HIDE DEF R
  <2> QED BY <1>1, WFMin
<1>3. \A y \in S : x <= y
  <2> SUFFICES ASSUME NEW y \in S, y < x PROVE FALSE
    OBVIOUS
  <2>1. <<y, x>> \in Nat \X Nat /\ <<y, x>>[1] = y /\ <<y, x>>[2] = x
    OBVIOUS
  <2> QED BY <1>2, <2>1
<1> QED BY <1>3

\* Induction over the natural numbers, for a set of them.
LEMMA NatInductive ==
  ASSUME NEW T, 0 \in T, \A n \in Nat : n \in T => n + 1 \in T
  PROVE  \A n \in Nat : n \in T
<1> SUFFICES ASSUME Nat \ T # {} PROVE FALSE
  OBVIOUS
<1>1. PICK m \in Nat \ T : \A y \in Nat \ T : m <= y
  BY LeastIn
<1>2. m - 1 \in Nat /\ (m - 1) + 1 = m
  OBVIOUS
<1>3. m - 1 \in Nat \ T
  BY <1>2
<1> QED BY <1>1, <1>3

-----------------------------------------------------------------------------
(* Moving elements along a way.                                            *)

\* heap[idx] = t changes one place.
LEMMA PutIs ==
  ASSUME NEW a, NEW i \in DOMAIN a, NEW v
  PROVE  /\ DOMAIN Put(a, i, v) = DOMAIN a /\ Put(a, i, v)[i] = v
         /\ \A j \in DOMAIN a : j # i => Put(a, i, v)[j] = a[j]
BY DEF Put

\* The same, for an array with elements in S.
LEMMA PutAt ==
  ASSUME NEW D, NEW S, NEW a \in [D -> S], NEW i \in D, NEW v
  PROVE  Put(a, i, v)[i] = v /\ \A j \in D : j # i => Put(a, i, v)[j] = a[j]
BY DEF Put

\* timer_swim and timer_sink move the elements of h on a way of places, each to the
\* place before, and put x in the last place: f[i] is the heap when they start at i.
IsShift(h, x, A, nx, D, f) ==
  f = [i \in D |-> IF i \in A THEN Put(f[nx[i]], i, h[nx[i]]) ELSE Put(h, i, x)]

\* The way leads to places of lower rank, so it ends.
Descends(A, nx, D, rk) ==
  /\ \A i \in D : rk[i] \in Nat
  /\ \A i \in A : i \in D /\ nx[i] \in D /\ rk[nx[i]] < rk[i]

\* There is a function that satisfies the recursion.
LEMMA ShiftExists ==
  ASSUME NEW h, NEW x, NEW A, NEW nx, NEW D, NEW rk, Descends(A, nx, D, rk),
         NEW n \in Nat, \A i \in D : rk[i] < n
  PROVE  \E f : IsShift(h, x, A, nx, D, f)
<1> DEFINE Low(m) == {i \in D : rk[i] < m}
           T == {m \in Nat : \E f : IsShift(h, x, A, nx, Low(m), f)}
<1>1. 0 \in T
  <2>1. Low(0) = {}
    BY DEF Descends
  <2> DEFINE f == [i \in {} |-> {}]
  <2>2. f = [i \in {} |-> IF i \in A THEN Put(f[nx[i]], i, h[nx[i]]) ELSE Put(h, i, x)]
    OBVIOUS
  <2> HIDE DEF f
  <2>3. IsShift(h, x, A, nx, {}, f)
    BY <2>2 DEF IsShift
  <2> QED BY <2>1, <2>3
<1>2. ASSUME NEW m \in Nat, m \in T
      PROVE  m + 1 \in T
  <2>1. PICK f : f = [i \in Low(m) |-> IF i \in A THEN Put(f[nx[i]], i, h[nx[i]])
                                       ELSE Put(h, i, x)]
    BY <1>2 DEF IsShift
  <2> DEFINE g == [i \in Low(m + 1) |-> IF i \in A THEN Put(f[nx[i]], i, h[nx[i]])
                                       ELSE Put(h, i, x)]
  <2>2. ASSUME NEW i \in Low(m) PROVE i \in Low(m + 1) /\ g[i] = f[i]
    <3>1. i \in D /\ rk[i] \in Nat /\ rk[i] < m
      BY DEF Descends
    <3>2. i \in Low(m + 1)
      BY <3>1
    <3> HIDE DEF Low
    <3> QED BY <2>1, <3>2
  <2>3. ASSUME NEW i \in Low(m + 1), i \in A
        PROVE  nx[i] \in Low(m)
    BY <2>3 DEF Descends
  <2> HIDE DEF Low
  <2>4. ASSUME NEW i \in Low(m + 1)
        PROVE  g[i] = IF i \in A THEN Put(g[nx[i]], i, h[nx[i]]) ELSE Put(h, i, x)
    <3>1. CASE i \in A
      <4>1. g[nx[i]] = f[nx[i]]
        BY <2>2, <2>3, <3>1
      <4>2. g[i] = Put(f[nx[i]], i, h[nx[i]])
        BY <3>1
      <4> HIDE DEF g
      <4> QED BY <3>1, <4>1, <4>2
    <3>2. CASE i \notin A
      BY <3>2
    <3> QED BY <3>1, <3>2
  <2>5. g = [i \in Low(m + 1) |-> g[i]]
    OBVIOUS
  <2> HIDE DEF g
  <2>6. g = [i \in Low(m + 1) |-> IF i \in A THEN Put(g[nx[i]], i, h[nx[i]])
                                 ELSE Put(h, i, x)]
    BY <2>4, <2>5, Zenon
  <2> QED BY <2>6 DEF IsShift
<1>3. n \in T
  <2> HIDE DEF T
  <2> QED BY <1>1, <1>2, NatInductive
<1>4. Low(n) = D
  OBVIOUS
<1> QED BY <1>3, <1>4

\* g holds in the places E what h holds there, but x for h[i].
Swapped(g, h, i, x, E) ==
  /\ \A j, k \in E : g[j] = g[k] => j = k
  /\ {g[j] : j \in E} = ({h[j] : j \in E} \ {h[i]}) \cup {x}

\* Where the way ends x takes the place of h[i].
LEMMA PutSwapped ==
  ASSUME NEW D, NEW E, E \subseteq D, NEW h, DOMAIN h = D, NEW x, NEW i \in E,
         \A j, k \in E : h[j] = h[k] => j = k, \A j \in E : h[j] # x
  PROVE  Swapped(Put(h, i, x), h, i, x, E)
<1>1. PICK r : r = Put(h, i, x)
  OBVIOUS
<1>2. r[i] = x /\ \A j \in E : j # i => r[j] = h[j]
  BY <1>1, PutIs
<1>3. \A j, k \in E : r[j] = r[k] => j = k
  BY <1>2
<1>4. {r[j] : j \in E} = ({h[j] : j \in E} \ {h[i]}) \cup {x}
  <2>1. ASSUME NEW v \in {r[j] : j \in E}
        PROVE  v \in ({h[j] : j \in E} \ {h[i]}) \cup {x}
    <3>1. PICK j \in E : v = r[j]
      OBVIOUS
    <3> QED BY <1>2, <3>1
  <2>2. ASSUME NEW v \in ({h[j] : j \in E} \ {h[i]}) \cup {x}
        PROVE  v \in {r[j] : j \in E}
    <3>1. CASE v = x
      BY <1>2, <3>1
    <3>2. CASE v # x
      <4>1. PICK j \in E : v = h[j] /\ v # h[i]
        BY <3>2
      <4>2. r[j] = v
        BY <1>2, <4>1
      <4> QED BY <4>2
    <3> QED BY <3>1, <3>2
  <2> QED BY <2>1, <2>2
<1>5. Swapped(r, h, i, x, E)
  BY <1>3, <1>4, Zenon DEF Swapped
<1> QED BY <1>1, <1>5, Zenon

\* And one step before the end, h[p] goes from p to i.
LEMMA StepSwapped ==
  ASSUME NEW D, NEW E, E \subseteq D, NEW h, NEW g, DOMAIN g = D, NEW x, NEW i \in E, NEW p \in E,
         i # p, \A j, k \in E : h[j] = h[k] => j = k, \A j \in E : h[j] # x,
         Swapped(g, h, p, x, E), g[i] = h[i]
  PROVE  Swapped(Put(g, i, h[p]), h, i, x, E)
<1>1. PICK r : r = Put(g, i, h[p])
  OBVIOUS
<1>2. r[i] = h[p] /\ \A j \in E : j # i => r[j] = g[j]
  BY <1>1, PutIs
<1>3. /\ \A j, k \in E : g[j] = g[k] => j = k
      /\ {g[j] : j \in E} = ({h[j] : j \in E} \ {h[p]}) \cup {x}
  BY DEF Swapped
<1>4. ASSUME NEW j \in E PROVE g[j] # h[p]
  <2>1. g[j] \in ({h[k] : k \in E} \ {h[p]}) \cup {x}
    BY <1>3
  <2>2. h[p] # x
    OBVIOUS
  <2> QED BY <2>1, <2>2
<1>5. \A j, k \in E : r[j] = r[k] => j = k
  BY <1>2, <1>3, <1>4
<1>6. {r[j] : j \in E} = ({h[j] : j \in E} \ {h[i]}) \cup {x}
  <2>1. ASSUME NEW v \in {r[j] : j \in E}
        PROVE  v \in ({h[j] : j \in E} \ {h[i]}) \cup {x}
    <3>1. PICK j \in E : v = r[j]
      OBVIOUS
    <3>2. CASE j = i
      <4>1. v = h[p] /\ h[p] # h[i]
        BY <1>2, <3>1, <3>2
      <4> QED BY <4>1
    <3>3. CASE j # i
      <4>1. v = g[j] /\ g[j] # g[i]
        BY <1>2, <1>3, <3>1, <3>3
      <4>2. g[j] \in ({h[k] : k \in E} \ {h[p]}) \cup {x}
        BY <1>3
      <4> QED BY <4>1, <4>2
    <3> QED BY <3>2, <3>3
  <2>2. ASSUME NEW v \in ({h[j] : j \in E} \ {h[i]}) \cup {x}
        PROVE  v \in {r[j] : j \in E}
    <3>1. CASE v = h[p]
      BY <1>2, <3>1
    <3>2. CASE v # h[p]
      <4>1. v \in {g[j] : j \in E}
        BY <1>3, <3>2
      <4>2. PICK j \in E : v = g[j]
        BY <4>1
      <4>3. v # h[i]
        BY <2>2
      <4>4. r[j] = v
        BY <1>2, <4>2, <4>3
      <4> QED BY <4>4
    <3> QED BY <3>1, <3>2
  <2> QED BY <2>1, <2>2
<1>7. Swapped(r, h, i, x, E)
  BY <1>5, <1>6, Zenon DEF Swapped
<1> QED BY <1>1, <1>7, Zenon

\* The elements of h in the places E differ, and x is not among them.
Shifts(D, S, h, x, A, nx, rk, f, E) ==
  /\ h \in [D -> S] /\ x \in S
  /\ Descends(A, nx, D, rk) /\ IsShift(h, x, A, nx, D, f)
  /\ E \subseteq D /\ \A i \in A : nx[i] \in E
  /\ \A j, k \in E : h[j] = h[k] => j = k
  /\ \A j \in E : h[j] # x

\* What is put in the places of the way was there, but for x.
LEMMA ShiftFacts ==
  ASSUME NEW D, NEW S, NEW h, NEW x, NEW A, NEW nx, NEW rk, NEW f, NEW E,
         Shifts(D, S, h, x, A, nx, rk, f, E)
  PROVE  \A i \in D : /\ f[i] \in [D -> S] /\ \A j \in D : rk[j] > rk[i] => f[i][j] = h[j]
                      /\ i \in E => Swapped(f[i], h, i, x, E)
<1> DEFINE OK(i) == /\ f[i] \in [D -> S] /\ \A j \in D : rk[j] > rk[i] => f[i][j] = h[j]
                    /\ i \in E => Swapped(f[i], h, i, x, E)
           T == {m \in Nat : \A i \in D : rk[i] < m => OK(i)}
<1>h. /\ h \in [D -> S] /\ x \in S
      /\ Descends(A, nx, D, rk) /\ IsShift(h, x, A, nx, D, f)
      /\ E \subseteq D /\ \A i \in A : nx[i] \in E
      /\ \A j, k \in E : h[j] = h[k] => j = k
      /\ \A j \in E : h[j] # x
  BY DEF Shifts
<1> USE <1>h
<1>1. 0 \in T
  BY DEF Descends
<1>2. ASSUME NEW m \in Nat, m \in T
      PROVE  m + 1 \in T
  <2> SUFFICES ASSUME NEW i \in D, rk[i] < m + 1 PROVE OK(i)
    OBVIOUS
  <2>1. f[i] = IF i \in A THEN Put(f[nx[i]], i, h[nx[i]]) ELSE Put(h, i, x)
    BY DEF IsShift
  <2>2. PICK r : r = f[i]
    OBVIOUS
  <2>3. CASE i \notin A
    <3>1. r = Put(h, i, x)
      BY <2>1, <2>2, <2>3
    <3>2. DOMAIN r = D /\ r[i] = x /\ \A j \in D : j # i => r[j] = h[j]
      BY <3>1, PutIs
    <3>3. r \in [D -> S]
      <4>1. \A j \in D : r[j] \in S
        BY <3>2
      <4>2. r = [j \in D |-> r[j]]
        BY <3>1, <3>2 DEF Put
      <4> QED BY <4>1, <4>2
    <3>4. \A j \in D : rk[j] > rk[i] => r[j] = h[j]
      BY <3>2 DEF Descends
    <3>5. i \in E => Swapped(r, h, i, x, E)
      BY <3>1, PutSwapped
    <3> QED BY <2>2, <3>3, <3>4, <3>5
  <2>4. CASE i \in A
    <3>1. PICK p, g : p = nx[i] /\ g = f[p]
      OBVIOUS
    <3>2. p \in D /\ p \in E /\ rk[p] < rk[i] /\ rk[p] \in Nat /\ rk[i] \in Nat /\ p # i
      BY <2>4, <3>1 DEF Descends
    <3>3. rk[p] < m
      BY <3>2
    <3>4. /\ g \in [D -> S] /\ \A j \in D : rk[j] > rk[p] => g[j] = h[j]
          /\ Swapped(g, h, p, x, E)
      BY <1>2, <3>1, <3>2, <3>3
    <3>5. r = Put(g, i, h[p])
      BY <2>1, <2>2, <2>4, <3>1
    <3>6. DOMAIN r = D /\ r[i] = h[p] /\ \A j \in D : j # i => r[j] = g[j]
      BY <3>4, <3>5, PutIs
    <3>7. r \in [D -> S]
      <4>1. \A j \in D : r[j] \in S
        BY <3>2, <3>4, <3>6
      <4>2. r = [j \in D |-> r[j]]
        BY <3>4, <3>5, <3>6 DEF Put
      <4> QED BY <4>1, <4>2
    <3>8. \A j \in D : rk[j] > rk[i] => r[j] = h[j]
      <4> SUFFICES ASSUME NEW j \in D, rk[j] > rk[i] PROVE r[j] = h[j]
        OBVIOUS
      <4>1. rk[j] \in Nat /\ rk[j] > rk[p] /\ j # i
        BY <3>2 DEF Descends
      <4> QED BY <3>4, <3>6, <4>1
    <3>9. i \in E => Swapped(r, h, i, x, E)
      <4>1. g[i] = h[i] /\ DOMAIN g = D
        BY <3>2, <3>4
      <4> QED BY <3>2, <3>4, <3>5, <4>1, StepSwapped
    <3> QED BY <2>2, <3>7, <3>8, <3>9
  <2> QED BY <2>3, <2>4
<1> HIDE DEF T, OK
<1>3. \A m \in Nat : m \in T
  BY <1>1, <1>2, NatInductive
<1>4. ASSUME NEW i \in D PROVE OK(i)
  <2>1. rk[i] \in Nat
    BY DEF Descends
  <2>2. rk[i] + 1 \in T /\ rk[i] < rk[i] + 1
    BY <1>3, <2>1
  <2> QED BY <2>2 DEF T
<1> QED BY <1>4 DEF OK

-----------------------------------------------------------------------------
(* The heap.                                                               *)

Timed(tm) == \A t \in Timers : tm[t].expire \in Nat

\* t expires no later than u.
Before(tm, t, u) == tm[t].expire <= tm[u].expire

\* Timers are compared by numbers.
LEMMA Total ==
  ASSUME NEW tm, Timed(tm)
  PROVE  /\ \A t, u \in Timers : ~ (tm[t].expire < tm[u].expire) => Before(tm, u, t)
         /\ \A t, u \in Timers : tm[t].expire < tm[u].expire => Before(tm, t, u)
         /\ \A t, u, v \in Timers : Before(tm, t, u) /\ Before(tm, u, v) => Before(tm, t, v)
         /\ \A t \in Timers : Before(tm, t, t)
BY DEF Timed, Before

\* The parent of a place.
LEMMA Halves ==
  \A i \in Nat : i > 1 => i \div 2 \in Nat /\ i \div 2 >= 1 /\ i \div 2 < i
OBVIOUS

\* timer_swim with its loop as a recursion.
Rises(h, tm, x, i) == i > 1 /\ tm[x].expire < tm[h[i \div 2]].expire

Rising(h, tm, x, n) == {i \in 1 .. n : Rises(h, tm, x, i)}
Parent(n) == [i \in 1 .. n |-> i \div 2]

\* timer_swim is a shift from n towards the root.
LEMMA SwimIs ==
  ASSUME NEW n \in Nat, n >= 1, NEW h, NEW tm, NEW x
  PROVE  \E f : /\ Swim(h, tm, x, n) = f[n]
                /\ IsShift(h, x, Rising(h, tm, x, n), Parent(n), 1 .. n, f)
<1> DEFINE D == 1 .. n
           A == {i \in D : Rises(h, tm, x, i)}
           nx == [i \in D |-> i \div 2]
           Body(f, i) == IF i > 1 /\ tm[x].expire < tm[h[i \div 2]].expire
                         THEN Put(f[i \div 2], i, h[i \div 2]) ELSE Put(h, i, x)
           rk == [i \in D |-> i]
<1>1. Descends(A, nx, D, rk)
  <2>1. ASSUME NEW i \in A
        PROVE  i \in D /\ nx[i] \in D /\ rk[nx[i]] < rk[i]
    <3>1. i \in D /\ i > 1
      BY DEF Rises
    <3>2. i \in Nat /\ i \div 2 \in D /\ i \div 2 < i
      BY <3>1, Halves
    <3> QED BY <3>1, <3>2
  <2> QED BY <2>1 DEF Descends
<1>2. \A f : \A i \in D : (IF i \in A THEN Put(f[nx[i]], i, h[nx[i]]) ELSE Put(h, i, x)) = Body(f, i)
  BY DEF Rises
<1>3. PICK f0 : IsShift(h, x, A, nx, D, f0)
  <2>1. n + 1 \in Nat /\ \A i \in D : rk[i] < n + 1
    OBVIOUS
  <2> HIDE DEF D, A, nx, rk
  <2> QED BY <1>1, <2>1, ShiftExists
<1>4. f0 = [i \in D |-> Body(f0, i)]
  <2> HIDE DEF D, A, nx, Body
  <2> QED BY <1>2, <1>3, Zenon DEF IsShift
<1> DEFINE u == CHOOSE f : f = [i \in D |-> Body(f, i)]
<1>5. u = [i \in D |-> Body(u, i)]
  <2> HIDE DEF D, Body
  <2> QED BY <1>4, Zenon
<1>6. IsShift(h, x, A, nx, D, u)
  <2> HIDE DEF D, A, nx, Body, u
  <2> QED BY <1>2, <1>5, Zenon DEF IsShift
<1>7. Swim(h, tm, x, n) = u[n]
  BY DEF Swim
<1> QED BY <1>6, <1>7 DEF Rising, Parent

\* A heap h whose last place n is given to x.
Added(h, tm, x, n) ==
  /\ n \in Nat /\ n >= 1 /\ h \in [1 .. n -> Timers] /\ Timed(tm) /\ x \in Timers /\ h[n] = x
  /\ \A j, k \in 1 .. n : h[j] = h[k] => j = k
  /\ \A j \in 2 .. n - 1 : Before(tm, h[j \div 2], h[j])

\* g holds the same timers and is ordered.
Arranged(g, h, tm, x, n) ==
  /\ g \in [1 .. n -> Timers] /\ g[1] \in {x, h[1]}
  /\ \A j, k \in 1 .. n : g[j] = g[k] => j = k
  /\ {g[j] : j \in 1 .. n} = {h[j] : j \in 1 .. n}
  /\ \A j \in 2 .. n : Before(tm, g[j \div 2], g[j])

\* When x has risen from the last place the heap is ordered again.
LEMMA SwimOK ==
  ASSUME NEW n, NEW h, NEW tm, NEW x, Added(h, tm, x, n)
  PROVE  Arranged(Swim(h, tm, x, n), h, tm, x, n)
<1>h. /\ n \in Nat /\ n >= 1 /\ h \in [1 .. n -> Timers] /\ Timed(tm) /\ x \in Timers /\ h[n] = x
      /\ \A j, k \in 1 .. n : h[j] = h[k] => j = k
      /\ \A j \in 2 .. n - 1 : Before(tm, h[j \div 2], h[j])
  BY DEF Added
<1> USE <1>h
<1> DEFINE D == 1 .. n
           E == 1 .. n - 1
           A == {i \in D : Rises(h, tm, x, i)}
           nx == [i \in D |-> i \div 2]
           rk == [i \in D |-> i]
<1>1. PICK f : Swim(h, tm, x, n) = f[n] /\ IsShift(h, x, A, nx, D, f)
  <2>1. \E f : Swim(h, tm, x, n) = f[n] /\ IsShift(h, x, Rising(h, tm, x, n), Parent(n), 1 .. n, f)
    BY SwimIs, Zenon
  <2> QED BY <2>1, Zenon DEF Rising, Parent
<1>2. ASSUME NEW i \in D, i > 1
      PROVE  i \div 2 \in D /\ i \div 2 \in E /\ i \div 2 < i
  BY <1>2, Halves
<1>3. ASSUME NEW i \in A
      PROVE  i \in D /\ i > 1 /\ nx[i] = i \div 2 /\ tm[x].expire < tm[h[i \div 2]].expire
  BY DEF Rises
<1>4. ASSUME NEW i \in D, i \notin A
      PROVE  i = 1 \/ Before(tm, h[i \div 2], x)
  <2> SUFFICES ASSUME i # 1 PROVE Before(tm, h[i \div 2], x)
    OBVIOUS
  <2>1. i > 1 /\ ~ (tm[x].expire < tm[h[i \div 2]].expire)
    BY <1>4 DEF Rises
  <2>2. h[i \div 2] \in Timers
    BY <1>2, <2>1
  <2> QED BY <2>1, <2>2, Total
<1>5. Descends(A, nx, D, rk)
  <2>1. ASSUME NEW i \in A
        PROVE  i \in D /\ nx[i] \in D /\ rk[nx[i]] < rk[i]
    BY <1>2, <1>3
  <2> QED BY <2>1 DEF Descends
<1>6. E \subseteq D /\ (\A i \in A : nx[i] \in E) /\ (\A j \in E : h[j] # x)
  <2>1. \A i \in A : nx[i] \in E
    BY <1>2, <1>3
  <2>2. \A j \in E : j \in D /\ n \in D /\ j # n
    OBVIOUS
  <2> QED BY <2>1, <2>2
<1>7. \A j, k \in E : h[j] = h[k] => j = k
  BY <1>6
<1>8. ASSUME NEW i \in D
      PROVE  /\ f[i] \in [D -> Timers] /\ \A j \in D : j > i => f[i][j] = h[j]
             /\ i \in E => Swapped(f[i], h, i, x, E)
  <2>1. /\ f[i] \in [D -> Timers] /\ \A j \in D : rk[j] > rk[i] => f[i][j] = h[j]
        /\ i \in E => Swapped(f[i], h, i, x, E)
    <3>1. h \in [D -> Timers]
      OBVIOUS
    <3> HIDE DEF D, E, A, nx, rk
    <3>2. IsShift(h, x, A, nx, D, f)
      BY <1>1
    <3>3. \A k \in D : /\ f[k] \in [D -> Timers] /\ \A j \in D : rk[j] > rk[k] => f[k][j] = h[j]
                       /\ k \in E => Swapped(f[k], h, k, x, E)
      <4>1. Shifts(D, Timers, h, x, A, nx, rk, f, E)
        BY <1>5, <1>6, <1>7, <3>1, <3>2 DEF Shifts
      <4> QED BY <4>1, ShiftFacts
    <3> QED BY <3>3
  <2> QED BY <2>1
<1>9. ASSUME NEW i \in D
      PROVE  f[i] = IF i \in A THEN Put(f[i \div 2], i, h[i \div 2]) ELSE Put(h, i, x)
  <2>1. f[i] = IF i \in A THEN Put(f[nx[i]], i, h[nx[i]]) ELSE Put(h, i, x)
    <3> HIDE DEF D, A, nx
    <3> QED BY <1>1 DEF IsShift
  <2> QED BY <2>1
<1> DEFINE Q(i) == tm[x].expire < tm[h[i]].expire =>
                     /\ \A j \in 2 .. n - 1 : Before(tm, f[i][j \div 2], f[i][j])
                     /\ Before(tm, f[i][i], h[i])
           T == {m \in Nat : \A i \in E : i < m => Q(i) /\ f[i][1] \in {x, h[1]}}
<1>10. 0 \in T
  OBVIOUS
<1>11. ASSUME NEW m \in Nat, m \in T
       PROVE  m + 1 \in T
  <2> SUFFICES ASSUME NEW i \in E, i < m + 1 PROVE Q(i) /\ f[i][1] \in {x, h[1]}
    OBVIOUS
  <2> USE <1>6
  <2>1. PICK r : r = f[i]
    OBVIOUS
  <2>2. h[i] \in Timers /\ (i > 1 => Before(tm, h[i \div 2], h[i])) /\ i \in D /\ i \in Nat
    OBVIOUS
  <2>3. \A j \in 2 .. n - 1 : /\ j \in D /\ j \div 2 \in D /\ j \div 2 < j /\ j # 1
                              /\ h[j] \in Timers /\ h[j \div 2] \in Timers
    BY <1>2
  <2>4. CASE i \notin A
    <3>1. r = Put(h, i, x)
      BY <1>9, <2>1, <2>2, <2>4
    <3>2. r[i] = x /\ \A j \in D : j # i => r[j] = h[j]
      BY <2>2, <3>1 DEF Put
    <3>3. r[1] \in {x, h[1]}
      BY <3>2
    <3>4. ASSUME tm[x].expire < tm[h[i]].expire, NEW j \in 2 .. n - 1
          PROVE  Before(tm, r[j \div 2], r[j])
      <4>1. CASE j = i
        <5>1. Before(tm, h[i \div 2], x)
          BY <1>4, <2>2, <2>3, <2>4, <4>1
        <5> QED BY <2>3, <3>2, <4>1, <5>1
      <4>2. CASE j \div 2 = i
        <5>1. Before(tm, x, h[i]) /\ Before(tm, h[i], h[j])
          BY <2>2, <3>4, <4>2, Total
        <5>2. Before(tm, x, h[j])
          BY <2>2, <2>3, <5>1, Total
        <5> QED BY <2>3, <3>2, <4>2, <5>2
      <4>3. CASE j # i /\ j \div 2 # i
        <5>1. r[j] = h[j] /\ r[j \div 2] = h[j \div 2]
          BY <2>3, <3>2, <4>3
        <5> QED BY <5>1
      <4> QED BY <4>1, <4>2, <4>3
    <3>5. tm[x].expire < tm[h[i]].expire => Before(tm, r[i], h[i])
      BY <2>2, <3>2, Total
    <3> QED BY <2>1, <3>3, <3>4, <3>5
  <2>5. CASE i \in A
    <3>1. PICK p, q : p = i \div 2 /\ q = f[p]
      OBVIOUS
    <3>2. i > 1 /\ p \in E /\ p \in D /\ p < i /\ tm[x].expire < tm[h[p]].expire /\ p < m /\ p # i /\ h[p] \in Timers
      BY <1>2, <1>3, <2>5, <3>1
    <3>3. /\ \A j \in 2 .. n - 1 : Before(tm, q[j \div 2], q[j])
          /\ Before(tm, q[p], h[p]) /\ q[1] \in {x, h[1]}
      BY <1>11, <3>1, <3>2
    <3>4. q \in [D -> Timers] /\ \A j \in D : j > p => q[j] = h[j]
      BY <1>8, <3>1, <3>2
    <3>5. r = Put(q, i, h[p])
      BY <1>9, <2>1, <2>2, <2>5, <3>1
    <3>6. r[i] = h[p] /\ \A j \in D : j # i => r[j] = q[j]
      BY <2>2, <3>4, <3>5 DEF Put
    <3>7. r[1] \in {x, h[1]}
      BY <2>2, <3>2, <3>3, <3>6
    <3>8. ASSUME NEW j \in 2 .. n - 1
          PROVE  Before(tm, r[j \div 2], r[j])
      <4>1. CASE j = i
        BY <2>3, <3>1, <3>2, <3>3, <3>6, <4>1
      <4>2. CASE j \div 2 = i
        <5>1. Before(tm, h[p], h[i]) /\ Before(tm, h[i], h[j])
          BY <2>2, <3>1, <3>2, <4>2
        <5>2. Before(tm, h[p], h[j])
          BY <2>2, <2>3, <3>2, <5>1, Total
        <5>3. j # i /\ j > p
          BY <2>3, <3>2, <4>2
        <5>4. r[j] = h[j]
          BY <2>3, <3>4, <3>6, <5>3
        <5> QED BY <2>3, <3>6, <4>2, <5>2, <5>4
      <4>3. CASE j # i /\ j \div 2 # i
        <5>1. r[j] = q[j] /\ r[j \div 2] = q[j \div 2]
          BY <2>3, <3>6, <4>3
        <5> QED BY <3>3, <5>1
      <4> QED BY <4>1, <4>2, <4>3
    <3>9. Before(tm, r[i], h[i])
      BY <2>2, <3>1, <3>2, <3>6
    <3> QED BY <2>1, <3>7, <3>8, <3>9
  <2> QED BY <2>4, <2>5
<1>12. \A i \in E : Q(i) /\ f[i][1] \in {x, h[1]}
  <2> HIDE DEF T, Q
  <2>1. \A m \in Nat : m \in T
    BY <1>10, <1>11, NatInductive
  <2>2. n \in T
    BY <2>1
  <2> QED BY <2>2 DEF T
<1>13. ASSUME NEW r, r = f[n]
       PROVE  /\ r \in [D -> Timers] /\ r[1] \in {x, h[1]}
              /\ \A j, k \in D : r[j] = r[k] => j = k
              /\ {r[j] : j \in D} = {h[j] : j \in D}
              /\ \A j \in 2 .. n : Before(tm, r[j \div 2], r[j])
  <2>1. n \in D /\ (\A j \in D : j \in E \/ j = n) /\ n \notin E
    OBVIOUS
  <2>2. r \in [D -> Timers]
    BY <1>8, <1>13, <2>1
  <2>3. \A j \in 2 .. n : /\ j \in D /\ j \div 2 \in D /\ j \div 2 # n /\ j # 1 /\ (j # n => j \in 2 .. n - 1)
    BY <1>2
  <2>4. CASE n \notin A
    <3>1. r = Put(h, n, x)
      BY <1>9, <1>13, <2>1, <2>4
    <3>2. r[n] = x /\ \A j \in D : j # n => r[j] = h[j]
      BY <2>1, <3>1 DEF Put
    <3>3. \A j \in D : r[j] = h[j]
      BY <2>1, <3>2
    <3>4. ASSUME NEW j \in 2 .. n PROVE Before(tm, r[j \div 2], r[j])
      <4>1. CASE j = n
        <5>1. Before(tm, h[n \div 2], x)
          BY <1>4, <2>1, <2>3, <2>4, <4>1
        <5> QED BY <2>3, <3>2, <4>1, <5>1
      <4>2. CASE j # n
        BY <2>3, <3>3, <4>2
      <4> QED BY <4>1, <4>2
    <3> QED BY <2>2, <3>2, <3>3, <3>4
  <2>5. CASE n \in A
    <3>1. PICK p, q : p = n \div 2 /\ q = f[p]
      OBVIOUS
    <3>2. n > 1 /\ p \in E /\ p \in D /\ tm[x].expire < tm[h[p]].expire /\ h[p] # x
      BY <1>2, <1>3, <1>6, <2>1, <2>5, <3>1
    <3>3. /\ \A j \in 2 .. n - 1 : Before(tm, q[j \div 2], q[j])
          /\ Before(tm, q[p], h[p]) /\ q[1] \in {x, h[1]}
      BY <1>12, <3>1, <3>2
    <3>4. q \in [D -> Timers] /\ Swapped(q, h, p, x, E)
      BY <1>8, <3>1, <3>2
    <3>5. r = Put(q, n, h[p])
      BY <1>9, <1>13, <2>1, <2>5, <3>1
    <3>6. r[n] = h[p] /\ \A j \in D : j # n => r[j] = q[j]
      BY <2>1, <3>4, <3>5 DEF Put
    <3>7. r[1] \in {x, h[1]}
      BY <3>2, <3>3, <3>6
    <3>8. /\ \A j, k \in E : q[j] = q[k] => j = k
          /\ {q[j] : j \in E} = ({h[j] : j \in E} \ {h[p]}) \cup {x}
      BY <3>4 DEF Swapped
    <3> HIDE DEF D, E, A
    <3>9. \A j \in E : q[j] # h[p]
      BY <3>2, <3>8
    <3>10. \A j, k \in D : r[j] = r[k] => j = k
      BY <1>6, <2>1, <3>6, <3>8, <3>9
    <3>11. {r[j] : j \in D} = {h[j] : j \in D}
      <4>1. ASSUME NEW j \in D PROVE r[j] \in {h[k] : k \in D}
        <5>1. CASE j = n
          BY <3>2, <3>6, <5>1
        <5>2. CASE j # n
          <6>1. r[j] = q[j] /\ q[j] \in ({h[k] : k \in E} \ {h[p]}) \cup {x}
            BY <2>1, <3>6, <3>8, <5>2
          <6>2. x \in {h[k] : k \in D}
            BY <2>1
          <6> QED BY <1>6, <6>1, <6>2
        <5> QED BY <5>1, <5>2
      <4>2. ASSUME NEW j \in D PROVE h[j] \in {r[k] : k \in D}
        <5>1. CASE h[j] = h[p]
          BY <2>1, <3>6, <5>1
        <5>2. CASE h[j] # h[p]
          <6>1. h[j] \in {q[k] : k \in E}
            <7>1. j \in E => h[j] \in {h[k] : k \in E}
              OBVIOUS
            <7>2. j \in E \/ h[j] = x
              BY <2>1
            <7> QED BY <3>8, <5>2, <7>1, <7>2
          <6>2. PICK k \in E : h[j] = q[k]
            BY <6>1
          <6>3. k \in D /\ r[k] = q[k]
            BY <1>6, <2>1, <3>6
          <6> QED BY <6>2, <6>3
        <5> QED BY <5>1, <5>2
      <4> QED BY <4>1, <4>2
    <3>12. ASSUME NEW j \in 2 .. n PROVE Before(tm, r[j \div 2], r[j])
      <4>1. CASE j = n
        BY <2>3, <3>1, <3>3, <3>6, <4>1
      <4>2. CASE j # n
        BY <2>3, <3>3, <3>6, <4>2
      <4> QED BY <4>1, <4>2
    <3> QED BY <2>2, <3>7, <3>10, <3>11, <3>12
  <2> QED BY <2>4, <2>5
<1>14. Arranged(f[n], h, tm, x, n)
  <2> HIDE DEF A, nx, rk, E, T, Q
  <2>1. PICK r : r = f[n]
    OBVIOUS
  <2> QED BY <1>13, <2>1 DEF Arranged
<1> QED BY <1>1, <1>14, Zenon

\* The children of a place.
LEMMA Doubles ==
  /\ \A i \in Nat : (2 * i) \div 2 = i /\ (2 * i + 1) \div 2 = i /\ (i >= 1 => 2 * i > i /\ 2 * i + 1 > i)
  /\ \A i, j \in Nat : j \div 2 = i => j = 2 * i \/ j = 2 * i + 1
OBVIOUS

\* A heap of M timers, as an array.
Heaped(h, tm, M) == M \in Nat /\ h \in [1 .. M -> Timers] /\ Len(h) = M /\ Timed(tm)

\* c is the smaller of the children of i.
IsSmaller(c, h, tm, i, M) ==
  /\ c \in 1 .. M /\ c >= 2 * i /\ c > i /\ c \div 2 = i
  /\ \A j \in 1 .. M : j \div 2 = i => Before(tm, h[c], h[j])

\* The place that timer_sink looks at next.
LEMMA ChildFacts ==
  ASSUME NEW M, NEW h, NEW tm, Heaped(h, tm, M), NEW i \in 1 .. M, 2 * i <= M
  PROVE  IsSmaller(SmallerChild(h, tm, i), h, tm, i, M)
<1>h. M \in Nat /\ h \in [1 .. M -> Timers] /\ Len(h) = M /\ Timed(tm)
  BY DEF Heaped
<1> USE <1>h
<1>1. PICK c : c = SmallerChild(h, tm, i)
  OBVIOUS
<1>2. CASE 2 * i + 1 <= M /\ tm[h[2 * i + 1]].expire < tm[h[2 * i]].expire
  <2>1. c = 2 * i + 1
    BY <1>1, <1>2 DEF SmallerChild
  <2>2. c \in 1 .. M /\ c > i /\ c >= 2 * i /\ c \div 2 = i /\ 2 * i \in 1 .. M
    <3>1. 2 * i + 1 <= M /\ i \in Nat /\ i >= 1
      BY <1>2
    <3>2. (2 * i + 1) \div 2 = i
      BY <3>1, Doubles
    <3>3. 2 * i + 1 \in 1 .. M /\ 2 * i + 1 > i /\ 2 * i + 1 >= 2 * i /\ 2 * i \in 1 .. M
      BY <3>1
    <3> QED BY <2>1, <3>2, <3>3
  <2>3. Before(tm, h[c], h[2 * i]) /\ Before(tm, h[c], h[c])
    BY <1>2, <2>1, <2>2, Total
  <2>4. \A j \in 1 .. M : j \div 2 = i => j = 2 * i \/ j = c
    BY <2>1, Doubles
  <2> QED BY <1>1, <2>2, <2>3, <2>4 DEF IsSmaller
<1>3. CASE ~ (2 * i + 1 <= M /\ tm[h[2 * i + 1]].expire < tm[h[2 * i]].expire)
  <2>1. c = 2 * i
    BY <1>1, <1>3 DEF SmallerChild
  <2>2. c \in 1 .. M /\ c > i /\ c >= 2 * i /\ c \div 2 = i
    BY <2>1, Doubles
  <2>3. ASSUME NEW j \in 1 .. M, j \div 2 = i
        PROVE  Before(tm, h[c], h[j])
    <3>1. j = 2 * i \/ j = 2 * i + 1
      BY <2>3, Doubles
    <3>2. CASE j = 2 * i
      BY <2>1, <2>2, <3>2, Total
    <3>3. CASE j = 2 * i + 1
      <4>1. ~ (tm[h[j]].expire < tm[h[c]].expire)
        BY <1>3, <2>1, <3>3
      <4> QED BY <2>2, <4>1, Total
    <3> QED BY <3>1, <3>2, <3>3
  <2> QED BY <1>1, <2>2, <2>3 DEF IsSmaller
<1> QED BY <1>2, <1>3

\* timer_sink with its loop as a recursion.
Falls(h, tm, x, i, M) == 2 * i <= M /\ tm[h[SmallerChild(h, tm, i)]].expire < tm[x].expire
Falling(h, tm, x, M) == {i \in 1 .. M : Falls(h, tm, x, i, M)}
Child(h, tm, M) == [i \in 1 .. M |-> SmallerChild(h, tm, i)]
Depth(M) == [i \in 1 .. M |-> M - i]

\* The way down ends.
LEMMA FallDescends ==
  ASSUME NEW M \in Nat, NEW h \in [1 .. M -> Timers], Len(h) = M, NEW tm, Timed(tm), NEW x
  PROVE  Descends(Falling(h, tm, x, M), Child(h, tm, M), 1 .. M, Depth(M))
<1> DEFINE D == 1 .. M
           rk == Depth(M)
           nx == Child(h, tm, M)
<1>1. \A i \in D : rk[i] = M - i /\ rk[i] \in Nat
  BY DEF Depth
<1>2. ASSUME NEW i \in Falling(h, tm, x, M)
      PROVE  i \in D /\ nx[i] \in D /\ rk[nx[i]] < rk[i]
  <2>1. i \in D /\ 2 * i <= M
    BY DEF Falling, Falls
  <2>2. PICK c \in D : c = SmallerChild(h, tm, i) /\ c > i
    <3>1. Heaped(h, tm, M)
      BY DEF Heaped
    <3>2. IsSmaller(SmallerChild(h, tm, i), h, tm, i, M)
      BY <2>1, <3>1, ChildFacts
    <3> QED BY <3>2 DEF IsSmaller
  <2>3. nx[i] = c
    BY <2>1, <2>2 DEF Child
  <2>4. M - c < M - i
    BY <2>1, <2>2
  <2> QED BY <1>1, <2>1, <2>2, <2>3, <2>4
<1> QED BY <1>1, <1>2 DEF Descends

\* timer_sink is a shift from the root towards the leaves.
LEMMA SinkIs ==
  ASSUME NEW M \in Nat, M >= 1, NEW h \in [1 .. M -> Timers], Len(h) = M, NEW tm, Timed(tm), NEW x
  PROVE  \E f : /\ Sink(h, tm, x) = f[1]
                /\ IsShift(h, x, Falling(h, tm, x, M), Child(h, tm, M), 1 .. M, f)
<1> DEFINE D == 1 .. M
           A == Falling(h, tm, x, M)
           nx == Child(h, tm, M)
           rk == Depth(M)
           Body(f, i) == IF 2 * i <= Len(h) /\ tm[h[SmallerChild(h, tm, i)]].expire < tm[x].expire
                         THEN Put(f[SmallerChild(h, tm, i)], i, h[SmallerChild(h, tm, i)])
                         ELSE Put(h, i, x)
<1>1. Descends(A, nx, D, rk)
  BY FallDescends
<1>2. \A f : \A i \in D : (IF i \in A THEN Put(f[nx[i]], i, h[nx[i]]) ELSE Put(h, i, x)) = Body(f, i)
  BY DEF Falling, Falls, Child
<1>3. PICK f0 : IsShift(h, x, A, nx, D, f0)
  <2>1. \A i \in D : rk[i] < M
    BY DEF Depth
  <2> HIDE DEF D, A, nx, rk
  <2> QED BY <1>1, <2>1, ShiftExists
<1>4. f0 = [i \in D |-> Body(f0, i)]
  <2> HIDE DEF D, A, nx, Body
  <2> QED BY <1>2, <1>3, Zenon DEF IsShift
<1> DEFINE u == CHOOSE f : f = [i \in D |-> Body(f, i)]
<1>5. u = [i \in D |-> Body(u, i)]
  <2> HIDE DEF D, Body
  <2> QED BY <1>4, Zenon
<1>6. IsShift(h, x, A, nx, D, u)
  <2> HIDE DEF D, A, nx, Body, u
  <2> QED BY <1>2, <1>5, Zenon DEF IsShift
<1>7. Sink(h, tm, x) = u[1]
  BY DEF Sink
<1> QED BY <1>6, <1>7

\* x has fallen from the top: the heap is ordered, and what was at the top is gone.
LEMMA SinkOK ==
  ASSUME NEW M \in Nat, M >= 1, NEW h \in [1 .. M -> Timers], Len(h) = M, NEW tm, Timed(tm),
         NEW x \in Timers, \A j, k \in 1 .. M : h[j] = h[k] => j = k, \A j \in 1 .. M : h[j] # x,
         \A j \in 2 .. M : Before(tm, h[j \div 2], h[j])
  PROVE  LET g == Sink(h, tm, x) IN
         /\ g \in [1 .. M -> Timers] /\ Swapped(g, h, 1, x, 1 .. M)
         /\ \A j \in 2 .. M : Before(tm, g[j \div 2], g[j])
<1> DEFINE D == 1 .. M
           A == Falling(h, tm, x, M)
           nx == Child(h, tm, M)
           rk == Depth(M)
<1>1. PICK f : Sink(h, tm, x) = f[1] /\ IsShift(h, x, A, nx, D, f)
  BY SinkIs
<1>2. \A j \in 2 .. M : j \in D /\ j \div 2 \in D /\ j \div 2 < j
  BY Halves
<1>3. ASSUME NEW i \in D, i \in A
      PROVE  \E c \in D : /\ f[i] = Put(f[c], i, h[c]) /\ c > i /\ c >= 2 * i /\ c \div 2 = i
                          /\ tm[h[c]].expire < tm[x].expire
                          /\ \A j \in D : j \div 2 = i => Before(tm, h[c], h[j])
  <2>1. 2 * i <= M /\ tm[h[SmallerChild(h, tm, i)]].expire < tm[x].expire
    BY <1>3 DEF Falling, Falls
  <2>2. PICK c \in D : /\ c = SmallerChild(h, tm, i) /\ c > i /\ c >= 2 * i /\ c \div 2 = i
                       /\ \A j \in D : j \div 2 = i => Before(tm, h[c], h[j])
    <3>1. Heaped(h, tm, M)
      BY DEF Heaped
    <3>2. IsSmaller(SmallerChild(h, tm, i), h, tm, i, M)
      BY <2>1, <3>1, ChildFacts
    <3> QED BY <3>2 DEF IsSmaller
  <2>3. nx[i] = c
    BY <2>2 DEF Child
  <2>4. f[i] = Put(f[nx[i]], i, h[nx[i]])
    <3> HIDE DEF D, A, nx
    <3> QED BY <1>1, <1>3 DEF IsShift
  <2> QED BY <2>1, <2>2, <2>3, <2>4
<1>4. ASSUME NEW i \in D, i \notin A
      PROVE  f[i] = Put(h, i, x) /\ \A j \in D : j \div 2 = i => Before(tm, x, h[j])
  <2>1. f[i] = Put(h, i, x)
    <3> HIDE DEF D, A, nx
    <3> QED BY <1>1, <1>4 DEF IsShift
  <2>2. ASSUME NEW j \in D, j \div 2 = i PROVE Before(tm, x, h[j])
    <3>1. 2 * i <= M
      BY <2>2, Doubles
    <3>a. PICK c \in D : /\ c = SmallerChild(h, tm, i) /\ c > i /\ c >= 2 * i /\ c \div 2 = i
                         /\ \A k \in D : k \div 2 = i => Before(tm, h[c], h[k])
      <4>1. Heaped(h, tm, M)
        BY DEF Heaped
      <4>2. IsSmaller(SmallerChild(h, tm, i), h, tm, i, M)
        BY <3>1, <4>1, ChildFacts
      <4> QED BY <4>2 DEF IsSmaller
    <3>2. c = SmallerChild(h, tm, i) /\ Before(tm, h[c], h[j])
      BY <2>2, <3>a
    <3>3. ~ (tm[h[c]].expire < tm[x].expire)
      BY <1>4, <3>1, <3>2 DEF Falling, Falls
    <3>4. h[c] \in Timers /\ h[j] \in Timers
      OBVIOUS
    <3>5. Before(tm, x, h[c])
      BY <3>3, <3>4, Total
    <3> QED BY <3>2, <3>4, <3>5, Total
  <2> QED BY <2>1, <2>2
<1>5. ASSUME NEW i \in D
      PROVE  f[i] \in [D -> Timers] /\ Swapped(f[i], h, i, x, D)
  <2>1. Descends(A, nx, D, rk)
    BY FallDescends
  <2>2. \A k \in A : nx[k] \in D
    BY <2>1 DEF Descends
  <2>3. Shifts(D, Timers, h, x, A, nx, rk, f, D)
    BY <1>1, <2>1, <2>2 DEF Shifts
  <2> HIDE DEF D, A, nx, rk
  <2> QED BY <2>3, ShiftFacts
<1> DEFINE Q(i) == /\ \A j \in 2 .. M : j # i => Before(tm, f[i][j \div 2], f[i][j])
                   /\ \A j \in D : j < 2 * i /\ j # i => f[i][j] = h[j]
                   /\ Before(tm, h[i], x) => Before(tm, h[i], f[i][i])
           T == {m \in Nat : \A i \in D : M - i < m => Q(i)}
<1>6. 0 \in T
  OBVIOUS
<1>7. ASSUME NEW m \in Nat, m \in T
      PROVE  m + 1 \in T
  <2> SUFFICES ASSUME NEW i \in D, M - i < m + 1 PROVE Q(i)
    OBVIOUS
  <2>1. PICK r : r = f[i]
    OBVIOUS
  <2>2. h[i] \in Timers /\ i \in Nat
    OBVIOUS
  <2>3. CASE i \notin A
    <3>a. r = Put(h, i, x)
      BY <1>4, <2>1, <2>3
    <3>1. r[i] = x /\ \A j \in D : j # i => r[j] = h[j]
      BY <3>a DEF Put
    <3>2. ASSUME NEW j \in 2 .. M, j # i
          PROVE  Before(tm, r[j \div 2], r[j])
      <4>1. CASE j \div 2 = i
        BY <1>2, <1>4, <2>3, <3>1, <3>2, <4>1
      <4>2. CASE j \div 2 # i
        BY <1>2, <3>1, <3>2, <4>2
      <4> QED BY <4>1, <4>2
    <3>3. Before(tm, h[i], x) => Before(tm, h[i], r[i])
      BY <3>1
    <3> QED BY <2>1, <3>1, <3>2, <3>3
  <2>4. CASE i \in A
    <3>1. PICK c \in D : /\ f[i] = Put(f[c], i, h[c]) /\ c > i /\ c >= 2 * i /\ c \div 2 = i
                         /\ tm[h[c]].expire < tm[x].expire
                         /\ \A j \in D : j \div 2 = i => Before(tm, h[c], h[j])
      BY <1>3, <2>4
    <3>2. PICK g : g = f[c]
      OBVIOUS
    <3>3. g \in [D -> Timers] /\ h[c] \in Timers /\ c # i
      BY <1>5, <3>1, <3>2
    <3>4. M - c < m
      BY <2>2, <3>1
    <3>5. Before(tm, h[c], x)
      BY <3>1, <3>3, Total
    <3>6. /\ \A j \in 2 .. M : j # c => Before(tm, g[j \div 2], g[j])
          /\ \A j \in D : j < 2 * c /\ j # c => g[j] = h[j]
          /\ Before(tm, h[c], g[c])
      BY <1>7, <3>2, <3>4, <3>5
    <3>7. r = Put(g, i, h[c])
      BY <2>1, <3>1, <3>2
    <3>8. r[i] = h[c] /\ \A j \in D : j # i => r[j] = g[j]
      BY <3>3, <3>7 DEF Put
    <3>9. ASSUME NEW j \in 2 .. M, j # i
          PROVE  Before(tm, r[j \div 2], r[j])
      <4>1. CASE j \div 2 = i
        <5>1. CASE j = c
          BY <1>2, <3>6, <3>8, <3>9, <4>1, <5>1
        <5>2. CASE j # c
          <6>1. j = 2 * i \/ j = 2 * i + 1
            BY <4>1, Doubles
          <6>2. j < 2 * c
            BY <2>2, <3>1, <6>1
          <6>3. r[j] = h[j]
            BY <1>2, <3>6, <3>8, <3>9, <5>2, <6>2
          <6> QED BY <1>2, <3>1, <3>8, <4>1, <6>3
        <5> QED BY <5>1, <5>2
      <4>2. CASE j \div 2 # i
        <5>1. j # c
          BY <3>1, <4>2
        <5> QED BY <1>2, <3>6, <3>8, <3>9, <4>2, <5>1
      <4> QED BY <4>1, <4>2
    <3>10. ASSUME NEW j \in D, j < 2 * i, j # i
           PROVE  r[j] = h[j]
      <4>1. j < 2 * c /\ j # c
        BY <2>2, <3>1, <3>10
      <4> QED BY <3>6, <3>8, <3>10, <4>1
    <3>11. Before(tm, h[i], r[i])
      <4>1. c \in 2 .. M
        BY <2>2, <3>1
      <4> QED BY <3>1, <3>8, <4>1
    <3> QED BY <2>1, <3>9, <3>10, <3>11
  <2> QED BY <2>3, <2>4
<1>8. Q(1)
  <2> HIDE DEF T, Q
  <2>1. \A m \in Nat : m \in T
    BY <1>6, <1>7, NatInductive
  <2>2. M \in T /\ 1 \in D /\ M - 1 < M
    BY <2>1
  <2> QED BY <2>2 DEF T
<1>9. \A j \in 2 .. M : Before(tm, f[1][j \div 2], f[1][j])
  BY <1>8
<1>10. f[1] \in [D -> Timers] /\ Swapped(f[1], h, 1, x, D)
  BY <1>5
<1> HIDE DEF A, nx, rk, T, Q
<1> QED BY <1>1, <1>9, <1>10

Distinct(s) == \A i, j \in DOMAIN s : s[i] = s[j] => i = j

Ordered(h, tm) == \A i \in 2 .. Len(h) : Before(tm, h[i \div 2], h[i])

\* A heap of timers.
HeapOK(h, tm) == h \in Seq(Timers) /\ Distinct(h) /\ Ordered(h, tm)

\* A sequence is a function on its positions.
LEMMA SeqIs ==
  /\ \A s \in Seq(Timers) : /\ Len(s) \in Nat /\ DOMAIN s = 1 .. Len(s) /\ s \in [1 .. Len(s) -> Timers]
                            /\ Range(s) = {s[j] : j \in 1 .. Len(s)}
                            /\ s # <<>> <=> Len(s) >= 1
  /\ \A n \in Nat : \A s \in [1 .. n -> Timers] : s \in Seq(Timers) /\ Len(s) = n
<1>1. ASSUME NEW s \in Seq(Timers)
      PROVE  /\ Len(s) \in Nat /\ DOMAIN s = 1 .. Len(s) /\ s \in [1 .. Len(s) -> Timers]
             /\ s # <<>> <=> Len(s) >= 1
  <2>1. Len(s) \in Nat /\ DOMAIN s = 1 .. Len(s) /\ s \in [1 .. Len(s) -> Timers]
    BY LenProperties
  <2>2. s # <<>> <=> Len(s) >= 1
    BY <2>1, EmptySeq
  <2> QED BY <2>1, <2>2
<1>2. ASSUME NEW s \in Seq(Timers)
      PROVE  Range(s) = {s[j] : j \in 1 .. Len(s)}
  BY <1>1 DEF Range
<1>3. ASSUME NEW n \in Nat, NEW s \in [1 .. n -> Timers]
      PROVE  s \in Seq(Timers) /\ Len(s) = n
  <2>1. s \in Seq(Timers)
    BY IsASeq
  <2> QED BY <2>1, LenProperties
<1> QED BY <1>1, <1>2, <1>3

\* The first of a heap expires first.
LEMMA TopLeast ==
  ASSUME NEW h, NEW tm, HeapOK(h, tm), Timed(tm)
  PROVE  \A i \in DOMAIN h : Before(tm, h[1], h[i])
<1>1. PICK n \in Nat : n = Len(h) /\ DOMAIN h = 1 .. n /\ h \in [1 .. n -> Timers]
  BY SeqIs DEF HeapOK
<1>2. \A j \in 2 .. n : Before(tm, h[j \div 2], h[j])
  BY <1>1 DEF HeapOK, Ordered
<1> DEFINE T == {m \in Nat : \A i \in 1 .. n : i < m => Before(tm, h[1], h[i])}
<1>3. 0 \in T
  OBVIOUS
<1>4. ASSUME NEW m \in Nat, m \in T
      PROVE  m + 1 \in T
  <2> SUFFICES ASSUME NEW i \in 1 .. n, i < m + 1 PROVE Before(tm, h[1], h[i])
    OBVIOUS
  <2>1. CASE i = 1
    <3>1. h[1] \in Timers
      BY <1>1, <2>1
    <3> QED BY <2>1, <3>1, Total
  <2>2. CASE i # 1
    <3>1. i \in 2 .. n /\ i \div 2 \in 1 .. n /\ i \div 2 < i
      BY <2>2, Halves
    <3>2. i \div 2 < m
      BY <3>1
    <3>3. Before(tm, h[1], h[i \div 2]) /\ Before(tm, h[i \div 2], h[i])
      BY <1>2, <1>4, <3>1, <3>2
    <3>4. h[1] \in Timers /\ h[i] \in Timers /\ h[i \div 2] \in Timers
      BY <1>1, <3>1
    <3> QED BY <3>3, <3>4, Total
  <2> QED BY <2>1, <2>2
<1>5. n + 1 \in T
  <2> HIDE DEF T
  <2> QED BY <1>3, <1>4, NatInductive
<1> QED BY <1>1, <1>5

\* timer_heap_insert: x is in the heap, and at its top or the top is the old one.
LEMMA InsertOK ==
  ASSUME NEW h, NEW tm, HeapOK(h, tm), Timed(tm), NEW x \in Timers, x \notin Range(h)
  PROVE  LET g == Insert(h, tm, x) IN
         /\ HeapOK(g, tm) /\ Range(g) = Range(h) \cup {x} /\ g # <<>>
         /\ g[1] # x => h # <<>> /\ g[1] = h[1]
<1> HIDE DEF Distinct
<1>1. PICK n \in Nat : n = Len(h) /\ h \in Seq(Timers) /\ DOMAIN h = 1 .. n /\ h \in [1 .. n -> Timers]
                       /\ Range(h) = {h[j] : j \in 1 .. n} /\ (h # <<>> <=> n >= 1)
  BY SeqIs DEF HeapOK
<1>2. PICK m \in Nat : m = n + 1 /\ m >= 1 /\ m - 1 = n
  OBVIOUS
<1>3. PICK k : k = Append(h, x)
  OBVIOUS
<1>4. k \in Seq(Timers) /\ Len(k) = m /\ k[m] = x /\ \A j \in 1 .. n : k[j] = h[j]
  BY <1>1, <1>2, <1>3, AppendProperties
<1>5. k \in [1 .. m -> Timers] /\ Range(k) = {k[j] : j \in 1 .. m}
  BY <1>4, SeqIs
<1>6. (\A j \in 1 .. n : j \in 1 .. m /\ k[j] # x) /\ (\A j \in 1 .. m : j = m \/ j \in 1 .. n)
  BY <1>1, <1>2, <1>4
<1>7. \A i, j \in 1 .. m : k[i] = k[j] => i = j
  <2>1. \A i, j \in 1 .. n : h[i] = h[j] => i = j
    BY <1>1 DEF HeapOK, Distinct
  <2> QED BY <1>4, <1>6, <2>1
<1>8. \A j \in 2 .. m - 1 : Before(tm, k[j \div 2], k[j])
  <2>1. ASSUME NEW j \in 2 .. m - 1
        PROVE  j \in 1 .. n /\ j \div 2 \in 1 .. n /\ Before(tm, h[j \div 2], h[j])
    <3>1. j \in 2 .. n /\ j \in 1 .. n
      BY <1>2
    <3>2. j \div 2 \in 1 .. n
      BY <3>1, Halves
    <3> QED BY <1>1, <3>1, <3>2 DEF HeapOK, Ordered
  <2> QED BY <1>4, <2>1
<1>9. PICK g : g = Swim(k, tm, x, m) /\ g = Insert(h, tm, x)
  BY <1>1, <1>2, <1>3 DEF Insert
<1>10. /\ g \in [1 .. m -> Timers] /\ g[1] \in {x, k[1]}
       /\ \A i, j \in 1 .. m : g[i] = g[j] => i = j
       /\ {g[j] : j \in 1 .. m} = {k[j] : j \in 1 .. m}
       /\ \A j \in 2 .. m : Before(tm, g[j \div 2], g[j])
  <2>1. Added(k, tm, x, m)
    BY <1>2, <1>4, <1>5, <1>7, <1>8 DEF Added
  <2>2. Arranged(g, k, tm, x, m)
    BY <1>9, <2>1, SwimOK, Zenon
  <2> QED BY <2>2 DEF Arranged
<1>11. g \in Seq(Timers) /\ Len(g) = m /\ DOMAIN g = 1 .. m /\ g # <<>> /\ Range(g) = {g[j] : j \in 1 .. m}
  BY <1>2, <1>10, SeqIs
<1>12. HeapOK(g, tm)
  BY <1>10, <1>11 DEF HeapOK, Distinct, Ordered
<1>13. Range(g) = Range(h) \cup {x}
  <2>1. Range(g) = {k[j] : j \in 1 .. m}
    BY <1>10, <1>11
  <2>2. ASSUME NEW v \in {k[j] : j \in 1 .. m} PROVE v \in Range(h) \cup {x}
    <3>1. PICK j \in 1 .. m : v = k[j]
      OBVIOUS
    <3> QED BY <1>1, <1>4, <1>6, <3>1
  <2>3. ASSUME NEW v \in Range(h) \cup {x} PROVE v \in {k[j] : j \in 1 .. m}
    <3>1. CASE v = x
      <4>1. m \in 1 .. m
        BY <1>2
      <4> QED BY <1>4, <3>1, <4>1
    <3>2. CASE v # x
      <4>1. PICK j \in 1 .. n : v = h[j]
        BY <1>1, <3>2
      <4>2. j \in 1 .. m /\ k[j] = v
        BY <1>4, <1>6, <4>1
      <4> QED BY <4>2
    <3> QED BY <3>1, <3>2
  <2> QED BY <2>1, <2>2, <2>3
<1>14. g[1] # x => h # <<>> /\ g[1] = h[1]
  <2> SUFFICES ASSUME g[1] # x PROVE h # <<>> /\ g[1] = h[1]
    OBVIOUS
  <2>1. g[1] = k[1] /\ k[1] # x
    BY <1>10
  <2>2. n >= 1
    <3> SUFFICES ASSUME n = 0 PROVE FALSE
      OBVIOUS
    <3>1. m = 1
      BY <1>2
    <3> QED BY <1>4, <2>1, <3>1
  <2>3. 1 \in 1 .. n
    BY <2>2
  <2> QED BY <1>1, <1>4, <2>1, <2>2, <2>3
<1> QED BY <1>9, <1>11, <1>12, <1>13, <1>14

\* timer_heap_pop: the top is gone.
LEMMA PopOK ==
  ASSUME NEW h, NEW tm, HeapOK(h, tm), Timed(tm), h # <<>>
  PROVE  HeapOK(Pop(h, tm), tm) /\ Range(Pop(h, tm)) = Range(h) \ {h[1]}
<1>1. PICK n \in Nat : n = Len(h) /\ h \in Seq(Timers) /\ DOMAIN h = 1 .. n /\ h \in [1 .. n -> Timers]
                       /\ Range(h) = {h[j] : j \in 1 .. n} /\ n >= 1
  BY SeqIs DEF HeapOK
<1>2. PICK M \in Nat : M = n - 1 /\ M + 1 = n
  <2>1. n >= 1
    BY <1>1
  <2>2. n - 1 \in Nat /\ (n - 1) + 1 = n
    BY <2>1
  <2> QED BY <2>2
<1>3. PICK k : k = SubSeq(h, 1, Len(h) - 1)
  OBVIOUS
<1>4. k \in Seq(Timers) /\ Len(k) = M /\ \A j \in 1 .. M : k[j] = h[j]
  <2>1. \A j \in 1 .. M : j \in 1 .. n
    BY <1>2
  <2>2. k = SubSeq(h, 1, M)
    BY <1>1, <1>2, <1>3
  <2>3. /\ SubSeq(h, 1, M) \in Seq(Timers) /\ Len(SubSeq(h, 1, M)) = IF 1 <= M THEN M - 1 + 1 ELSE 0
        /\ \A j \in 1 .. M - 1 + 1 : SubSeq(h, 1, M)[j] = h[1 + j - 1]
    BY <1>1, <2>1, SubSeqProperties
  <2>4. (IF 1 <= M THEN M - 1 + 1 ELSE 0) = M /\ M - 1 + 1 = M /\ \A j \in 1 .. M : 1 + j - 1 = j
    OBVIOUS
  <2> QED BY <2>2, <2>3, <2>4
<1>5. k \in [1 .. M -> Timers] /\ Range(k) = {k[j] : j \in 1 .. M} /\ (k # <<>> <=> M >= 1)
  BY <1>4, SeqIs
<1>6. PICK x : x = h[n] /\ x = Last(h) /\ x \in Timers
  BY <1>1 DEF Last
<1>7. \A i, j \in 1 .. n : h[i] = h[j] => i = j
  BY <1>1 DEF HeapOK, Distinct
<1>8. /\ \A j \in 1 .. M : j \in 1 .. n /\ j # n
      /\ \A j \in 1 .. n : j = n \/ j \in 1 .. M
      /\ n \in 1 .. n /\ 1 \in 1 .. n
  <2>1. n >= 1
    BY <1>1
  <2> QED BY <1>2, <2>1
<1>9. PICK g : g = Pop(h, tm)
  OBVIOUS
<1>10. g = IF M > 1 THEN Sink(k, tm, x) ELSE IF k = <<>> THEN k ELSE <<x>>
  BY <1>3, <1>4, <1>6, <1>9 DEF Pop
<1>11. CASE M > 1
  <2>1. g = Sink(k, tm, x)
    BY <1>10, <1>11
  <2>2. \A i, j \in 1 .. M : k[i] = k[j] => i = j
    BY <1>4, <1>7, <1>8
  <2>3. \A j \in 1 .. M : k[j] # x
    BY <1>4, <1>6, <1>7, <1>8
  <2>4. \A j \in 2 .. M : Before(tm, k[j \div 2], k[j])
    <3> SUFFICES ASSUME NEW j \in 2 .. M PROVE Before(tm, k[j \div 2], k[j])
      OBVIOUS
    <3>1. j \in 1 .. M /\ j \in 2 .. n /\ j \div 2 \in 1 .. M
      BY <1>2, Halves
    <3>2. Before(tm, h[j \div 2], h[j])
      BY <1>1, <3>1 DEF HeapOK, Ordered
    <3> QED BY <1>4, <3>1, <3>2
  <2>5. M >= 1
    BY <1>11
  <2>6. /\ g \in [1 .. M -> Timers] /\ Swapped(g, k, 1, x, 1 .. M)
        /\ \A j \in 2 .. M : Before(tm, g[j \div 2], g[j])
    BY <1>4, <1>5, <1>6, <2>1, <2>2, <2>3, <2>4, <2>5, SinkOK
  <2>7. /\ \A i, j \in 1 .. M : g[i] = g[j] => i = j
        /\ {g[j] : j \in 1 .. M} = ({k[j] : j \in 1 .. M} \ {k[1]}) \cup {x}
    BY <2>6 DEF Swapped
  <2>8. g \in Seq(Timers) /\ Len(g) = M /\ DOMAIN g = 1 .. M /\ Range(g) = {g[j] : j \in 1 .. M}
    BY <2>6, SeqIs
  <2>9. HeapOK(g, tm)
    BY <2>6, <2>7, <2>8 DEF HeapOK, Distinct, Ordered
  <2>10. k[1] = h[1] /\ x # h[1]
    <3>1. 1 \in 1 .. M
      BY <2>5
    <3> QED BY <1>4, <2>3, <3>1
  <2>11. Range(g) = Range(h) \ {h[1]}
    <3>1. Range(h) = {k[j] : j \in 1 .. M} \cup {x}
      <4>1. ASSUME NEW v \in Range(h) PROVE v \in {k[j] : j \in 1 .. M} \cup {x}
        <5>1. PICK j \in 1 .. n : v = h[j]
          BY <1>1
        <5> QED BY <1>4, <1>6, <1>8, <5>1
      <4>2. ASSUME NEW v \in {k[j] : j \in 1 .. M} \cup {x} PROVE v \in Range(h)
        <5>1. CASE v = x
          BY <1>1, <1>6, <1>8, <5>1
        <5>2. CASE v # x
          <6>1. PICK j \in 1 .. M : v = k[j]
            BY <5>2
          <6> QED BY <1>1, <1>4, <1>8, <6>1
        <5> QED BY <5>1, <5>2
      <4> QED BY <4>1, <4>2
    <3> QED BY <2>7, <2>8, <2>10, <3>1
  <2> QED BY <1>9, <2>9, <2>11
<1>12. CASE M = 1
  <2>1. g = <<x>> /\ n = 2
    BY <1>2, <1>5, <1>10, <1>12
  <2>2. g \in Seq(Timers) /\ Len(g) = 1 /\ DOMAIN g = 1 .. 1 /\ g[1] = x
    BY <1>6, <2>1
  <2>3. HeapOK(g, tm)
    BY <2>2 DEF HeapOK, Distinct, Ordered
  <2>4. Range(g) = {x}
    BY <2>2 DEF Range
  <2>5. Range(h) = {h[1], x} /\ h[1] # x
    <3>a. 1 .. 2 = {1, 2}
      OBVIOUS
    <3>1. 1 .. n = {1, 2} /\ h[2] = x
      BY <1>6, <2>1, <3>a, Zenon
    <3> QED BY <1>1, <1>7, <1>8, <3>1
  <2> QED BY <1>9, <2>3, <2>4, <2>5
<1>13. CASE M = 0
  <2>1. g = <<>> /\ n = 1
    BY <1>2, <1>5, <1>10, <1>13
  <2>2. g \in Seq(Timers) /\ Len(g) = 0 /\ DOMAIN g = {}
    BY <2>1
  <2>3. HeapOK(g, tm) /\ Range(g) = {}
    BY <2>2 DEF HeapOK, Distinct, Ordered, Range
  <2>4. Range(h) = {h[1]}
    <3>1. 1 .. n = {1}
      BY <2>1
    <3> QED BY <1>1, <3>1
  <2> QED BY <1>9, <2>3, <2>4
<1> QED BY <1>11, <1>12, <1>13

\* The loop that takes the expired timers off the heap, as a recursion.
PopStep(s, tm, now) ==
  IF s.heap # <<>> /\ tm[s.heap[1]].expire <= now
  THEN [heap |-> Pop(s.heap, tm), expired |-> Append(s.expired, s.heap[1])]
  ELSE s

PopSteps(h, tm, now, n, f) ==
  /\ f[0] = [heap |-> h, expired |-> <<>>]
  /\ \A i \in 1 .. n : f[i] = PopStep(f[i - 1], tm, now)

\* The first loop of timer_heap_timeout, unfolded.
LEMMA PopExpiredIs ==
  ASSUME NEW h, NEW tm, NEW now, NEW n \in Nat, n = Len(h)
  PROVE  \E f : PopExpired(h, tm, now) = f[n] /\ PopSteps(h, tm, now, n, f)
<1> DEFINE b == [heap |-> h, expired |-> <<>>]
           Body(f, i) == IF i = 0 THEN b ELSE PopStep(f[i - 1], tm, now)
           T == {m \in Nat : \E f : f = [i \in 0 .. m |-> Body(f, i)]}
<1>1. \A f : Body(f, 0) = b
  OBVIOUS
<1>2. \A f, g : \A i \in Nat \ {0} : f[i - 1] = g[i - 1] => Body(f, i) = Body(g, i)
  <2> HIDE DEF b
  <2> QED OBVIOUS
<1>3. \A f : \A i \in Nat \ {0} : Body(f, i) = PopStep(f[i - 1], tm, now)
  OBVIOUS
<1>x. \A f : \A i : Body(f, i) = IF i = 0 THEN [heap |-> h, expired |-> <<>>]
        ELSE LET s == f[i - 1] IN
             IF s.heap # <<>> /\ tm[s.heap[1]].expire <= now
             THEN [heap |-> Pop(s.heap, tm), expired |-> Append(s.expired, s.heap[1])]
             ELSE s
  BY DEF PopStep
<1>4. 0 \in T
  <2> HIDE DEF Body, b
  <2> DEFINE g == [i \in 0 .. 0 |-> b]
  <2>1. \A i \in 0 .. 0 : i = 0 /\ g[i] = Body(g, i)
    BY <1>1
  <2>2. g = [i \in 0 .. 0 |-> g[i]]
    OBVIOUS
  <2> HIDE DEF g
  <2>3. g = [i \in 0 .. 0 |-> Body(g, i)]
    BY <2>1, <2>2
  <2> QED BY <2>3
<1>5. ASSUME NEW m \in Nat, m \in T
      PROVE  m + 1 \in T
  <2> HIDE DEF Body, b
  <2>1. PICK f : f = [i \in 0 .. m |-> Body(f, i)]
    BY <1>5
  <2> DEFINE g == [i \in 0 .. m + 1 |-> IF i <= m THEN f[i] ELSE Body(f, m + 1)]
  <2>2. \A i \in 0 .. m : g[i] = f[i]
    OBVIOUS
  <2>3. g[m + 1] = Body(f, m + 1)
    OBVIOUS
  <2>4. g = [i \in 0 .. m + 1 |-> g[i]]
    OBVIOUS
  <2> HIDE DEF g
  <2>5. ASSUME NEW i \in 0 .. m + 1 PROVE g[i] = Body(g, i)
    <3>1. CASE i = 0
      <4>1. 0 \in 0 .. m
        OBVIOUS
      <4>2. f[0] = Body(f, 0)
        BY <2>1, <4>1
      <4> QED BY <1>1, <2>2, <3>1, <4>1, <4>2
    <3>2. CASE i \in 1 .. m + 1
      <4>1. i \in Nat \ {0} /\ i - 1 \in 0 .. m
        BY <3>2
      <4>2. Body(f, i) = Body(g, i)
        BY <1>2, <2>2, <4>1
      <4>3. g[i] = Body(f, i)
        <5>1. CASE i = m + 1
          BY <2>3, <5>1
        <5>2. CASE i # m + 1
          <6>1. i \in 0 .. m
            BY <3>2, <5>2
          <6> QED BY <2>1, <2>2, <6>1
        <5> QED BY <5>1, <5>2
      <4> QED BY <4>2, <4>3
    <3> QED BY <3>1, <3>2
  <2>6. g = [i \in 0 .. m + 1 |-> Body(g, i)]
    BY <2>4, <2>5, Zenon
  <2> QED BY <2>6
<1> HIDE DEF T
<1>6. n \in T
  BY <1>4, <1>5, NatInductive
<1> DEFINE u == CHOOSE f : f = [i \in 0 .. n |-> Body(f, i)]
<1>7. u = [i \in 0 .. n |-> Body(u, i)]
  <2> HIDE DEF Body
  <2>1. \E f : f = [i \in 0 .. n |-> Body(f, i)]
    BY <1>6 DEF T
  <2> QED BY <2>1, Zenon
<1>8. PopExpired(h, tm, now) = u[n]
  BY DEF PopExpired, PopStep
<1>9. u[0] = b /\ \A i \in 1 .. n : u[i] = PopStep(u[i - 1], tm, now)
  <2> HIDE DEF Body, b, u
  <2>1. \A i \in 0 .. n : u[i] = Body(u, i)
    BY <1>7, Zenon
  <2>2. 0 \in 0 .. n /\ \A i \in 1 .. n : i \in 0 .. n /\ i \in Nat \ {0}
    OBVIOUS
  <2> QED BY <1>1, <1>3, <2>1, <2>2, Zenon
<1>10. PopSteps(h, tm, now, n, u)
  BY <1>9 DEF PopSteps
<1> HIDE DEF u
<1> QED BY <1>8, <1>10

\* The heap and the expired timers share the timers R out between them.
Shared(s, tm, R) ==
  /\ HeapOK(s.heap, tm) /\ s.expired \in Seq(Timers) /\ Distinct(s.expired)
  /\ Range(s.heap) \cap Range(s.expired) = {} /\ Range(s.heap) \cup Range(s.expired) = R

\* A timer behind others.
LEMMA AppendDistinct ==
  ASSUME NEW s \in Seq(Timers), Distinct(s), NEW x \in Timers, x \notin Range(s)
  PROVE  /\ Append(s, x) \in Seq(Timers) /\ Distinct(Append(s, x))
         /\ Range(Append(s, x)) = Range(s) \cup {x}
<1>1. PICK n \in Nat : n = Len(s) /\ DOMAIN s = 1 .. n /\ Range(s) = {s[j] : j \in 1 .. n}
  BY SeqIs
<1>2. PICK a : a = Append(s, x)
  OBVIOUS
<1>3. /\ a \in Seq(Timers) /\ Len(a) = n + 1 /\ a[n + 1] = x /\ \A j \in 1 .. n : a[j] = s[j]
  BY <1>1, <1>2, AppendProperties
<1>4. DOMAIN a = 1 .. n + 1 /\ Range(a) = {a[j] : j \in 1 .. n + 1}
  BY <1>3, SeqIs
<1>5. (\A j \in 1 .. n + 1 : j = n + 1 \/ j \in 1 .. n) /\ (\A j \in 1 .. n : j \in 1 .. n + 1) /\ n + 1 \in 1 .. n + 1
  OBVIOUS
<1>6. Distinct(a)
  <2>1. \A i, j \in 1 .. n : s[i] = s[j] => i = j
    BY <1>1 DEF Distinct
  <2>2. \A j \in 1 .. n : s[j] # x
    BY <1>1
  <2> QED BY <1>3, <1>4, <1>5, <2>1, <2>2 DEF Distinct
<1>7. Range(a) = Range(s) \cup {x}
  <2>1. ASSUME NEW v \in Range(a) PROVE v \in Range(s) \cup {x}
    <3>1. PICK j \in 1 .. n + 1 : v = a[j]
      BY <1>4
    <3> QED BY <1>1, <1>3, <1>5, <3>1
  <2>2. ASSUME NEW v \in Range(s) \cup {x} PROVE v \in Range(a)
    <3>1. CASE v = x
      BY <1>3, <1>4, <1>5, <3>1
    <3>2. CASE v # x
      <4>1. PICK j \in 1 .. n : v = s[j]
        BY <1>1, <3>2
      <4> QED BY <1>3, <1>4, <1>5, <4>1
    <3> QED BY <3>1, <3>2
  <2> QED BY <2>1, <2>2
<1> QED BY <1>2, <1>3, <1>6, <1>7

\* One turn of the loop moves the top of the heap to the expired timers.
LEMMA PopStepShared ==
  ASSUME NEW s, NEW tm, NEW R, NEW now, Shared(s, tm, R), Timed(tm)
  PROVE  Shared(PopStep(s, tm, now), tm, R)
<1>1. CASE s.heap # <<>> /\ tm[s.heap[1]].expire <= now
  <2>1. PICK h, e : h = s.heap /\ e = s.expired
    OBVIOUS
  <2>2. /\ HeapOK(h, tm) /\ e \in Seq(Timers) /\ Distinct(e) /\ h # <<>>
        /\ Range(h) \cap Range(e) = {} /\ Range(h) \cup Range(e) = R
    BY <1>1, <2>1 DEF Shared
  <2>3. HeapOK(Pop(h, tm), tm) /\ Range(Pop(h, tm)) = Range(h) \ {h[1]}
    BY <2>2, PopOK
  <2>4. h[1] \in Range(h) /\ h[1] \in Timers
    <3>1. h \in Seq(Timers)
      BY <2>2 DEF HeapOK
    <3>2. 1 \in 1 .. Len(h) /\ h \in [1 .. Len(h) -> Timers] /\ Range(h) = {h[j] : j \in 1 .. Len(h)}
      BY <2>2, <3>1, SeqIs
    <3> QED BY <3>2
  <2>5. /\ Append(e, h[1]) \in Seq(Timers) /\ Distinct(Append(e, h[1]))
        /\ Range(Append(e, h[1])) = Range(e) \cup {h[1]}
    BY <2>2, <2>4, AppendDistinct
  <2>6. PICK p, q : p = Pop(h, tm) /\ q = Append(e, h[1])
    OBVIOUS
  <2>7. PopStep(s, tm, now) = [heap |-> p, expired |-> q]
    BY <1>1, <2>1, <2>6 DEF PopStep
  <2>8. Range(p) \cap Range(q) = {} /\ Range(p) \cup Range(q) = R
    BY <2>2, <2>3, <2>4, <2>5, <2>6
  <2>9. HeapOK(p, tm) /\ q \in Seq(Timers) /\ Distinct(q)
    BY <2>3, <2>5, <2>6
  <2> QED BY <2>7, <2>8, <2>9 DEF Shared
<1>2. CASE ~ (s.heap # <<>> /\ tm[s.heap[1]].expire <= now)
  <2>1. PopStep(s, tm, now) = s
    BY <1>2 DEF PopStep
  <2> QED BY <2>1
<1> QED BY <1>1, <1>2

\* What has expired is taken off the heap and nothing is lost.
LEMMA PopExpiredOK ==
  ASSUME NEW h, NEW tm, NEW now, HeapOK(h, tm), Timed(tm)
  PROVE  Shared(PopExpired(h, tm, now), tm, Range(h))
<1>1. PICK n \in Nat : n = Len(h)
  BY SeqIs DEF HeapOK
<1>2. PICK f : /\ PopExpired(h, tm, now) = f[n]
               /\ f[0] = [heap |-> h, expired |-> <<>>]
               /\ \A i \in 1 .. n : f[i] = PopStep(f[i - 1], tm, now)
  <2>1. PICK f : PopExpired(h, tm, now) = f[n] /\ PopSteps(h, tm, now, n, f)
    BY <1>1, PopExpiredIs, Zenon
  <2> QED BY <2>1 DEF PopSteps
<1> DEFINE T == {m \in Nat : m <= n => Shared(f[m], tm, Range(h))}
<1>3. 0 \in T
  <2>1. <<>> \in Seq(Timers) /\ Distinct(<<>>) /\ Range(<<>>) = {}
    BY DEF Distinct, Range
  <2>2. f[0].heap = h /\ f[0].expired = <<>>
    BY <1>2
  <2>3. Shared(f[0], tm, Range(h))
    BY <2>1, <2>2 DEF Shared
  <2> QED BY <2>3
<1>4. ASSUME NEW m \in Nat, m \in T
      PROVE  m + 1 \in T
  <2> SUFFICES ASSUME m + 1 <= n PROVE Shared(f[m + 1], tm, Range(h))
    OBVIOUS
  <2>1. Shared(f[m], tm, Range(h))
    BY <1>4
  <2>2. m + 1 \in 1 .. n /\ (m + 1) - 1 = m
    OBVIOUS
  <2>3. f[m + 1] = PopStep(f[m], tm, now)
    BY <1>2, <2>2
  <2> QED BY <2>1, <2>3, PopStepShared
<1>5. n \in T
  <2> HIDE DEF T
  <2> QED BY <1>3, <1>4, NatInductive
<1> QED BY <1>2, <1>5

\* The loop that puts the repeated timers back, as a recursion.
BackStep(h, tm, t, again) == IF t \in again THEN Insert(h, tm, t) ELSE h

BackSteps(h, tm, ts, again, n, f) ==
  f[0] = h /\ \A i \in 1 .. n : f[i] = BackStep(f[i - 1], tm, ts[i], again)

\* The second loop of timer_heap_timeout, unfolded.
LEMMA PutBackIs ==
  ASSUME NEW h, NEW tm, NEW ts, NEW again, NEW n \in Nat, n = Len(ts)
  PROVE  \E f : PutBack(h, tm, ts, again) = f[n] /\ BackSteps(h, tm, ts, again, n, f)
<1> DEFINE b == h
           Body(f, i) == IF i = 0 THEN b ELSE BackStep(f[i - 1], tm, ts[i], again)
           T == {m \in Nat : \E f : f = [i \in 0 .. m |-> Body(f, i)]}
<1>1. \A f : Body(f, 0) = b
  OBVIOUS
<1>2. \A f, g : \A i \in Nat \ {0} : f[i - 1] = g[i - 1] => Body(f, i) = Body(g, i)
  <2> HIDE DEF b
  <2> QED OBVIOUS
<1>3. \A f : \A i \in Nat \ {0} : Body(f, i) = BackStep(f[i - 1], tm, ts[i], again)
  OBVIOUS
<1>4. 0 \in T
  <2> HIDE DEF Body, b
  <2> DEFINE g == [i \in 0 .. 0 |-> b]
  <2>1. \A i \in 0 .. 0 : i = 0 /\ g[i] = Body(g, i)
    BY <1>1
  <2>2. g = [i \in 0 .. 0 |-> g[i]]
    OBVIOUS
  <2> HIDE DEF g
  <2>3. g = [i \in 0 .. 0 |-> Body(g, i)]
    BY <2>1, <2>2
  <2> QED BY <2>3
<1>5. ASSUME NEW m \in Nat, m \in T
      PROVE  m + 1 \in T
  <2> HIDE DEF Body, b
  <2>1. PICK f : f = [i \in 0 .. m |-> Body(f, i)]
    BY <1>5
  <2> DEFINE g == [i \in 0 .. m + 1 |-> IF i <= m THEN f[i] ELSE Body(f, m + 1)]
  <2>2. \A i \in 0 .. m : g[i] = f[i]
    OBVIOUS
  <2>3. g[m + 1] = Body(f, m + 1)
    OBVIOUS
  <2>4. g = [i \in 0 .. m + 1 |-> g[i]]
    OBVIOUS
  <2> HIDE DEF g
  <2>5. ASSUME NEW i \in 0 .. m + 1 PROVE g[i] = Body(g, i)
    <3>1. CASE i = 0
      <4>1. 0 \in 0 .. m
        OBVIOUS
      <4>2. f[0] = Body(f, 0)
        BY <2>1, <4>1
      <4> QED BY <1>1, <2>2, <3>1, <4>1, <4>2
    <3>2. CASE i \in 1 .. m + 1
      <4>1. i \in Nat \ {0} /\ i - 1 \in 0 .. m
        BY <3>2
      <4>2. Body(f, i) = Body(g, i)
        BY <1>2, <2>2, <4>1
      <4>3. g[i] = Body(f, i)
        <5>1. CASE i = m + 1
          BY <2>3, <5>1
        <5>2. CASE i # m + 1
          <6>1. i \in 0 .. m
            BY <3>2, <5>2
          <6> QED BY <2>1, <2>2, <6>1
        <5> QED BY <5>1, <5>2
      <4> QED BY <4>2, <4>3
    <3> QED BY <3>1, <3>2
  <2>6. g = [i \in 0 .. m + 1 |-> Body(g, i)]
    BY <2>4, <2>5, Zenon
  <2> QED BY <2>6
<1> HIDE DEF T
<1>6. n \in T
  BY <1>4, <1>5, NatInductive
<1> DEFINE u == CHOOSE f : f = [i \in 0 .. n |-> Body(f, i)]
<1>7. u = [i \in 0 .. n |-> Body(u, i)]
  <2> HIDE DEF Body
  <2>1. \E f : f = [i \in 0 .. n |-> Body(f, i)]
    BY <1>6 DEF T
  <2> QED BY <2>1, Zenon
<1>8. PutBack(h, tm, ts, again) = u[n]
  BY DEF PutBack, BackStep
<1>9. u[0] = b /\ \A i \in 1 .. n : u[i] = BackStep(u[i - 1], tm, ts[i], again)
  <2> HIDE DEF Body, b, u
  <2>1. \A i \in 0 .. n : u[i] = Body(u, i)
    BY <1>7, Zenon
  <2>2. 0 \in 0 .. n /\ \A i \in 1 .. n : i \in 0 .. n /\ i \in Nat \ {0}
    OBVIOUS
  <2> QED BY <1>1, <1>3, <2>1, <2>2, Zenon
<1>10. BackSteps(h, tm, ts, again, n, u)
  BY <1>9 DEF BackSteps
<1> HIDE DEF u
<1> QED BY <1>8, <1>10


\* The timers ts that repeat are in the heap again.
LEMMA PutBackOK ==
  ASSUME NEW h, NEW tm, NEW ts \in Seq(Timers), NEW again, HeapOK(h, tm), Timed(tm),
         Distinct(ts), Range(h) \cap Range(ts) = {}, again \subseteq Range(ts)
  PROVE  HeapOK(PutBack(h, tm, ts, again), tm) /\ Range(PutBack(h, tm, ts, again)) = Range(h) \cup again
<1>1. PICK n \in Nat : /\ n = Len(ts) /\ DOMAIN ts = 1 .. n /\ ts \in [1 .. n -> Timers]
                       /\ Range(ts) = {ts[j] : j \in 1 .. n}
  BY SeqIs
<1>2. PICK f : /\ PutBack(h, tm, ts, again) = f[n]
               /\ f[0] = h /\ \A i \in 1 .. n : f[i] = BackStep(f[i - 1], tm, ts[i], again)
  <2>1. PICK f : PutBack(h, tm, ts, again) = f[n] /\ BackSteps(h, tm, ts, again, n, f)
    BY <1>1, PutBackIs, Zenon
  <2> QED BY <2>1 DEF BackSteps
<1>3. \A i, j \in 1 .. n : ts[i] = ts[j] => i = j
  BY <1>1 DEF Distinct
<1> DEFINE Back(m) == {ts[j] : j \in {k \in 1 .. m : ts[k] \in again}}
           T == {m \in Nat : m <= n => HeapOK(f[m], tm) /\ Range(f[m]) = Range(h) \cup Back(m)}
<1>4. 0 \in T
  <2>1. Back(0) = {}
    OBVIOUS
  <2> HIDE DEF Back
  <2> QED BY <1>2, <2>1
<1>5. ASSUME NEW m \in Nat, m \in T
      PROVE  m + 1 \in T
  <2> SUFFICES ASSUME m + 1 <= n
               PROVE  HeapOK(f[m + 1], tm) /\ Range(f[m + 1]) = Range(h) \cup Back(m + 1)
    OBVIOUS
  <2>1. PICK g, t : g = f[m] /\ t = ts[m + 1]
    OBVIOUS
  <2>2. HeapOK(g, tm) /\ Range(g) = Range(h) \cup Back(m)
    BY <1>5, <2>1
  <2>3. m + 1 \in 1 .. n /\ (m + 1) - 1 = m
    OBVIOUS
  <2>4. f[m + 1] = BackStep(g, tm, t, again) /\ t \in Timers /\ t \in Range(ts)
    BY <1>1, <1>2, <2>1, <2>3
  <2>5. (\A k \in 1 .. m : k \in 1 .. n /\ k \in 1 .. m + 1 /\ k # m + 1) /\ (\A k \in 1 .. m + 1 : k = m + 1 \/ k \in 1 .. m)
    OBVIOUS
  <2>6. CASE t \in again
    <3>1. t \notin Range(g)
      <4>1. t \notin Range(h)
        BY <2>4
      <4>2. t \notin Back(m)
        BY <1>3, <2>1, <2>3, <2>5
      <4> QED BY <2>2, <4>1, <4>2
    <3>2. f[m + 1] = Insert(g, tm, t)
      BY <2>4, <2>6 DEF BackStep
    <3>3. HeapOK(Insert(g, tm, t), tm) /\ Range(Insert(g, tm, t)) = Range(g) \cup {t}
      BY <2>2, <2>4, <3>1, InsertOK
    <3>4. Back(m + 1) = Back(m) \cup {t}
      BY <2>1, <2>5, <2>6
    <3> HIDE DEF Back
    <3> QED BY <2>2, <3>2, <3>3, <3>4
  <2>7. CASE t \notin again
    <3>1. f[m + 1] = g
      BY <2>4, <2>7 DEF BackStep
    <3>2. Back(m + 1) = Back(m)
      BY <2>1, <2>5, <2>7
    <3> HIDE DEF Back
    <3> QED BY <2>2, <3>1, <3>2
  <2> QED BY <2>6, <2>7
<1>6. n \in T
  <2> HIDE DEF T
  <2> QED BY <1>4, <1>5, NatInductive
<1>7. Back(n) = again
  <2>1. ASSUME NEW v \in again PROVE v \in Back(n)
    <3>1. PICK j \in 1 .. n : v = ts[j]
      BY <1>1
    <3> QED BY <3>1
  <2> QED BY <2>1
<1>8. HeapOK(f[n], tm) /\ Range(f[n]) = Range(h) \cup again
  <2> HIDE DEF Back
  <2> QED BY <1>6, <1>7
<1> HIDE DEF T, Back
<1> QED BY <1>2, <1>8

-----------------------------------------------------------------------------
(* The inductive invariant.                                                *)

TimerRecords == [expire : Nat, timeout : Nat, repeat : BOOLEAN, canceled : BOOLEAN]

TypeInv ==
  /\ timer \in [Timers -> TimerRecords]
  /\ clock \in 0 .. MaxTime /\ started \in 0 .. MaxTime /\ armed \in Nat
  /\ called = Outside \/ called \in 0 .. Len(expired_timers)
  /\ \A t \in Registered : timer[t].expire <= MaxTime + timer[t].timeout

\* A registered timer is in the heap or among the expired ones, once.
PlaceInv ==
  /\ HeapOK(heap, timer)
  /\ expired_timers \in Seq(Timers) /\ Distinct(expired_timers)
  /\ Range(heap) \cap Range(expired_timers) = {}
  /\ Range(heap) \cup Range(expired_timers) = Registered

\* Between two handlers the timerfd is armed for the top of the heap.
ArmedInv ==
  called = Outside =>
    /\ expired_timers = <<>>
    /\ heap # <<>> => armed <= timer[heap[1]].expire \/ armed <= clock + 1

TimerInv == TypeInv /\ PlaceInv /\ ArmedInv

\* A heap stays one while its timers keep their times.
LEMMA HeapKeeps ==
  ASSUME NEW h, NEW tm, NEW um, HeapOK(h, tm), \A t \in Range(h) : um[t].expire = tm[t].expire
  PROVE  HeapOK(h, um)
<1>1. h \in Seq(Timers) /\ Distinct(h) /\ Ordered(h, tm)
  BY DEF HeapOK
<1>2. PICK n \in Nat : n = Len(h) /\ Range(h) = {h[j] : j \in 1 .. n}
  BY <1>1, SeqIs
<1>3. \A j \in 2 .. n : j \in 1 .. n /\ j \div 2 \in 1 .. n
  BY Halves
<1>4. ASSUME NEW j \in 2 .. n PROVE Before(um, h[j \div 2], h[j])
  <2>1. h[j] \in Range(h) /\ h[j \div 2] \in Range(h)
    BY <1>2, <1>3
  <2>2. Before(tm, h[j \div 2], h[j])
    BY <1>1, <1>2 DEF Ordered
  <2> QED BY <2>1, <2>2 DEF Before
<1>5. Ordered(h, um)
  BY <1>2, <1>4 DEF Ordered
<1> QED BY <1>1, <1>5 DEF HeapOK

\* The empty heap.
LEMMA EmptyHeap == \A tm : HeapOK(<<>>, tm) /\ Range(<<>>) = {} /\ <<>> \in Seq(Timers) /\ Distinct(<<>>)
BY DEF HeapOK, Distinct, Ordered, Range

\* Times of expiry are numbers.
LEMMA TypeTimed ==
  \A tm \in [Timers -> TimerRecords] : Timed(tm)
BY DEF Timed, TimerRecords

\* timerfd_set_timeout never arms later than it is told or than the next unit.
LEMMA SetTimeoutIs ==
  \A when, now \in Nat : /\ SetTimeout(when, now) \in Nat
                         /\ SetTimeout(when, now) <= when \/ SetTimeout(when, now) <= now + 1
BY DEF SetTimeout

\* The heap is empty at first.
LEMMA InitTimer ==
  ASSUME MaxTime \in Nat, TimerInit
  PROVE  TimerInv
<1>1. None \in Nat /\ NoTimer \in TimerRecords
  BY DEF None, NoTimer, TimerRecords
<1>2. timer = [t \in Timers |-> NoTimer] /\ heap = <<>> /\ expired_timers = <<>> /\ called = Outside
      /\ started = 0 /\ armed = None /\ clock = 0
  BY DEF TimerInit
<1>3. Registered = {}
  <2>1. \A t \in Timers : timer[t] = NoTimer
    BY <1>2
  <2> QED BY <2>1 DEF Registered
<1>4. TypeInv
  BY <1>1, <1>2, <1>3 DEF TypeInv
<1>5. PlaceInv
  BY <1>2, <1>3, EmptyHeap DEF PlaceInv
<1> QED BY <1>2, <1>4, <1>5 DEF TimerInv, ArmedInv

\* Time goes by.
LEMMA TickTimer ==
  ASSUME MaxTime \in Nat, TimerInv, Tick
  PROVE  TimerInv'
<1>1. /\ clock < MaxTime /\ clock' = clock + 1 /\ timer' = timer /\ heap' = heap
      /\ expired_timers' = expired_timers /\ called' = called /\ started' = started /\ armed' = armed
  BY DEF Tick
<1>2. TypeInv /\ PlaceInv /\ ArmedInv
  BY DEF TimerInv
<1>3. Registered' = Registered
  BY <1>1 DEF Registered
<1>4. TypeInv'
  <2>1. clock' \in 0 .. MaxTime
    BY <1>1, <1>2 DEF TypeInv
  <2> QED BY <1>1, <1>2, <1>3, <2>1 DEF TypeInv
<1>5. PlaceInv'
  BY <1>1, <1>2, <1>3 DEF PlaceInv
<1>6. ArmedInv'
  <2>1. armed \in Nat /\ clock \in Nat
    BY <1>2 DEF TypeInv
  <2>2. armed <= clock + 1 => armed <= (clock + 1) + 1
    BY <2>1
  <2> QED BY <1>1, <1>2, <2>2 DEF ArmedInv
<1> QED BY <1>4, <1>5, <1>6 DEF TimerInv

\* A callback: the timers stay where they are.
LEMMA CallTimer ==
  ASSUME MaxTime \in Nat, TimerInv, Call
  PROVE  TimerInv'
<1>1. /\ called # Outside /\ called < Len(expired_timers) /\ called' = called + 1
      /\ timer' = timer /\ heap' = heap /\ clock' = clock
      /\ expired_timers' = expired_timers /\ started' = started /\ armed' = armed
  BY DEF Call
<1>2. TypeInv /\ PlaceInv /\ ArmedInv
  BY DEF TimerInv
<1>3. Registered' = Registered
  BY <1>1 DEF Registered
<1>4. Len(expired_timers) \in Nat
  BY <1>2, SeqIs DEF PlaceInv
<1>5. called' \in 0 .. Len(expired_timers') /\ called' # Outside
  BY <1>1, <1>2, <1>4 DEF TypeInv, Outside
<1>6. TypeInv'
  BY <1>1, <1>2, <1>3, <1>5 DEF TypeInv
<1>7. PlaceInv'
  BY <1>1, <1>2, <1>3 DEF PlaceInv
<1> QED BY <1>5, <1>6, <1>7 DEF TimerInv, ArmedInv

\* timer_heap_timeout takes the expired timers off the heap.
LEMMA TimeoutTimer ==
  ASSUME MaxTime \in Nat, TimerInv, Timeout
  PROVE  TimerInv'
<1>1. TypeInv /\ PlaceInv /\ ArmedInv
  BY DEF TimerInv
<1>2. armed' = None /\ None \in Nat /\ timer' = timer /\ clock' = clock /\ called = Outside
  BY DEF Timeout, None
<1>3. Registered' = Registered
  BY <1>2 DEF Registered
<1>4. CASE heap = <<>>
  <2>1. heap' = heap /\ expired_timers' = expired_timers /\ called' = called /\ started' = started
    BY <1>4 DEF Timeout
  <2>2. TypeInv'
    BY <1>1, <1>2, <1>3, <2>1 DEF TypeInv
  <2>3. PlaceInv'
    BY <1>1, <1>2, <1>3, <2>1 DEF PlaceInv
  <2>4. ArmedInv'
    BY <1>1, <1>4, <2>1 DEF ArmedInv
  <2> QED BY <2>2, <2>3, <2>4 DEF TimerInv
<1>5. CASE heap # <<>>
  <2>1. PICK p : /\ p = PopExpired(heap, timer, clock)
                 /\ heap' = p.heap /\ expired_timers' = p.expired /\ called' = 0 /\ started' = clock
    BY <1>5 DEF Timeout
  <2>2. HeapOK(heap, timer) /\ Timed(timer)
    BY <1>1, TypeTimed DEF TypeInv, PlaceInv
  <2>3. Shared(p, timer, Range(heap))
    BY <2>1, <2>2, PopExpiredOK
  <2>4. Range(heap) = Registered
    BY <1>1, <1>2, EmptyHeap DEF PlaceInv, ArmedInv
  <2>5. PlaceInv'
    BY <1>2, <1>3, <2>1, <2>3, <2>4 DEF PlaceInv, Shared
  <2>6. called' # Outside /\ called' \in 0 .. Len(expired_timers')
    <3>1. Len(expired_timers') \in Nat
      BY <2>5, SeqIs DEF PlaceInv
    <3> QED BY <2>1, <3>1 DEF Outside
  <2>7. TypeInv'
    BY <1>1, <1>2, <1>3, <2>1, <2>6 DEF TypeInv
  <2> QED BY <2>5, <2>6, <2>7 DEF TimerInv, ArmedInv
<1> QED BY <1>4, <1>5

\* tmq_cancel_timer and tmq_resume_timer: a timer stays in its place.
LEMMA CanceledTimer ==
  ASSUME MaxTime \in Nat, TimerInv, NEW t, NEW canceled \in BOOLEAN, SetCanceled(t, canceled)
  PROVE  TimerInv'
<1>1. TypeInv /\ PlaceInv /\ ArmedInv
  BY DEF TimerInv
<1>2. /\ t \in Registered /\ t \in Timers /\ timer' = [timer EXCEPT ![t].canceled = canceled]
      /\ heap' = heap /\ expired_timers' = expired_timers /\ called' = called
      /\ started' = started /\ armed' = armed /\ clock' = clock
  BY DEF SetCanceled, Registered
<1>3. timer \in [Timers -> TimerRecords]
  BY <1>1 DEF TypeInv
<1>4. /\ timer' \in [Timers -> TimerRecords]
      /\ \A u \in Timers : timer'[u].expire = timer[u].expire /\ timer'[u].timeout = timer[u].timeout
      /\ \A u \in Timers : u # t => timer'[u] = timer[u]
  BY <1>2, <1>3 DEF TimerRecords
<1>5. timer'[t] # NoTimer
  <2> SUFFICES ASSUME timer'[t] = NoTimer PROVE FALSE
    OBVIOUS
  <2>1. timer'[t].expire = MaxTime + 100 /\ timer'[t].timeout = 0
    BY DEF NoTimer, None
  <2>2. timer[t].expire = MaxTime + 100 /\ timer[t].timeout = 0
    BY <1>2, <1>4, <2>1
  <2>3. timer[t].expire <= MaxTime + timer[t].timeout
    BY <1>1, <1>2 DEF TypeInv
  <2> QED BY <2>2, <2>3
<1>6. Registered' = Registered
  BY <1>2, <1>4, <1>5 DEF Registered
<1>7. TypeInv'
  <2>1. \A u \in Registered' : timer'[u].expire <= MaxTime + timer'[u].timeout
    BY <1>1, <1>4, <1>6 DEF TypeInv, Registered
  <2> QED BY <1>1, <1>2, <1>4, <2>1 DEF TypeInv
<1>8. PlaceInv'
  <2>1. Range(heap) \subseteq Timers
    BY <1>1 DEF PlaceInv, Registered
  <2>2. HeapOK(heap, timer')
    BY <1>1, <1>4, <2>1, HeapKeeps DEF PlaceInv
  <2> QED BY <1>1, <1>2, <1>6, <2>2 DEF PlaceInv
<1>9. ArmedInv'
  <2>1. heap # <<>> => heap[1] \in Timers
    BY <1>1, SeqIs DEF PlaceInv, HeapOK
  <2> QED BY <1>1, <1>2, <1>4, <2>1 DEF ArmedInv
<1> QED BY <1>7, <1>8, <1>9 DEF TimerInv

\* tmq_timer_heap_add: the timerfd is armed again for a new top.
LEMMA AddTimer ==
  ASSUME MaxTime \in Nat, TimerInv, NEW timeout \in Nat, NEW repeat \in BOOLEAN, Add(timeout, repeat)
  PROVE  TimerInv'
<1>1. TypeInv /\ PlaceInv /\ ArmedInv
  BY DEF TimerInv
<1>2. PICK t : t = CHOOSE u \in Timers : u \notin Registered
  OBVIOUS
<1>3. t \in Timers /\ t \notin Registered
  <2>1. Registered # Timers /\ Registered \subseteq Timers
    BY DEF Add, Registered
  <2>2. \E u \in Timers : u \notin Registered
    BY <2>1
  <2> QED BY <1>2, <2>2, Zenon
<1>4. PICK r : r = [expire |-> clock + timeout, timeout |-> timeout, repeat |-> repeat, canceled |-> FALSE]
  OBVIOUS
<1>5. PICK h : /\ timer' = [timer EXCEPT ![t] = r] /\ h = Insert(heap, timer', t) /\ heap' = h
               /\ armed' = IF h[1] = t THEN SetTimeout(clock + timeout, clock) ELSE armed
               /\ expired_timers' = expired_timers /\ called' = called
               /\ started' = started /\ clock' = clock
  BY <1>2, <1>4 DEF Add
<1>6. clock \in Nat /\ clock + timeout \in Nat /\ clock <= MaxTime
  BY <1>1 DEF TypeInv
<1>7. r \in TimerRecords /\ r.expire = clock + timeout /\ r.timeout = timeout
  BY <1>4, <1>6 DEF TimerRecords
<1>8. r.expire <= MaxTime + r.timeout
  BY <1>6, <1>7
<1>9. r # NoTimer
  <2> SUFFICES ASSUME r = NoTimer PROVE FALSE
    OBVIOUS
  <2>1. r.expire = MaxTime + 100 /\ r.timeout = 0
    BY DEF NoTimer, None
  <2> QED BY <1>8, <2>1
<1>10. /\ timer' \in [Timers -> TimerRecords] /\ timer'[t] = r
       /\ \A u \in Timers : u # t => timer'[u] = timer[u]
  BY <1>1, <1>3, <1>5, <1>7 DEF TypeInv
<1>11. Registered' = Registered \cup {t}
  BY <1>3, <1>9, <1>10 DEF Registered
<1>12. Range(heap) \subseteq Registered /\ Range(heap) \subseteq Timers /\ t \notin Range(heap)
  BY <1>1, <1>3 DEF PlaceInv, Registered
<1>13. HeapOK(heap, timer')
  <2>1. \A u \in Range(heap) : timer'[u].expire = timer[u].expire
    BY <1>10, <1>12
  <2> QED BY <1>1, <2>1, HeapKeeps DEF PlaceInv
<1>14. Timed(timer')
  BY <1>10, TypeTimed
<1>15. /\ HeapOK(h, timer') /\ Range(h) = Range(heap) \cup {t} /\ h # <<>>
       /\ h[1] # t => heap # <<>> /\ h[1] = heap[1]
  BY <1>3, <1>5, <1>12, <1>13, <1>14, InsertOK
<1>16. PlaceInv'
  <2>1. t \notin Range(expired_timers)
    BY <1>1, <1>3 DEF PlaceInv
  <2>2. Range(h) \cap Range(expired_timers) = {} /\ Range(h) \cup Range(expired_timers) = Registered'
    BY <1>1, <1>11, <1>15, <2>1 DEF PlaceInv
  <2> QED BY <1>1, <1>5, <1>15, <2>2 DEF PlaceInv
<1>17. armed \in Nat /\ armed' \in Nat
  BY <1>1, <1>5, <1>6, SetTimeoutIs DEF TypeInv
<1>18. TypeInv'
  <2>1. \A u \in Registered' : timer'[u].expire <= MaxTime + timer'[u].timeout
    <3> SUFFICES ASSUME NEW u \in Registered' PROVE timer'[u].expire <= MaxTime + timer'[u].timeout
      OBVIOUS
    <3>1. CASE u = t
      BY <1>8, <1>10, <3>1
    <3>2. CASE u # t
      <4>1. u \in Registered /\ u \in Timers
        BY <1>11, <3>2 DEF Registered
      <4> QED BY <1>1, <1>10, <3>2, <4>1 DEF TypeInv
    <3> QED BY <3>1, <3>2
  <2> QED BY <1>1, <1>5, <1>10, <1>17, <2>1 DEF TypeInv
<1>19. ArmedInv'
  <2> SUFFICES ASSUME called = Outside
               PROVE  expired_timers = <<>> /\ (armed' <= timer'[h[1]].expire \/ armed' <= clock + 1)
    BY <1>5, <1>15 DEF ArmedInv
  <2>1. expired_timers = <<>>
    BY <1>1 DEF ArmedInv
  <2>2. CASE h[1] = t
    BY <1>5, <1>6, <1>7, <1>10, <2>1, <2>2, SetTimeoutIs
  <2>3. CASE h[1] # t
    <3>1. heap # <<>> /\ h[1] = heap[1] /\ armed' = armed
      BY <1>5, <1>15, <2>3
    <3>2. heap[1] \in Timers
      BY <1>1, <3>1, SeqIs DEF PlaceInv, HeapOK
    <3>3. timer'[h[1]] = timer[heap[1]]
      BY <1>10, <2>3, <3>1, <3>2
    <3>4. armed <= timer[heap[1]].expire \/ armed <= clock + 1
      BY <1>1, <3>1 DEF ArmedInv
    <3> QED BY <2>1, <3>1, <3>3, <3>4
  <2> QED BY <2>2, <2>3
<1> QED BY <1>16, <1>18, <1>19 DEF TimerInv

\* The end of timer_heap_timeout: it arms the timerfd for the top, whoever was put back.
LEMMA RequeueTimer ==
  ASSUME MaxTime \in Nat, TimerInv, Requeue
  PROVE  TimerInv'
<1>1. TypeInv /\ PlaceInv /\ ArmedInv
  BY DEF TimerInv
<1>2. PICK expired, again :
        /\ expired = Range(expired_timers)
        /\ again = {t \in expired : timer[t].repeat /\ ~ timer[t].canceled}
  OBVIOUS
<1>a. /\ timer' = [t \in Timers |->
            IF t \notin expired THEN timer[t]
            ELSE IF t \in again THEN [timer[t] EXCEPT !.expire = started + timer[t].timeout]
            ELSE NoTimer]
      /\ heap' = PutBack(heap, timer', expired_timers, again)
      /\ armed' = IF heap' # <<>> THEN SetTimeout(timer'[heap'[1]].expire, clock) ELSE armed
      /\ expired_timers' = <<>> /\ called' = Outside /\ started' = started /\ clock' = clock
  <2> DEFINE e == Range(expired_timers)
             a == {t \in e : timer[t].repeat /\ ~ timer[t].canceled}
             tm == [t \in Timers |->
                     IF t \notin e THEN timer[t]
                     ELSE IF t \in a THEN [timer[t] EXCEPT !.expire = started + timer[t].timeout]
                     ELSE NoTimer]
             k == PutBack(heap, tm, expired_timers, a)
  <2>1. /\ timer' = tm /\ heap' = k
        /\ armed' = IF k # <<>> THEN SetTimeout(tm[k[1]].expire, clock) ELSE armed
        /\ expired_timers' = <<>> /\ called' = Outside /\ started' = started /\ clock' = clock
    BY Zenon DEF Requeue
  <2>2. e = expired /\ a = again
    BY <1>2
  <2> HIDE DEF e, a, k
  <2>3. tm = [t \in Timers |->
                IF t \notin expired THEN timer[t]
                ELSE IF t \in again THEN [timer[t] EXCEPT !.expire = started + timer[t].timeout]
                ELSE NoTimer]
    BY <2>2, Zenon
  <2> HIDE DEF tm
  <2>4. k = PutBack(heap, timer', expired_timers, again)
    BY <2>1, <2>2 DEF k
  <2>5. timer' = [t \in Timers |->
                    IF t \notin expired THEN timer[t]
                    ELSE IF t \in again THEN [timer[t] EXCEPT !.expire = started + timer[t].timeout]
                    ELSE NoTimer]
    BY <2>1, <2>3, Zenon
  <2>6. armed' = IF heap' # <<>> THEN SetTimeout(timer'[heap'[1]].expire, clock) ELSE armed
    BY <2>1
  <2>7. heap' = PutBack(heap, timer', expired_timers, again)
    BY <2>1, <2>4
  <2> QED BY <2>1, <2>5, <2>6, <2>7, Zenon
<1>3. PICK h : /\ h = PutBack(heap, timer', expired_timers, again) /\ heap' = h
               /\ armed' = IF h # <<>> THEN SetTimeout(timer'[h[1]].expire, clock) ELSE armed
               /\ expired_timers' = <<>> /\ called' = Outside
               /\ started' = started /\ clock' = clock
  <2>1. /\ heap' = PutBack(heap, timer', expired_timers, again)
        /\ armed' = IF heap' # <<>> THEN SetTimeout(timer'[heap'[1]].expire, clock) ELSE armed
        /\ expired_timers' = <<>> /\ called' = Outside /\ started' = started /\ clock' = clock
    BY <1>a, Zenon
  <2> QED BY <2>1
<1>4. timer \in [Timers -> TimerRecords] /\ started \in Nat /\ started <= MaxTime /\ clock \in Nat
  BY <1>1 DEF TypeInv
<1>5. expired \subseteq Registered /\ again \subseteq expired /\ expired \subseteq Timers
  BY <1>1, <1>2 DEF PlaceInv, Registered
<1>6. ASSUME NEW t \in Timers
      PROVE  /\ timer'[t] \in TimerRecords
             /\ t \notin expired => timer'[t] = timer[t]
             /\ t \in expired \ again => timer'[t] = NoTimer
             /\ t \in again => /\ timer'[t].repeat /\ timer'[t].expire <= MaxTime + timer'[t].timeout
  <2>1. CASE t \notin expired
    BY <1>a, <1>4, <1>5, <2>1
  <2>2. CASE t \in expired \ again
    <3>1. timer'[t] = NoTimer
      BY <1>a, <2>2
    <3>2. NoTimer \in TimerRecords
      BY DEF NoTimer, None, TimerRecords
    <3> QED BY <2>2, <3>1, <3>2
  <2>3. CASE t \in again
    <3>1. PICK r : r = timer[t] /\ r \in TimerRecords /\ r.repeat
      BY <1>2, <1>4, <2>3
    <3>2. timer'[t] = [r EXCEPT !.expire = started + r.timeout]
      BY <1>a, <1>5, <2>3, <3>1
    <3>3. r.timeout \in Nat /\ started + r.timeout \in Nat /\ started + r.timeout <= MaxTime + r.timeout
      BY <1>4, <3>1 DEF TimerRecords
    <3>4. /\ timer'[t] \in TimerRecords /\ timer'[t].repeat = r.repeat
          /\ timer'[t].expire = started + r.timeout /\ timer'[t].timeout = r.timeout
      BY <3>1, <3>2, <3>3 DEF TimerRecords
    <3> QED BY <1>5, <2>3, <3>1, <3>3, <3>4
  <2> QED BY <2>1, <2>2, <2>3
<1>7. timer' \in [Timers -> TimerRecords]
  <2>1. timer' = [t \in Timers |-> timer'[t]]
    BY <1>a
  <2> QED BY <1>6, <2>1
<1>8. Registered' = (Registered \ expired) \cup again
  <2>1. ASSUME NEW t \in again PROVE timer'[t] # NoTimer
    <3>1. timer'[t].repeat
      BY <1>5, <1>6
    <3>2. ~ NoTimer.repeat
      BY DEF NoTimer
    <3> QED BY <3>1, <3>2
  <2>2. ASSUME NEW t \in Timers PROVE t \in Registered' <=> t \in (Registered \ expired) \cup again
    <3>1. t \in Registered' <=> timer'[t] # NoTimer
      BY DEF Registered
    <3>2. t \in Registered <=> timer[t] # NoTimer
      BY DEF Registered
    <3> QED BY <1>5, <1>6, <2>1, <3>1, <3>2
  <2>3. Registered' \subseteq Timers /\ (Registered \ expired) \cup again \subseteq Timers
    BY <1>5 DEF Registered
  <2> QED BY <2>2, <2>3
<1>9. Range(heap) = Registered \ expired /\ Range(heap) \subseteq Timers /\ Range(heap) \cap expired = {}
  BY <1>1, <1>2 DEF PlaceInv, Registered
<1>10. HeapOK(heap, timer')
  <2>1. \A t \in Range(heap) : timer'[t].expire = timer[t].expire
    BY <1>6, <1>9
  <2> QED BY <1>1, <2>1, HeapKeeps DEF PlaceInv
<1>11. Timed(timer')
  BY <1>7, TypeTimed
<1>12. HeapOK(h, timer') /\ Range(h) = Range(heap) \cup again
  <2>1. expired_timers \in Seq(Timers) /\ Distinct(expired_timers)
    BY <1>1 DEF PlaceInv
  <2> QED BY <1>2, <1>3, <1>5, <1>9, <1>10, <1>11, <2>1, PutBackOK
<1>13. PlaceInv'
  BY <1>3, <1>8, <1>9, <1>12, EmptyHeap DEF PlaceInv
<1>14. h # <<>> => h[1] \in Timers /\ timer'[h[1]].expire \in Nat
  <2>1. h # <<>> => h[1] \in Timers
    BY <1>12, SeqIs DEF HeapOK
  <2> QED BY <1>11, <2>1 DEF Timed
<1>15. armed' \in Nat /\ (h # <<>> => armed' <= timer'[h[1]].expire \/ armed' <= clock + 1)
  BY <1>1, <1>3, <1>4, <1>14, SetTimeoutIs DEF TypeInv
<1>16. TypeInv'
  <2>1. ASSUME NEW u \in Registered' PROVE timer'[u].expire <= MaxTime + timer'[u].timeout
    <3>1. u \in Timers
      BY DEF Registered
    <3>2. CASE u \in again
      BY <1>6, <3>1, <3>2
    <3>3. CASE u \notin again
      <4>1. u \in Registered /\ u \notin expired
        BY <1>8, <3>3
      <4>2. timer'[u] = timer[u]
        BY <1>6, <3>1, <4>1
      <4> QED BY <1>1, <4>1, <4>2 DEF TypeInv
    <3> QED BY <3>2, <3>3
  <2>2. clock' \in 0 .. MaxTime /\ started' \in 0 .. MaxTime /\ called' = Outside
    BY <1>1, <1>3 DEF TypeInv
  <2> QED BY <1>7, <1>15, <2>1, <2>2 DEF TypeInv
<1>17. ArmedInv'
  BY <1>3, <1>15 DEF ArmedInv
<1> QED BY <1>13, <1>16, <1>17 DEF TimerInv

\* Nothing happens.
LEMMA StutterTimer ==
  ASSUME TimerInv, UNCHANGED timerVars
  PROVE  TimerInv'
<1>1. timer' = timer /\ heap' = heap /\ expired_timers' = expired_timers /\ called' = called
      /\ started' = started /\ armed' = armed /\ clock' = clock
  BY DEF timerVars
<1>2. Registered' = Registered
  BY <1>1 DEF Registered
<1> QED BY <1>1, <1>2 DEF TimerInv, TypeInv, PlaceInv, ArmedInv

\* The invariant implies the property.
LEMMA InvArmed ==
  ASSUME TimerInv
  PROVE  TimersArmed
<1> SUFFICES ASSUME called = Outside, ~ overrun, NEW t \in Registered
             PROVE  /\ \E i \in DOMAIN heap :
                         heap[i] = t /\ \A j \in DOMAIN heap : heap[j] = t => j = i
                    /\ armed <= timer[t].expire \/ armed <= clock + 1
  BY DEF TimersArmed
<1>1. TypeInv /\ PlaceInv /\ ArmedInv
  BY DEF TimerInv
<1>2. HeapOK(heap, timer) /\ Distinct(heap) /\ heap \in Seq(Timers) /\ Timed(timer)
  BY <1>1, TypeTimed DEF PlaceInv, HeapOK, TypeInv
<1>3. Range(heap) = Registered
  BY <1>1, EmptyHeap DEF PlaceInv, ArmedInv
<1>4. PICK i \in DOMAIN heap : heap[i] = t
  BY <1>3 DEF Range
<1>5. \A j \in DOMAIN heap : heap[j] = t => j = i
  BY <1>2, <1>4 DEF Distinct
<1>6. Before(timer, heap[1], t)
  BY <1>2, <1>4, TopLeast
<1>7. heap # <<>> /\ heap[1] \in Timers /\ t \in Timers
  BY <1>2, <1>4, SeqIs DEF Registered
<1>8. armed \in Nat /\ timer[heap[1]].expire \in Nat /\ timer[t].expire \in Nat
  BY <1>1, <1>2, <1>7 DEF TypeInv, Timed
<1>9. armed <= timer[heap[1]].expire \/ armed <= clock + 1
  BY <1>1, <1>7 DEF ArmedInv
<1>10. armed <= timer[t].expire \/ armed <= clock + 1
  BY <1>6, <1>8, <1>9 DEF Before
<1> QED BY <1>4, <1>5, <1>10

\* Every step preserves the invariant.
LEMMA NextTimer ==
  ASSUME TimerInv, [TimerNext]_timerVars
  PROVE  TimerInv'
<1>0. MaxTime \in Nat /\ Timeouts \subseteq Nat
  BY TimerAssumption
<1>1. CASE Tick
  BY <1>0, <1>1, TickTimer
<1>2. CASE Timeout
  BY <1>0, <1>2, TimeoutTimer
<1>3. CASE Call
  BY <1>0, <1>3, CallTimer
<1>4. CASE Requeue
  BY <1>0, <1>4, RequeueTimer
<1>5. ASSUME NEW timeout \in Timeouts, NEW repeat \in BOOLEAN, Add(timeout, repeat)
      PROVE  TimerInv'
  BY <1>0, <1>5, AddTimer
<1>6. ASSUME NEW t \in Cancelable, NEW canceled \in BOOLEAN, SetCanceled(t, canceled)
      PROVE  TimerInv'
  BY <1>0, <1>6, CanceledTimer
<1>7. CASE UNCHANGED timerVars
  BY <1>0, <1>7, StutterTimer
<1> QED BY <1>1, <1>2, <1>3, <1>4, <1>5, <1>6, <1>7 DEF TimerNext

\* Between two handlers every registered timer is in the heap once, and the timerfd
\* goes off no later than it expires, unless the heap has been written beyond its
\* memory (timer_swim, timer_sink, timer_heap_timeout).
THEOREM TimersArmedInvariance == TimerSpec => []TimersArmed
<1>1. TimerInit => TimerInv
  BY InitTimer, TimerAssumption
<1>2. TimerInv /\ [TimerNext]_timerVars => TimerInv'
  BY NextTimer
<1>3. TimerInv => TimersArmed
  BY InvArmed
<1> QED BY <1>1, <1>2, <1>3, PTL DEF TimerSpec

-----------------------------------------------------------------------------
(* The memory of the heap.                                                 *)

FewTimers == IsFiniteSet(Timers) /\ Cardinality(Timers) < TIMER_HEAP_INITIAL_SIZE

\* A heap has no more elements than there are timers.
LEMMA HeapFits ==
  ASSUME FewTimers, NEW h \in Seq(Timers), Distinct(h)
  PROVE  Fits(Len(h))
<1>1. PICK n \in Nat : n = Len(h) /\ h \in [1 .. n -> Timers] /\ DOMAIN h = 1 .. n
  BY SeqIs
<1>2. \A i, j \in 1 .. n : h[i] = h[j] => i = j
  BY <1>1 DEF Distinct
<1>3. h \in Injection(1 .. n, Timers)
  BY <1>1, <1>2 DEF Injection, IsInjective
<1>4. Cardinality(1 .. n) <= Cardinality(Timers)
  BY <1>3, FS_Injection DEF FewTimers
<1>5. Cardinality(1 .. n) = n
  <2>1. 1 \in Int /\ n \in Int
    OBVIOUS
  <2>2. Cardinality(1 .. n) = IF 1 > n THEN 0 ELSE n - 1 + 1
    BY <2>1, FS_Interval
  <2> QED BY <2>2
<1>6. Cardinality(Timers) \in Nat
  BY FS_CardinalityType DEF FewTimers
<1>7. n < TIMER_HEAP_INITIAL_SIZE /\ TIMER_HEAP_INITIAL_SIZE \in Nat
  BY <1>4, <1>5, <1>6, TimerAssumption DEF FewTimers
<1> QED BY <1>1, <1>7 DEF Fits, HeapBytes, PointerSize

\* With fewer timers than TIMER_HEAP_INITIAL_SIZE, 16 in the code, the heap keeps to
\* its memory.  With as many it does not: heap[16] lies beyond a block of 16 pointers,
\* and the realloc of timer_heap_insert takes a number of pointers for one of bytes
\* (mqtt_timer.c:97-107, 208).
THEOREM HeapSuffices ==
  ASSUME FewTimers
  PROVE  TimerSpec => []HeapInMemory
<1>1. TimerInit => TimerInv /\ HeapInMemory
  BY InitTimer, TimerAssumption DEF TimerInit, HeapInMemory
<1>2. TimerInv /\ HeapInMemory /\ [TimerNext]_timerVars => (TimerInv /\ HeapInMemory)'
  <2> SUFFICES ASSUME TimerInv, HeapInMemory, [TimerNext]_timerVars
               PROVE  TimerInv' /\ HeapInMemory'
    OBVIOUS
  <2>1. TimerInv'
    BY NextTimer
  <2>2. Fits(Len(heap'))
    <3>1. heap' \in Seq(Timers) /\ Distinct(heap')
      BY <2>1 DEF TimerInv, PlaceInv, HeapOK
    <3> QED BY <3>1, HeapFits
  <2>3. overrun' => ~ Fits(Len(heap'))
    <3>1. ~ overrun
      BY DEF HeapInMemory
    <3>2. CASE UNCHANGED overrun
      BY <3>1, <3>2
    <3>3. ASSUME NEW timeout \in Timeouts, NEW repeat \in BOOLEAN, Add(timeout, repeat)
          PROVE  overrun' => ~ Fits(Len(heap'))
      BY <3>3, Zenon DEF Add
    <3>4. CASE Requeue
      BY <3>4, Zenon DEF Requeue
    <3>5. CASE Tick \/ Timeout \/ Call \/ \E t \in Cancelable, canceled \in BOOLEAN : SetCanceled(t, canceled)
      BY <3>2, <3>5, Zenon DEF Tick, Timeout, Call, SetCanceled
    <3>6. CASE UNCHANGED timerVars
      BY <3>2, <3>6, Zenon DEF timerVars
    <3> QED BY <3>3, <3>4, <3>5, <3>6 DEF TimerNext
  <2> QED BY <2>1, <2>2, <2>3 DEF HeapInMemory
<1> QED BY <1>1, <1>2, PTL DEF TimerSpec

=============================================================================
