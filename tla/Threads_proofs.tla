--------------------------- MODULE Threads_proofs ---------------------------
(***************************************************************************)
(* Proofs about the threads that serve connections: the thread pool first, *)
(* then the IO threads.  The two share nothing but the lemmas on sequences *)
(* and are extended together.                                              *)
(***************************************************************************)
EXTENDS IoLoop, ThreadPool, TLAPS, SequenceTheorems, FiniteSetTheorems, FunctionTheorems,
        WellFoundedInduction

-----------------------------------------------------------------------------
(***************************************************************************)
(* Proofs about the thread pool, for every finite set of workers and every *)
(* number of tasks: tasks start in the order in which they were scheduled  *)
(* and none is lost (PoolFifo), and when thrdpool_destroy returns no       *)
(* thread of the pool is left that could still use it.                     *)
(*                                                                         *)
(* The first rests on MutexInv: who is in __msgqueue_swap holds get_mutex, *)
(* and the list to take from is empty all the while.  The second rests on  *)
(* ChainInv: every thread that has left is reached from pool->tid by the   *)
(* joins, so joining the last one is joining all of them.                  *)
(***************************************************************************)

PoolTypeOK ==
  /\ put_list \in Seq(Nat) /\ get_list \in Seq(Nat)
  /\ started \in Seq(Nat) /\ pended \in Seq(Nat)
  /\ get_mutex \in Workers \cup {NoThread} /\ tid \in Workers \cup {NoThread}
  /\ signals \in Nat /\ scheduled \in Nat /\ nthreads \in Int
  /\ nonblock \in BOOLEAN /\ terminate \in BOOLEAN
  /\ wpc \in [Workers -> {"new", "top", "get", "swap", "waiting", "leave", "joining", "exited"}]
  /\ joins \in [Workers -> Workers \cup {NoThread}]
  /\ dpc \in {"idle", "nonblock", "signalled", "waiting", "done"}

\* The workers that hold get_mutex; and the list is empty while one does.
MutexInv ==
  /\ \A w \in Workers : wpc[w] \in {"swap", "waiting"} <=> get_mutex = w
  /\ get_mutex # NoThread => get_list = <<>>

\* The threads that count in nthreads, and those that have given up theirs.
Running == {w \in Workers : wpc[w] \in {"top", "get", "swap", "waiting", "leave"}}
Gone == {w \in Workers : wpc[w] \in {"joining", "exited"}}

CountInv == nthreads = Cardinality(Running)

\* Nothing is pended before the pool is drained, and then no thread runs.
DoneInv ==
  /\ dpc # "done" => pended = <<>>
  /\ dpc = "done" => Running = {} /\ (tid # NoThread => wpc[tid] = "exited")

\* The joins lead from tid to every thread that has left: a set that contains tid
\* and, with a thread, the one it joins, contains them all.
Closed(S) == \A w \in S : joins[w] # NoThread => joins[w] \in S
ChainInv ==
  /\ tid # NoThread => tid \in Gone
  /\ tid = NoThread => Gone = {}
  /\ Closed(Gone)
  /\ \A w \in Workers : wpc[w] = "exited" /\ joins[w] # NoThread => wpc[joins[w]] = "exited"
  /\ \A S \in SUBSET Gone : tid \in S /\ Closed(S) => S = Gone

PoolInv == PoolTypeOK /\ MutexInv /\ CountInv /\ DoneInv /\ ChainInv /\ PoolFifo

\* When thrdpool_destroy returns, every thread that was created has exited, also
\* those that destroy did not join itself (thrdpool.c:73-85, 101-112).
AllJoined == dpc = "done" => \A w \in Workers : wpc[w] \in {"new", "exited"}
-----------------------------------------------------------------------------
(* Sequences.                                                              *)

\* A task moves from the head of a list to the end of what was started.
LEMMA MoveHead ==
  ASSUME NEW s \in Seq(Nat), NEW t \in Seq(Nat), t # <<>>
  PROVE  Append(s, Head(t)) \o Tail(t) = s \o t
<1>1. /\ Head(t) \in Nat /\ Tail(t) \in Seq(Nat) /\ Len(Tail(t)) = Len(t) - 1
      /\ Len(t) \in Nat \ {0} /\ Head(t) = t[1]
      /\ \A i \in 1 .. Len(Tail(t)) : Tail(t)[i] = t[i + 1]
  BY HeadTailProperties
<1>2. <<Head(t)>> \in Seq(Nat) /\ Len(<<Head(t)>>) = 1 /\ <<Head(t)>>[1] = t[1]
  BY <1>1
<1>3. <<Head(t)>> \o Tail(t) \in Seq(Nat) /\ Len(<<Head(t)>> \o Tail(t)) = Len(t)
  BY <1>1, <1>2, ConcatProperties
<1>4. ASSUME NEW i \in 1 .. Len(t)
      PROVE  (<<Head(t)>> \o Tail(t))[i] = t[i]
  <2>1. (<<Head(t)>> \o Tail(t))[i] = IF i <= 1 THEN <<Head(t)>>[i] ELSE Tail(t)[i - 1]
    BY <1>1, <1>2, ConcatProperties
  <2> QED BY <1>1, <1>2, <2>1
<1>5. <<Head(t)>> \o Tail(t) = t
  BY <1>3, <1>4, SeqEqual
<1>6. Append(s, Head(t)) = s \o <<Head(t)>>
  BY <1>1, AppendIsConcat
<1> QED BY <1>1, <1>2, <1>5, <1>6, ConcatAssociative

\* Appending to the second of two sequences.
LEMMA AppendAfter ==
  ASSUME NEW s \in Seq(Nat), NEW t \in Seq(Nat), NEW x \in Nat
  PROVE  s \o Append(t, x) = Append(s \o t, x)
<1>1. <<x>> \in Seq(Nat)
  OBVIOUS
<1>2. Append(t, x) = t \o <<x>> /\ Append(s \o t, x) = (s \o t) \o <<x>>
  BY AppendIsConcat, ConcatProperties
<1> QED BY <1>1, <1>2, ConcatAssociative

\* The next number at the end of the numbers so far.
LEMMA NextNumber ==
  ASSUME NEW s \in Seq(Nat), NEW t \in Seq(Nat), NEW n \in Nat,
         s \o t = [i \in 1 .. n |-> i]
  PROVE  s \o Append(t, n + 1) = [i \in 1 .. n + 1 |-> i]
<1>1. s \o Append(t, n + 1) = Append(s \o t, n + 1)
  <2>1. n + 1 \in Nat
    OBVIOUS
  <2> QED BY <2>1, AppendAfter, Zenon
<1>2. [i \in 1 .. n |-> i] \in Seq(Nat) /\ Len([i \in 1 .. n |-> i]) = n
  BY IsASeq, LenProperties
<1>3. Append([i \in 1 .. n |-> i], n + 1) = [i \in 1 .. n + 1 |-> i]
  BY <1>2, AppendProperties
<1> QED BY <1>1, <1>3

-----------------------------------------------------------------------------
(* The parts of PoolInv, one lemma each.                                   *)

\* The initial state satisfies the invariant.
LEMMA InitPool == PoolInit => PoolInv
<1> SUFFICES ASSUME PoolInit PROVE PoolInv
  OBVIOUS
<1> USE WorkersAssumption
<1>1. PoolTypeOK
  <2>1. put_list \in Seq(Nat) /\ get_list \in Seq(Nat) /\ started \in Seq(Nat) /\ pended \in Seq(Nat)
    BY EmptySeq DEF PoolInit
  <2>2. wpc \in [Workers -> {"new", "top", "get", "swap", "waiting", "leave", "joining", "exited"}]
    BY DEF PoolInit
  <2>3. joins \in [Workers -> Workers \cup {NoThread}]
    BY DEF PoolInit
  <2>4. /\ get_mutex \in Workers \cup {NoThread} /\ tid \in Workers \cup {NoThread}
        /\ nonblock \in BOOLEAN /\ terminate \in BOOLEAN
        /\ dpc \in {"idle", "nonblock", "signalled", "waiting", "done"}
    BY DEF PoolInit
  <2>5. signals \in Nat /\ scheduled \in Nat /\ nthreads \in Int
    BY DEF PoolInit
  <2> QED BY <2>1, <2>2, <2>3, <2>4, <2>5 DEF PoolTypeOK
<1>2. MutexInv
  BY DEF PoolInit, MutexInv
<1>3. Running = {} /\ Gone = {}
  BY DEF PoolInit, Running, Gone
<1>4. CountInv
  BY <1>3, FS_EmptySet DEF PoolInit, CountInv
<1>5. DoneInv
  BY DEF PoolInit, DoneInv
<1>6. ChainInv
  BY <1>3 DEF PoolInit, ChainInv, Closed
<1>7. PoolFifo
  <2>1. started \o pended \o get_list \o put_list = <<>>
    BY DEF PoolInit
  <2>2. scheduled = 0
    BY DEF PoolInit
  <2>3. [i \in 1 .. 0 |-> i] = <<>>
    OBVIOUS
  <2> QED BY <2>1, <2>2, <2>3 DEF PoolFifo
<1> QED BY <1>1, <1>2, <1>4, <1>5, <1>6, <1>7 DEF PoolInv

\* Every step preserves the types.
LEMMA TypeStep == PoolInv /\ [PoolNext]_poolVars => PoolTypeOK'
<1> SUFFICES ASSUME PoolInv, [PoolNext]_poolVars PROVE PoolTypeOK'
  OBVIOUS
<1> USE DEF PoolTypeOK
<1>1. PoolTypeOK /\ DoneInv
  BY DEF PoolInv
<1>2. CASE Schedule
  BY <1>1, <1>2, AppendProperties DEF Schedule
<1>3. CASE SignalGet
  BY <1>1, <1>3 DEF SignalGet, Woken
<1>4. CASE SetNonblock
  BY <1>1, <1>4 DEF SetNonblock
<1>5. CASE SignalNonblock
  BY <1>1, <1>5 DEF SignalNonblock, SignalAll, Woken
<1>6. CASE SetTerminate
  BY <1>1, <1>6 DEF SetTerminate
<1>7. CASE Drain
  <2>1. get_list \o put_list \in Seq(Nat)
    BY <1>1, ConcatProperties
  <2> QED BY <1>1, <1>7, <2>1 DEF Drain
<1>8. ASSUME NEW w \in Workers, Create(w) PROVE PoolTypeOK'
  BY <1>1, <1>8 DEF Create
<1>9. ASSUME NEW w \in Workers, Top(w) PROVE PoolTypeOK'
  BY <1>1, <1>9 DEF Top
<1>10. ASSUME NEW w \in Workers, TakeTask(w) PROVE PoolTypeOK'
  <2>1. Append(started, Head(get_list)) \in Seq(Nat) /\ Tail(get_list) \in Seq(Nat)
    BY <1>1, <1>10, HeadTailProperties, AppendProperties DEF TakeTask
  <2> QED BY <1>1, <1>10, <2>1 DEF TakeTask
<1>11. ASSUME NEW w \in Workers, EnterSwap(w) PROVE PoolTypeOK'
  BY <1>1, <1>11 DEF EnterSwap
<1>12. ASSUME NEW w \in Workers, SwapWaits(w) PROVE PoolTypeOK'
  BY <1>1, <1>12 DEF SwapWaits
<1>13. ASSUME NEW w \in Workers, Swap(w) PROVE PoolTypeOK'
  <2>1. started' \in Seq(Nat) /\ get_list' \in Seq(Nat)
    <3>1. CASE put_list = <<>>
      BY <1>1, <1>13, <3>1 DEF Swap
    <3>2. CASE put_list # <<>>
      BY <1>1, <1>13, <3>2, HeadTailProperties, AppendProperties DEF Swap
    <3> QED BY <3>1, <3>2
  <2> QED BY <1>1, <1>13, <2>1 DEF Swap
<1>14. ASSUME NEW w \in Workers, Leave(w) PROVE PoolTypeOK'
  BY <1>1, <1>14 DEF Leave
<1>15. ASSUME NEW w \in Workers, Exit(w) PROVE PoolTypeOK'
  BY <1>1, <1>15 DEF Exit
<1>16. CASE UNCHANGED poolVars
  BY <1>1, <1>16 DEF poolVars
<1> QED BY <1>2, <1>3, <1>4, <1>5, <1>6, <1>7, <1>8, <1>9, <1>10, <1>11, <1>12, <1>13, <1>14,
           <1>15, <1>16 DEF PoolNext, Routine, Terminate

\* Every step leaves at most one owner of the mutex.
LEMMA MutexStep == PoolInv /\ [PoolNext]_poolVars => MutexInv'
<1> SUFFICES ASSUME PoolInv, [PoolNext]_poolVars PROVE MutexInv'
  OBVIOUS
<1> USE WorkersAssumption DEF MutexInv
<1>1. PoolTypeOK /\ MutexInv
  BY DEF PoolInv
<1>2. wpc \in [Workers -> {"new", "top", "get", "swap", "waiting", "leave", "joining", "exited"}]
  BY <1>1 DEF PoolTypeOK
<1>3. CASE Schedule \/ SetNonblock \/ SetTerminate \/ UNCHANGED poolVars
  BY <1>1, <1>3 DEF Schedule, SetNonblock, SetTerminate, poolVars
<1>4. CASE SignalGet \/ SignalNonblock
  <2>1. wpc' = Woken /\ get_mutex' = get_mutex /\ get_list' = get_list
    BY <1>4 DEF SignalGet, SignalNonblock, SignalAll
  <2>2. \A w \in Workers : wpc'[w] \in {"swap", "waiting"} <=> wpc[w] \in {"swap", "waiting"}
    BY <2>1 DEF Woken
  <2> QED BY <1>1, <2>1, <2>2
<1>5. CASE Drain
  BY <1>1, <1>5 DEF Drain
<1>6. ASSUME NEW w \in Workers,
             Create(w) \/ Top(w) \/ TakeTask(w) \/ SwapWaits(w) \/ Leave(w) \/ Exit(w)
      PROVE  MutexInv'
  <2>1. get_mutex' = get_mutex /\ (get_list' = get_list \/ get_mutex = NoThread)
    BY <1>6 DEF Create, Top, TakeTask, SwapWaits, Leave, Exit, MayGet
  <2>2. \A v \in Workers : wpc'[v] \in {"swap", "waiting"} <=> wpc[v] \in {"swap", "waiting"}
    BY <1>2, <1>6 DEF Create, Top, TakeTask, SwapWaits, Leave, Exit
  <2> QED BY <1>1, <2>1, <2>2
<1>7. ASSUME NEW w \in Workers, EnterSwap(w)
      PROVE  MutexInv'
  BY <1>1, <1>2, <1>7 DEF EnterSwap, MayGet
<1>8. ASSUME NEW w \in Workers, Swap(w)
      PROVE  MutexInv'
  <2>1. get_mutex = w
    BY <1>1, <1>8 DEF Swap
  <2> QED BY <1>1, <1>2, <1>8, <2>1 DEF Swap
<1> QED BY <1>3, <1>4, <1>5, <1>6, <1>7, <1>8 DEF PoolNext, Routine, Terminate

\* A worker enters, or leaves, the set of those that run.
LEMMA RunningFinite == IsFiniteSet(Running)
BY WorkersAssumption, FS_Subset DEF Running

\* Every step preserves the counts.
LEMMA CountStep == PoolInv /\ [PoolNext]_poolVars => CountInv'
<1> SUFFICES ASSUME PoolInv, [PoolNext]_poolVars PROVE CountInv'
  OBVIOUS
<1> USE DEF CountInv
<1>1. CountInv
  BY DEF PoolInv
<1>2. wpc \in [Workers -> {"new", "top", "get", "swap", "waiting", "leave", "joining", "exited"}]
  BY DEF PoolInv, PoolTypeOK
<1>3. ASSUME nthreads' = nthreads, Running' = Running PROVE CountInv'
  BY <1>1, <1>3
<1>4. CASE Schedule \/ SetNonblock \/ SetTerminate \/ Drain \/ UNCHANGED poolVars
  BY <1>3, <1>4 DEF Schedule, SetNonblock, SetTerminate, Drain, poolVars, Running
<1>5. CASE SignalGet \/ SignalNonblock
  <2>1. nthreads' = nthreads /\ wpc' = Woken
    BY <1>5 DEF SignalGet, SignalNonblock, SignalAll
  <2>2. Running' = Running
    BY <1>2, <2>1 DEF Woken, Running
  <2> QED BY <1>3, <2>1, <2>2
<1>6. ASSUME NEW w \in Workers,
             Top(w) \/ TakeTask(w) \/ EnterSwap(w) \/ SwapWaits(w) \/ Swap(w) \/ Exit(w)
      PROVE  CountInv'
  <2>1. nthreads' = nthreads
    BY <1>6 DEF Top, TakeTask, EnterSwap, SwapWaits, Swap, Exit
  <2>2. Running' = Running
    BY <1>2, <1>6 DEF Top, TakeTask, EnterSwap, SwapWaits, Swap, Exit, Running
  <2> QED BY <1>3, <2>1, <2>2
<1>7. ASSUME NEW w \in Workers, Create(w)
      PROVE  CountInv'
  <2>1. Running' = Running \cup {w} /\ w \notin Running
    BY <1>2, <1>7 DEF Create, Running
  <2>2. Cardinality(Running') = Cardinality(Running) + 1
    BY <2>1, RunningFinite, FS_AddElement
  <2> QED BY <1>1, <1>7, <2>2 DEF Create
<1>8. ASSUME NEW w \in Workers, Leave(w)
      PROVE  CountInv'
  <2>1. Running' = Running \ {w} /\ w \in Running
    BY <1>2, <1>8 DEF Leave, Running
  <2>2. Cardinality(Running') = Cardinality(Running) - 1
    BY <2>1, RunningFinite, FS_RemoveElement
  <2> QED BY <1>1, <1>8, <2>2 DEF Leave
<1> QED BY <1>4, <1>5, <1>6, <1>7, <1>8 DEF PoolNext, Routine, Terminate

\* Every step preserves what is known of finished threads.
LEMMA DoneStep == PoolInv /\ [PoolNext]_poolVars => DoneInv'
<1> SUFFICES ASSUME PoolInv, [PoolNext]_poolVars PROVE DoneInv'
  OBVIOUS
<1> USE DEF DoneInv
<1>1. DoneInv /\ CountInv
  BY DEF PoolInv
<1>2. /\ wpc \in [Workers -> {"new", "top", "get", "swap", "waiting", "leave", "joining", "exited"}]
      /\ tid \in Workers \cup {NoThread}
  BY DEF PoolInv, PoolTypeOK
<1>3. CASE Schedule \/ SetNonblock \/ SetTerminate \/ UNCHANGED poolVars
  BY <1>1, <1>3 DEF Schedule, SetNonblock, SetTerminate, poolVars, Running
<1>4. CASE SignalGet \/ SignalNonblock
  <2>1. pended' = pended /\ tid' = tid /\ wpc' = Woken /\ (dpc' = "done" <=> dpc = "done")
    BY <1>4 DEF SignalGet, SignalNonblock, SignalAll
  <2>2. Running' = Running
    BY <1>2, <2>1 DEF Woken, Running
  <2> QED BY <1>1, <1>2, <2>1, <2>2 DEF Woken
<1>5. CASE Drain
  <2>1. Running = {}
    BY <1>1, <1>5, RunningFinite, FS_EmptySet DEF Drain, CountInv
  <2>2. /\ Running' = {} /\ dpc' = "done" /\ wpc' = wpc /\ tid' = tid
        /\ tid # NoThread => wpc[tid] = "exited"
    BY <1>5, <2>1 DEF Drain, Running
  <2> QED BY <2>2
<1>6. ASSUME NEW w \in Workers,
             Create(w) \/ Routine(w)
      PROVE  DoneInv'
  <2>1. pended' = pended /\ dpc' = dpc
    BY <1>6 DEF Create, Routine, Top, TakeTask, EnterSwap, SwapWaits, Swap, Leave, Exit
  <2>2. CASE dpc # "done"
    BY <1>1, <2>1, <2>2
  <2>3. CASE dpc = "done"
    <3>1. wpc[w] \notin {"top", "get", "swap", "waiting", "leave"}
      BY <1>1, <2>3 DEF Running
    <3>2. Exit(w)
      BY <1>6, <2>3, <3>1 DEF Create, Routine, Top, TakeTask, EnterSwap, SwapWaits, Swap, Leave
    <3>3. Running' = Running /\ tid' = tid
      BY <1>2, <3>2 DEF Exit, Running
    <3>4. tid # NoThread => wpc'[tid] = "exited"
      BY <1>1, <1>2, <2>3, <3>2 DEF Exit
    <3> QED BY <1>1, <2>1, <2>3, <3>3, <3>4
  <2> QED BY <2>2, <2>3
<1> QED BY <1>3, <1>4, <1>5, <1>6 DEF PoolNext, Terminate

\* A thread leaves: it becomes the head of the chain.
LEMMA ChainLeave ==
  ASSUME PoolInv, NEW w \in Workers, Leave(w)
  PROVE  ChainInv'
<1> USE WorkersAssumption
<1>1. ChainInv
  BY DEF PoolInv
<1>2. /\ wpc \in [Workers -> {"new", "top", "get", "swap", "waiting", "leave", "joining", "exited"}]
      /\ joins \in [Workers -> Workers \cup {NoThread}]
      /\ tid \in Workers \cup {NoThread}
  BY DEF PoolInv, PoolTypeOK
<1>3. /\ wpc' = [wpc EXCEPT ![w] = "joining"] /\ joins' = [joins EXCEPT ![w] = tid]
      /\ tid' = w /\ wpc[w] = "leave"
  BY DEF Leave
<1>4. w \notin Gone /\ Gone' = Gone \cup {w} /\ Gone \subseteq Workers
  BY <1>2, <1>3 DEF Gone
<1>5. joins'[w] = tid /\ \A v \in Workers : v # w => joins'[v] = joins[v] /\ wpc'[v] = wpc[v]
  BY <1>2, <1>3
<1>6. (tid # NoThread => tid \in Gone) /\ (tid = NoThread => Gone = {}) /\ Closed(Gone)
  BY <1>1 DEF ChainInv
<1>7. Closed(Gone)'
  BY <1>4, <1>5, <1>6 DEF Closed
<1>8. ASSUME NEW v \in Workers, wpc'[v] = "exited", joins'[v] # NoThread
      PROVE  wpc'[joins'[v]] = "exited"
  <2>1. v # w /\ wpc[v] = "exited" /\ joins'[v] = joins[v]
    BY <1>2, <1>3, <1>5, <1>8
  <2>2. wpc[joins[v]] = "exited" /\ joins[v] \in Workers
    BY <1>1, <1>2, <1>8, <2>1 DEF ChainInv
  <2> QED BY <1>3, <1>5, <2>1, <2>2
<1>9. ASSUME NEW S \in SUBSET Gone', tid' \in S, Closed(S)'
      PROVE  S = Gone'
  <2>1. w \in S
    BY <1>3, <1>9
  <2>2. CASE tid = NoThread
    BY <1>4, <1>6, <2>1, <2>2
  <2>3. CASE tid # NoThread
    <3> DEFINE T == S \ {w}
    <3>1. T \subseteq Gone
      BY <1>4
    <3>2. tid \in T
      BY <1>4, <1>5, <1>6, <1>9, <2>1, <2>3 DEF Closed
    <3>3. Closed(T)
      <4>1. SUFFICES ASSUME NEW v \in T, joins[v] # NoThread PROVE joins[v] \in T
        BY DEF Closed
      <4>2. joins'[v] = joins[v] /\ v \in Gone
        BY <1>4, <1>5, <3>1
      <4>3. joins[v] \in S
        BY <1>9, <4>1, <4>2 DEF Closed
      <4>4. joins[v] \in Gone
        BY <1>6, <4>1, <4>2 DEF Closed
      <4> QED BY <1>4, <4>3, <4>4
    <3>4. T = Gone
      BY <1>1, <3>1, <3>2, <3>3 DEF ChainInv
    <3> QED BY <1>4, <2>1, <3>4
  <2> QED BY <2>2, <2>3
<1>10. tid' # NoThread /\ tid' \in Gone'
  BY <1>3, <1>4
<1> QED BY <1>7, <1>8, <1>9, <1>10 DEF ChainInv

\* Every step preserves the chain of joins.
LEMMA ChainStep == PoolInv /\ [PoolNext]_poolVars => ChainInv'
<1> SUFFICES ASSUME PoolInv, [PoolNext]_poolVars PROVE ChainInv'
  OBVIOUS
<1>1. ChainInv
  BY DEF PoolInv
<1>2. /\ wpc \in [Workers -> {"new", "top", "get", "swap", "waiting", "leave", "joining", "exited"}]
      /\ joins \in [Workers -> Workers \cup {NoThread}]
  BY DEF PoolInv, PoolTypeOK
\* A step that lets no thread leave and makes none exit.
<1>3. ASSUME tid' = tid, joins' = joins, Gone' = Gone,
             \A v \in Workers : wpc'[v] = "exited" <=> wpc[v] = "exited"
      PROVE  ChainInv'
  <2>1. \A S : Closed(S)' <=> Closed(S)
    BY <1>3 DEF Closed
  <2>2. ASSUME NEW v \in Workers, wpc'[v] = "exited", joins'[v] # NoThread
        PROVE  wpc'[joins'[v]] = "exited"
    <3>1. wpc[joins[v]] = "exited" /\ joins[v] \in Workers
      BY <1>1, <1>2, <1>3, <2>2 DEF ChainInv
    <3> QED BY <1>3, <3>1
  <2>3. Closed(Gone)' /\ (tid' # NoThread => tid' \in Gone') /\ (tid' = NoThread => Gone' = {})
    BY <1>1, <1>3 DEF ChainInv, Closed
  <2>4. \A S \in SUBSET Gone' : tid' \in S /\ Closed(S)' => S = Gone'
    BY <1>1, <1>3, <2>1 DEF ChainInv
  <2> QED BY <2>2, <2>3, <2>4 DEF ChainInv
<1>4. CASE Schedule \/ SetNonblock \/ SetTerminate \/ Drain \/ UNCHANGED poolVars
  BY <1>3, <1>4 DEF Schedule, SetNonblock, SetTerminate, Drain, poolVars, Gone
<1>5. CASE SignalGet \/ SignalNonblock
  <2>1. tid' = tid /\ joins' = joins /\ wpc' = Woken
    BY <1>5 DEF SignalGet, SignalNonblock, SignalAll
  <2>2. Gone' = Gone /\ \A v \in Workers : wpc'[v] = "exited" <=> wpc[v] = "exited"
    BY <1>2, <2>1 DEF Woken, Gone
  <2> QED BY <1>3, <2>1, <2>2
<1>6. ASSUME NEW w \in Workers,
             Create(w) \/ Top(w) \/ TakeTask(w) \/ EnterSwap(w) \/ SwapWaits(w) \/ Swap(w)
      PROVE  ChainInv'
  <2>1. tid' = tid /\ joins' = joins
    BY <1>6 DEF Create, Top, TakeTask, EnterSwap, SwapWaits, Swap
  <2>2. Gone' = Gone /\ \A v \in Workers : wpc'[v] = "exited" <=> wpc[v] = "exited"
    BY <1>2, <1>6 DEF Create, Top, TakeTask, EnterSwap, SwapWaits, Swap, Gone
  <2> QED BY <1>3, <2>1, <2>2
<1>7. ASSUME NEW w \in Workers, Exit(w)
      PROVE  ChainInv'
  <2>1. /\ wpc' = [wpc EXCEPT ![w] = "exited"] /\ wpc[w] = "joining" /\ tid' = tid /\ joins' = joins
        /\ joins[w] # NoThread => wpc[joins[w]] = "exited"
    BY <1>7 DEF Exit
  <2>2. Gone' = Gone
    BY <1>2, <2>1 DEF Gone
  <2>3. \A S : Closed(S)' <=> Closed(S)
    BY <2>1 DEF Closed
  <2>4. ASSUME NEW v \in Workers, wpc'[v] = "exited", joins'[v] # NoThread
        PROVE  wpc'[joins'[v]] = "exited"
    <3>1. v = w \/ wpc[v] = "exited"
      BY <1>2, <2>1, <2>4
    <3>2. wpc[joins[v]] = "exited" /\ joins[v] \in Workers
      BY <1>1, <1>2, <2>1, <2>4, <3>1 DEF ChainInv
    <3> QED BY <1>2, <2>1, <3>2
  <2>5. Closed(Gone)' /\ (tid' # NoThread => tid' \in Gone') /\ (tid' = NoThread => Gone' = {})
    BY <1>1, <2>1, <2>2 DEF ChainInv, Closed
  <2>6. \A S \in SUBSET Gone' : tid' \in S /\ Closed(S)' => S = Gone'
    BY <1>1, <2>1, <2>2, <2>3 DEF ChainInv
  <2> QED BY <2>4, <2>5, <2>6 DEF ChainInv
<1>8. ASSUME NEW w \in Workers, Leave(w) PROVE ChainInv'
  BY <1>8, ChainLeave
<1> QED BY <1>4, <1>5, <1>6, <1>7, <1>8 DEF PoolNext, Routine, Terminate

\* Every step preserves the order of tasks.
LEMMA FifoStep == PoolInv /\ [PoolNext]_poolVars => PoolFifo'
<1> SUFFICES ASSUME PoolInv, [PoolNext]_poolVars PROVE PoolFifo'
  OBVIOUS
<1>1. PoolTypeOK /\ MutexInv /\ DoneInv /\ PoolFifo
  BY DEF PoolInv
<1>2. /\ put_list \in Seq(Nat) /\ get_list \in Seq(Nat) /\ started \in Seq(Nat)
      /\ pended \in Seq(Nat) /\ scheduled \in Nat
  BY <1>1 DEF PoolTypeOK
<1>3. (started \o get_list) \o put_list = started \o (get_list \o put_list)
  BY <1>2, ConcatAssociative, SMTT(60)
<1> DEFINE Numbers(n) == [i \in 1 .. n |-> i]
<1>4. ((started \o pended) \o get_list) \o put_list = Numbers(scheduled)
  BY <1>1 DEF PoolFifo
\* Before the pool is drained.
<1>5. ASSUME pended = <<>> PROVE (started \o get_list) \o put_list = Numbers(scheduled)
  <2>1. started \o pended = started
    BY <1>2, <1>5, ConcatEmptySeq
  <2> QED BY <1>4, <2>1
<1>6. ASSUME pended' = <<>>, started' \in Seq(Nat),
             (started' \o get_list') \o put_list' = Numbers(scheduled')
      PROVE  PoolFifo'
  <2>1. started' \o pended' = started'
    BY <1>6, ConcatEmptySeq
  <2> QED BY <1>6, <2>1 DEF PoolFifo
<1>7. CASE Schedule
  <2>1. (started \o pended) \o get_list \in Seq(Nat)
    BY <1>2, ConcatProperties
  <2>2. ((started \o pended) \o get_list) \o Append(put_list, scheduled + 1) = Numbers(scheduled + 1)
    BY <1>2, <1>4, <2>1, NextNumber
  <2> QED BY <1>7, <2>2 DEF Schedule, PoolFifo
<1>8. CASE Drain
  <2>1. pended = <<>>
    BY <1>1, <1>8 DEF Drain, DoneInv
  <2>2. started \o (get_list \o put_list) = Numbers(scheduled)
    BY <1>5, <2>1, <1>3
  <2>3. get_list \o put_list \in Seq(Nat) /\ started \o (get_list \o put_list) \in Seq(Nat)
    BY <1>2, ConcatProperties
  <2>4. ((started \o (get_list \o put_list)) \o <<>>) \o <<>> = started \o (get_list \o put_list)
    BY <2>3, ConcatEmptySeq
  <2>5. /\ started' = started /\ pended' = get_list \o put_list /\ get_list' = <<>> /\ put_list' = <<>>
        /\ scheduled' = scheduled
    BY <1>8 DEF Drain
  <2> QED BY <2>2, <2>4, <2>5 DEF PoolFifo
<1>9. ASSUME NEW w \in Workers, TakeTask(w) PROVE PoolFifo'
  <2>1. pended = <<>>
    BY <1>1, <1>9 DEF TakeTask, DoneInv, Running
  <2>2. /\ started' = Append(started, Head(get_list)) /\ get_list' = Tail(get_list)
        /\ put_list' = put_list /\ scheduled' = scheduled /\ pended' = pended /\ get_list # <<>>
    BY <1>9 DEF TakeTask
  <2>3. started' \o get_list' = started \o get_list
    BY <1>2, <2>2, MoveHead
  <2>4. started' \in Seq(Nat)
    BY <1>2, <2>2, HeadTailProperties, AppendProperties
  <2> QED BY <1>5, <1>6, <2>1, <2>2, <2>3, <2>4
<1>10. ASSUME NEW w \in Workers, Swap(w) PROVE PoolFifo'
  <2>1. pended = <<>>
    BY <1>1, <1>10 DEF Swap, DoneInv, Running
  <2>2. get_list = <<>>
    BY <1>1, <1>10, WorkersAssumption DEF Swap, MutexInv
  <2>3. started \o get_list = started
    BY <1>2, <2>2, ConcatEmptySeq
  <2>4. started \o put_list = Numbers(scheduled)
    BY <1>5, <2>1, <2>3
  <2>5. pended' = pended /\ scheduled' = scheduled /\ put_list' = <<>>
    BY <1>10 DEF Swap
  <2>6. CASE put_list = <<>>
    <3>1. started' = started /\ get_list' = <<>>
      BY <1>10, <2>6 DEF Swap
    <3>2. (started' \o get_list') \o put_list' = started \o put_list
      BY <2>2, <2>3, <2>5, <2>6, <3>1
    <3> QED BY <1>2, <1>6, <2>1, <2>4, <2>5, <3>1, <3>2
  <2>7. CASE put_list # <<>>
    <3>1. started' = Append(started, Head(put_list)) /\ get_list' = Tail(put_list)
      BY <1>10, <2>7 DEF Swap
    <3>2. started' \o get_list' = started \o put_list
      BY <1>2, <2>7, <3>1, MoveHead
    <3>3. started' \in Seq(Nat) /\ started \o put_list \in Seq(Nat)
      BY <1>2, <2>7, <3>1, HeadTailProperties, AppendProperties, ConcatProperties
    <3>4. (started \o put_list) \o <<>> = started \o put_list
      BY <3>3, ConcatEmptySeq
    <3> QED BY <1>6, <2>1, <2>4, <2>5, <3>2, <3>3, <3>4
  <2> QED BY <2>6, <2>7
<1>11. ASSUME UNCHANGED <<put_list, get_list, started, pended, scheduled>> PROVE PoolFifo'
  BY <1>1, <1>11 DEF PoolFifo
<1>12. CASE SignalGet \/ SignalNonblock \/ SetNonblock \/ SetTerminate \/ UNCHANGED poolVars
  BY <1>11, <1>12 DEF SignalGet, SignalNonblock, SetNonblock, SetTerminate, poolVars
<1>13. ASSUME NEW w \in Workers,
              Create(w) \/ Top(w) \/ EnterSwap(w) \/ SwapWaits(w) \/ Leave(w) \/ Exit(w)
       PROVE  PoolFifo'
  BY <1>11, <1>13 DEF Create, Top, EnterSwap, SwapWaits, Leave, Exit
<1> QED BY <1>7, <1>8, <1>9, <1>10, <1>12, <1>13 DEF PoolNext, Routine, Terminate

-----------------------------------------------------------------------------
\* PoolInv is an invariant of the pool.
THEOREM PoolInvariance == PoolSpec => []PoolInv
<1>1. PoolInv /\ [PoolNext]_poolVars => PoolInv'
  BY TypeStep, MutexStep, CountStep, DoneStep, ChainStep, FifoStep DEF PoolInv
<1> QED BY <1>1, InitPool, PTL DEF PoolSpec

\* The tasks that started, those that thrdpool_destroy hands to `pending', and those
\* in the two lists are the scheduled ones, in order (msgqueue.c:65-117).
THEOREM TasksInOrder == PoolSpec => []PoolFifo
<1>1. PoolInv => PoolFifo
  BY DEF PoolInv
<1> QED BY <1>1, PoolInvariance, PTL

\* When thrdpool_destroy returns and frees the pool, every thread of it has exited: the
\* threads joined each other in a chain whose last one destroy joins (thrdpool.c:73-112).
THEOREM NoThreadAfterDestroy == PoolSpec => []AllJoined
<1>1. PoolInv => AllJoined
  <2> SUFFICES ASSUME PoolInv, dpc = "done", NEW w \in Workers PROVE wpc[w] \in {"new", "exited"}
    BY DEF AllJoined
  <2>1. /\ wpc \in [Workers -> {"new", "top", "get", "swap", "waiting", "leave", "joining", "exited"}]
        /\ joins \in [Workers -> Workers \cup {NoThread}]
    BY DEF PoolInv, PoolTypeOK
  <2>2. Running = {} /\ (tid # NoThread => wpc[tid] = "exited") /\ ChainInv
    BY DEF PoolInv, DoneInv
  <2> DEFINE E == {v \in Workers : wpc[v] = "exited"}
  <2>3. E \subseteq Gone
    BY DEF Gone
  <2>4. Closed(E)
    BY <2>1, <2>2 DEF ChainInv, Closed
  <2>5. Gone = E \/ Gone = {}
    <3>1. CASE tid = NoThread
      BY <2>2, <3>1 DEF ChainInv
    <3>2. CASE tid # NoThread
      <4>1. tid \in E
        BY <2>2, <3>2 DEF ChainInv, Gone
      <4> QED BY <2>2, <2>3, <2>4, <4>1 DEF ChainInv
    <3> QED BY <3>1, <3>2
  <2>6. w \notin Running /\ (w \in Gone => w \in E)
    BY <2>2, <2>5
  <2> QED BY <2>1, <2>6 DEF Running, Gone
<1> QED BY <1>1, PoolInvariance, PTL

-----------------------------------------------------------------------------
(***************************************************************************)
(* The memory safety of an IO thread: the count of a connection is the     *)
(* number of its holders, so that a connection in use is never freed; no   *)
(* mail is left in a mailbox without a wakeup to come; and the bytes of a  *)
(* connection reach the kernel in order and without a gap.  All for any    *)
(* set of connections and any number of mails, bytes and rounds.           *)
(*                                                                         *)
(* Every callback is shown to keep the balance of a connection - its count *)
(* minus its holders - and never to lose a handler before the end of the   *)
(* round: an unregistered one is still counted as being removed.  So a     *)
(* connection with a handler in the list the round works off has a count   *)
(* of one at least.                                                        *)
(*                                                                         *)
(* The output rests on lemmas about the buffer: appending puts the bytes   *)
(* behind what its chunks hold, removing drops as many of its first bytes  *)
(* as are peeked.  What the chunks hold is defined by a recursion, which   *)
(* is unfolded by induction over a set of numbers.                         *)
(***************************************************************************)

Names == {"read", "error", "write"}
Fields == {"state", "kind", "handlers", "removing", "in_map", "held", "ref_cnt", "is_writing",
           "out", "sock", "written", "shut"}
Open == {"SSL_HANDSHAKING", "CONNECTED", "DISCONNECTING"}
States == Open \cup {"NONE", "DISCONNECTED", "FREED"}

\* Everything that holds a connection but the mails on their way to it.
One(b) == IF b THEN 1 ELSE 0
Holders(k) == Len(k.handlers) + k.removing + One(k.in_map) + One(k.held)

\* The handlers of a connection that a round may still have in its list.
Handlers(k) == Len(k.handlers) + k.removing

ConnOK(k) ==
  /\ DOMAIN k = Fields
  /\ k.state \in States
  /\ k.handlers \in Seq(Names) /\ k.removing \in Nat /\ k.ref_cnt \in Int
  /\ k.in_map \in BOOLEAN /\ k.held \in BOOLEAN
  /\ k.state \in Open => k.in_map
  /\ k.ref_cnt = 0 <=> k.state \in {"NONE", "FREED"}

ConnInv == DOMAIN conn = Conns /\ \A c \in Conns : ConnOK(conn[c])

\* The mailboxes.
Pending == "pending_tcp_connections"
Packets == "packet_sending_tasks"
PendingMails == [box : {Pending}, conn : Conns, kind : Kinds]
PacketMails == [box : {Packets}, conn : Conns, kind : {"mqtt"}]

BoxInv ==
  /\ DOMAIN mailbox = Boxes
  /\ mailbox[Pending] \in Seq(PendingMails) /\ mailbox[Packets] \in Seq(PacketMails)
  /\ mails \in Seq(PendingMails \cup PacketMails)
  /\ owed \in [Boxes -> Nat] /\ pipe \in [Boxes -> BOOLEAN]
  /\ swapping \in Boxes \cup {None}
  /\ swapping # None => mails = <<>>

\* A connection that waits to be created does not exist, and waits once.
PendInv ==
  LET box == mailbox[Pending] IN
  /\ \A i \in DOMAIN mails : mails[i].box = Pending => conn[mails[i].conn].state = "NONE"
  /\ \A i \in DOMAIN box : conn[box[i].conn].state = "NONE"
  /\ \A i, j \in DOMAIN mails : mails[i].box = Pending /\ mails[j].box = Pending
                                  /\ mails[i].conn = mails[j].conn => i = j
  /\ \A i, j \in DOMAIN box : box[i].conn = box[j].conn => i = j
  /\ \A i \in DOMAIN mails, j \in DOMAIN box : mails[i].box = Pending => mails[i].conn # box[j].conn

\* The handlers that the round still has to call: those of a connection are
\* registered, or removed in this round.
Entries == [of : Conns, handler : Names, events : SUBSET {"IN", "OUT", "ERR", "HUP", "RDHUP"}]
             \cup [of : Boxes \cup {"timer_fd"}, handler : {"wakeup", "timeout"}, events : {{"IN"}}]
Listed(c) == \E hs \in reported \cup {active} : \E i \in DOMAIN hs : hs[i].of = c

ListInv == active \in Seq(Entries) /\ reported \subseteq Seq(Entries)
EntryInv == \A c \in Conns : Listed(c) => Handlers(conn[c]) >= 1

RefInv == \A c \in Conns : conn[c].ref_cnt = Holders(conn[c]) + MailsFor(c)

IoInv == ConnInv /\ BoxInv /\ PendInv /\ ListInv /\ EntryInv /\ RefInv /\ NoStrandedMail
-----------------------------------------------------------------------------
(* Numbers.                                                                *)

\* The least number of a set.
LEMMA LeastIn ==
  ASSUME NEW S, S \subseteq Nat, S # {}
  PROVE  \E x \in S : \A y \in S : x <= y
<1> DEFINE R == {ss \in Nat \X Nat : ss[1] < ss[2]}
<1>1. IsWellFoundedOn(R, Nat)
  BY NatLessThanWellFounded DEF OpToRel
<1>2. PICK x \in S : \A y \in S : ~ (<<y, x>> \in R)
  <2> HIDE DEF R
  <2> QED BY <1>1, WFMin
<1>3. \A y \in S : x <= y
  <2> SUFFICES ASSUME NEW y \in S, y < x PROVE FALSE
    OBVIOUS
  <2>1. <<y, x>> \in Nat \X Nat /\ <<y, x>>[1] = y /\ <<y, x>>[2] = x
    OBVIOUS
  <2> QED BY <1>2, <2>1
<1> QED BY <1>3

\* Induction over the natural numbers, for a set of them.
LEMMA NatInductive ==
  ASSUME NEW T, 0 \in T, \A n \in Nat : n \in T => n + 1 \in T
  PROVE  \A n \in Nat : n \in T
<1> SUFFICES ASSUME Nat \ T # {} PROVE FALSE
  OBVIOUS
<1>1. PICK m \in Nat \ T : \A y \in Nat \ T : m <= y
  BY LeastIn
<1>2. m - 1 \in Nat /\ (m - 1) + 1 = m
  OBVIOUS
<1>3. m - 1 \in Nat \ T
  BY <1>2
<1> QED BY <1>1, <1>3

-----------------------------------------------------------------------------
(* Lists of handlers.                                                      *)

\* The smallest of a non-empty set of places.
LEMMA MinIn ==
  ASSUME NEW S, S \subseteq Nat, S # {}
  PROVE  Min(S) \in S
<1>1. PICK x \in S : \A y \in S : x <= y
  BY LeastIn
<1> QED BY <1>1 DEF Min

\* A list without its first h.
LEMMA RemoveFirstFacts ==
  ASSUME NEW s \in Seq(Names), NEW h
  PROVE  /\ RemoveFirst(s, h) \in Seq(Names)
         /\ Len(RemoveFirst(s, h)) = IF \E i \in DOMAIN s : s[i] = h THEN Len(s) - 1 ELSE Len(s)
<1>0. Len(s) \in Nat /\ DOMAIN s = 1 .. Len(s) /\ \A i \in 1 .. Len(s) : s[i] \in Names
  BY LenProperties, ElementOfSeq
<1>1. CASE ~ \E i \in 1 .. Len(s) : s[i] = h
  BY <1>0, <1>1 DEF RemoveFirst
<1>2. CASE \E i \in 1 .. Len(s) : s[i] = h
  <2> DEFINE I == {i \in 1 .. Len(s) : s[i] = h}
  <2>1. Min(I) \in I
    <3>1. I \subseteq Nat /\ I # {}
      BY <1>0, <1>2
    <3> HIDE DEF I
    <3> QED BY <3>1, MinIn
  <2>2. RemoveFirst(s, h) = RemoveAt(s, Min(I))
    BY <1>2 DEF RemoveFirst, SelectInSeq
  <2> HIDE DEF I
  <2>3. PICK k \in 1 .. Len(s) : k = Min(I)
    BY <2>1 DEF I
  <2>4. k \in Nat /\ k >= 1 /\ k <= Len(s)
    BY <1>0
  <2>5. SubSeq(s, 1, k - 1) \in Seq(Names) /\ Len(SubSeq(s, 1, k - 1)) = k - 1
    <3>1. \A i \in 1 .. k - 1 : s[i] \in Names
      BY <1>0, <2>4
    <3>2. 1 \in Int /\ k - 1 \in Int
      BY <2>4
    <3> QED BY <2>4, <3>1, <3>2, SubSeqProperties
  <2>6. SubSeq(s, k + 1, Len(s)) \in Seq(Names) /\ Len(SubSeq(s, k + 1, Len(s))) = Len(s) - k
    <3>1. \A i \in k + 1 .. Len(s) : s[i] \in Names
      BY <1>0, <2>4
    <3>2. k + 1 \in Int /\ Len(s) \in Int
      BY <1>0, <2>4
    <3>3. /\ SubSeq(s, k + 1, Len(s)) \in Seq(Names)
          /\ Len(SubSeq(s, k + 1, Len(s))) = IF k + 1 <= Len(s) THEN Len(s) - (k + 1) + 1 ELSE 0
      <4>1. PICK a \in Int, b \in Int : a = k + 1 /\ b = Len(s)
        BY <3>2
      <4>2. \A i \in a .. b : s[i] \in Names
        BY <3>1, <4>1
      <4>3. SubSeq(s, a, b) \in Seq(Names) /\ Len(SubSeq(s, a, b)) = IF a <= b THEN b - a + 1 ELSE 0
        BY <4>2, SubSeqProperties
      <4> QED BY <4>1, <4>3
    <3>4. (IF k + 1 <= Len(s) THEN Len(s) - (k + 1) + 1 ELSE 0) = Len(s) - k
      <4>1. PICK n \in Nat : n = Len(s)
        BY <1>0
      <4>2. (IF k + 1 <= n THEN n - (k + 1) + 1 ELSE 0) = n - k
        BY <2>4, <4>1
      <4> QED BY <4>1, <4>2
    <3>5. Len(SubSeq(s, k + 1, Len(s))) = Len(s) - k
      BY <3>3, <3>4
    <3> QED BY <3>3, <3>5
  <2>7. PICK a \in Seq(Names), b \in Seq(Names) :
          a = SubSeq(s, 1, k - 1) /\ b = SubSeq(s, k + 1, Len(s))
    BY <2>5, <2>6
  <2>8. a \o b \in Seq(Names) /\ Len(a \o b) = Len(a) + Len(b)
    BY ConcatProperties
  <2>9. RemoveFirst(s, h) = a \o b
    BY <2>2, <2>3, <2>7 DEF RemoveAt
  <2>10. Len(a) = k - 1
    BY <2>5, <2>7, Zenon
  <2>11. Len(b) = Len(s) - k
    BY <2>6, <2>7, Zenon
  <2>12. Len(a) + Len(b) = Len(s) - 1
    BY <1>0, <2>4, <2>10, <2>11
  <2>13. \E i \in DOMAIN s : s[i] = h
    BY <1>0, <1>2
  <2> QED BY <2>8, <2>9, <2>12, <2>13
<1> QED BY <1>1, <1>2

-----------------------------------------------------------------------------
(* Counting mails.                                                         *)

\* The elements of a sequence with one more, and of one without its first.
LEMMA SeqFacts ==
  ASSUME NEW S, NEW s \in Seq(S)
  PROVE  /\ Len(s) \in Nat /\ DOMAIN s = 1 .. Len(s) /\ \A i \in 1 .. Len(s) : s[i] \in S
         /\ \A x \in S : /\ Append(s, x) \in Seq(S) /\ DOMAIN Append(s, x) = 1 .. Len(s) + 1
                         /\ \A i \in 1 .. Len(s) : Append(s, x)[i] = s[i]
                         /\ Append(s, x)[Len(s) + 1] = x
         /\ s # <<>> => /\ Tail(s) \in Seq(S) /\ DOMAIN Tail(s) = 1 .. Len(s) - 1 /\ Len(s) >= 1
                        /\ \A i \in 1 .. Len(s) - 1 : Tail(s)[i] = s[i + 1]
                        /\ Head(s) = s[1] /\ s[1] \in S
<1>1. Len(s) \in Nat /\ DOMAIN s = 1 .. Len(s) /\ \A i \in 1 .. Len(s) : s[i] \in S
  BY LenProperties, ElementOfSeq
<1>2. ASSUME NEW x \in S
      PROVE  /\ Append(s, x) \in Seq(S) /\ DOMAIN Append(s, x) = 1 .. Len(s) + 1
             /\ \A i \in 1 .. Len(s) : Append(s, x)[i] = s[i]
             /\ Append(s, x)[Len(s) + 1] = x
  BY AppendProperties, LenProperties
<1>3. ASSUME s # <<>>
      PROVE  /\ Tail(s) \in Seq(S) /\ DOMAIN Tail(s) = 1 .. Len(s) - 1 /\ Len(s) >= 1
             /\ \A i \in 1 .. Len(s) - 1 : Tail(s)[i] = s[i + 1]
             /\ Head(s) = s[1] /\ s[1] \in S
  <2>1. Len(s) >= 1
    BY <1>1, <1>3, EmptySeq
  <2>2. Tail(s) \in Seq(S) /\ Len(Tail(s)) = Len(s) - 1 /\ \A i \in 1 .. Len(Tail(s)) : Tail(s)[i] = s[i + 1]
    BY <1>3, HeadTailProperties
  <2>3. DOMAIN Tail(s) = 1 .. Len(s) - 1
    BY <2>2, LenProperties
  <2>4. Head(s) = s[1] /\ s[1] \in S
    BY <1>1, <2>1
  <2> QED BY <2>1, <2>2, <2>3, <2>4
<1> QED BY <1>1, <1>2, <1>3

LEMMA CountType ==
  ASSUME NEW S, NEW s \in Seq(S), NEW x
  PROVE  /\ IsFiniteSet({i \in DOMAIN s : s[i] = x})
         /\ Count(s, x) \in Nat
         /\ Count(<<>>, x) = 0
         /\ (\A i \in DOMAIN s : s[i] # x) => Count(s, x) = 0
         /\ (\E i \in DOMAIN s : s[i] = x) => Count(s, x) >= 1
<1> DEFINE T == {i \in DOMAIN s : s[i] = x}
<1>1. IsFiniteSet(T)
  <2>1. IsFiniteSet(1 .. Len(s)) /\ DOMAIN s = 1 .. Len(s)
    BY FS_Interval, SeqFacts
  <2> QED BY <2>1, FS_Subset
<1>2. Cardinality(T) \in Nat
  BY <1>1, FS_CardinalityType
<1>3. {i \in DOMAIN <<>> : <<>>[i] = x} = {}
  OBVIOUS
<1>4. Count(<<>>, x) = 0
  BY <1>3, FS_EmptySet DEF Count
<1>5. T = {} <=> Cardinality(T) = 0
  BY <1>1, FS_EmptySet
<1> QED BY <1>1, <1>2, <1>4, <1>5 DEF Count

LEMMA CountAppend ==
  ASSUME NEW S, NEW s \in Seq(S), NEW x, NEW y \in S
  PROVE  Count(Append(s, y), x) = Count(s, x) + IF y = x THEN 1 ELSE 0
<1> DEFINE T == {i \in DOMAIN s : s[i] = x}
           r == Append(s, y)
           n == Len(s) + 1
           U == {i \in DOMAIN r : r[i] = x}
<1>1. IsFiniteSet(T) /\ Cardinality(T) \in Nat
  BY CountType, FS_CardinalityType
<1>2. /\ Len(s) \in Nat /\ DOMAIN s = 1 .. Len(s) /\ DOMAIN r = 1 .. n
      /\ r[n] = y /\ \A i \in 1 .. Len(s) : r[i] = s[i]
  BY SeqFacts
<1> HIDE DEF r
<1>3. CASE y = x
  <2>1. U = T \cup {n} /\ n \notin T
    BY <1>2, <1>3
  <2>2. Cardinality(U) = Cardinality(T) + 1
    <3> HIDE DEF U, T, n
    <3> QED BY <1>1, <2>1, FS_AddElement
  <2> QED BY <1>3, <2>2 DEF Count, r
<1>4. CASE y # x
  <2>1. U = T
    BY <1>2, <1>4
  <2>2. Cardinality(U) = Cardinality(T) + 0
    <3> HIDE DEF U, T
    <3> QED BY <1>1, <2>1
  <2> QED BY <1>4, <2>2 DEF Count, r
<1> QED BY <1>3, <1>4

LEMMA CountTail ==
  ASSUME NEW S, NEW s \in Seq(S), NEW x, s # <<>>
  PROVE  Count(s, x) = Count(Tail(s), x) + IF Head(s) = x THEN 1 ELSE 0
<1> DEFINE r == Tail(s)
           T == {i \in DOMAIN r : r[i] = x}
           U == {i \in DOMAIN s : s[i] = x}
           V == U \ {1}
           f == [i \in T |-> i + 1]
<1>1. /\ Len(s) \in Nat /\ Len(s) >= 1 /\ DOMAIN s = 1 .. Len(s) /\ DOMAIN r = 1 .. Len(s) - 1
      /\ r \in Seq(S) /\ Head(s) = s[1] /\ \A i \in 1 .. Len(s) - 1 : r[i] = s[i + 1]
  BY SeqFacts
<1> HIDE DEF r
<1>2. IsFiniteSet(T) /\ IsFiniteSet(U)
  <2>1. IsFiniteSet(T)
    <3>1. r \in Seq(S)
      BY <1>1
    <3> QED BY <3>1, CountType
  <2>2. IsFiniteSet(U)
    BY CountType
  <2> QED BY <2>1, <2>2
<1>3. f \in Bijection(T, V)
  <2>1. f \in [T -> V]
    BY <1>1
  <2>2. \A i, j \in T : f[i] = f[j] => i = j
    BY <1>1
  <2>3. \A v \in V : \E i \in T : f[i] = v
    <3> SUFFICES ASSUME NEW v \in V PROVE v - 1 \in T /\ f[v - 1] = v
      OBVIOUS
    <3>1. v \in 2 .. Len(s) /\ s[v] = x
      BY <1>1
    <3>2. v - 1 \in 1 .. Len(s) - 1 /\ (v - 1) + 1 = v
      BY <1>1, <3>1
    <3>3. r[v - 1] = x
      BY <1>1, <3>1, <3>2
    <3>4. v - 1 \in T
      BY <1>1, <3>2, <3>3
    <3> QED BY <3>2, <3>4
  <2> HIDE DEF T, V, f
  <2> QED BY <2>1, <2>2, <2>3, Fun_IsBij
<1>4. Cardinality(V) = Cardinality(T) /\ Cardinality(T) \in Nat
  <2> HIDE DEF T, V, f
  <2>1. ExistsBijection(T, V)
    BY <1>3 DEF ExistsBijection
  <2> QED BY <1>2, <2>1, FS_Bijection, FS_CardinalityType
<1>5. Cardinality(V) = IF 1 \in U THEN Cardinality(U) - 1 ELSE Cardinality(U)
  <2> HIDE DEF U
  <2> QED BY <1>2, FS_RemoveElement
<1>6. 1 \in U <=> Head(s) = x
  BY <1>1
<1>7. Cardinality(U) \in Nat
  BY <1>2, FS_CardinalityType
<1> HIDE DEF U, T, V, f
<1>8. Cardinality(U) = Cardinality(T) + IF Head(s) = x THEN 1 ELSE 0
  BY <1>4, <1>5, <1>6, <1>7
<1> QED BY <1>8 DEF Count, U, T, r

-----------------------------------------------------------------------------
(* What a callback does to the connection it is called for.                *)

Bal(k) == k.ref_cnt - Holders(k)

Alive(k) == ConnOK(k) /\ k.ref_cnt >= 1

\* It keeps the balance, and the handlers that the round may have in its list.
Step(k, r) == ConnOK(r) /\ r.state # "NONE" /\ Bal(r) = Bal(k) /\ Handlers(r) >= Handlers(k)

\* The lengths and counts of a connection are numbers.
LEMMA Numbers ==
  ASSUME NEW k, ConnOK(k)
  PROVE  /\ Len(k.handlers) \in Nat /\ k.removing \in Nat /\ k.ref_cnt \in Int
         /\ One(k.in_map) \in Nat /\ One(k.held) \in Nat
         /\ Holders(k) \in Nat /\ Handlers(k) \in Nat /\ Bal(k) \in Int
         /\ Holders(k) >= Handlers(k)
<1>1. Len(k.handlers) \in Nat /\ k.removing \in Nat /\ k.ref_cnt \in Int
  BY LenProperties DEF ConnOK
<1>2. One(k.in_map) \in Nat /\ One(k.held) \in Nat
  BY DEF One
<1>3. Holders(k) \in Nat /\ Handlers(k) \in Nat
  BY <1>1, <1>2 DEF Holders, Handlers
<1>4. Holders(k) >= Handlers(k)
  BY <1>1, <1>2 DEF Holders, Handlers
<1>5. Bal(k) \in Int
  BY <1>1, <1>3 DEF Bal
<1> QED BY <1>1, <1>2, <1>3, <1>4, <1>5

LEMMA Ones == One(TRUE) = 1 /\ One(FALSE) = 0
BY DEF One

\* Two callbacks, one after the other.
LEMMA StepTrans ==
  ASSUME NEW k, NEW r, NEW q, ConnOK(k), Step(k, r), Step(r, q)
  PROVE  Step(k, q)
<1>1. Handlers(k) \in Nat /\ Handlers(r) \in Nat /\ Handlers(q) \in Nat
  BY Numbers DEF Step
<1> QED BY <1>1 DEF Step

\* What no holder and no count depends on.
LEMMA SameStep ==
  ASSUME NEW k, NEW r, Alive(k), DOMAIN r = Fields,
         r.handlers = k.handlers, r.removing = k.removing, r.ref_cnt = k.ref_cnt,
         r.in_map = k.in_map, r.held = k.held,
         r.state = k.state \/ (k.state \in Open /\ r.state \in Open)
  PROVE  Step(k, r) /\ Alive(r)
<1>1. ConnOK(r) /\ r.state # "NONE"
  BY DEF Alive, ConnOK, Open, States
<1>2. Handlers(r) = Handlers(k) /\ Bal(r) = Bal(k) /\ Handlers(k) \in Nat
  BY Numbers DEF Alive, Bal, Handlers, Holders
<1> QED BY <1>1, <1>2 DEF Step, Alive

LEMMA OneMore ==
  \A a, b, i, j \in Nat, n \in Int : (n + 1) - ((1 + a) + b + i + j) = n - (a + b + i + j)
OBVIOUS

LEMMA OneLess ==
  \A a, b, j \in Nat, n \in Int : (n - 1) - (a + b + 0 + j) = n - (a + b + 1 + j)
OBVIOUS

\* A handler more, with its reference.
LEMMA SumRegister ==
  ASSUME NEW k, NEW r,
         Len(k.handlers) \in Nat, k.removing \in Nat, k.ref_cnt \in Int,
         One(k.in_map) \in Nat, One(k.held) \in Nat,
         Len(r.handlers) = 1 + Len(k.handlers), r.removing = k.removing,
         r.ref_cnt = k.ref_cnt + 1, r.in_map = k.in_map, r.held = k.held
  PROVE  Bal(r) = Bal(k) /\ Handlers(r) >= Handlers(k)
<1>1. Bal(r) = Bal(k)
  <2>1. PICK a \in Nat, b \in Nat, i \in Nat, j \in Nat, n \in Int :
          /\ a = Len(k.handlers) /\ b = k.removing /\ i = One(k.in_map) /\ j = One(k.held)
          /\ n = k.ref_cnt
    OBVIOUS
  <2>2. Bal(k) = n - (a + b + i + j)
    BY <2>1, Zenon DEF Bal, Holders
  <2>3. Bal(r) = (n + 1) - ((1 + a) + b + i + j)
    BY <2>1, Zenon DEF Bal, Holders
  <2>4. (n + 1) - ((1 + a) + b + i + j) = n - (a + b + i + j)
    BY OneMore
  <2> QED BY <2>2, <2>3, <2>4, Zenon
<1>2. Handlers(r) >= Handlers(k)
  BY DEF Handlers
<1> QED BY <1>1, <1>2

\* A handler goes from the registered ones to the removed ones.
LEMMA SumUnregister ==
  ASSUME NEW k, NEW r,
         Len(k.handlers) \in Nat, k.removing \in Nat, k.ref_cnt \in Int,
         One(k.in_map) \in Nat, One(k.held) \in Nat,
         Len(r.handlers) = Len(k.handlers) - 1, r.removing = k.removing + 1,
         r.ref_cnt = k.ref_cnt, r.in_map = k.in_map, r.held = k.held
  PROVE  Bal(r) = Bal(k) /\ Handlers(r) >= Handlers(k)
<1>1. Holders(r) = Holders(k)
  <2>1. Len(r.handlers) + r.removing = Len(k.handlers) + k.removing
    <3>1. \A a, b \in Nat : (a - 1) + (b + 1) = a + b
      OBVIOUS
    <3> QED BY <3>1, Zenon
  <2>2. One(r.in_map) = One(k.in_map) /\ One(r.held) = One(k.held)
    OBVIOUS
  <2> QED BY <2>1, <2>2, Zenon DEF Holders
<1>3. Bal(r) = Bal(k)
  BY <1>1, Zenon DEF Bal
<1>2. Handlers(r) >= Handlers(k)
  BY DEF Handlers
<1> QED BY <1>2, <1>3

LEMMA RegisterStep ==
  ASSUME NEW k, NEW h \in Names, Alive(k)
  PROVE  Step(k, Register(k, h)) /\ Alive(Register(k, h))
<1> DEFINE r == Register(k, h)
<1>1. /\ DOMAIN r = Fields /\ r.handlers = <<h>> \o k.handlers /\ r.ref_cnt = k.ref_cnt + 1
      /\ r.state = k.state /\ r.in_map = k.in_map /\ r.held = k.held /\ r.removing = k.removing
  BY DEF Register, Alive, ConnOK, Fields
<1>2. k.handlers \in Seq(Names) /\ <<h>> \in Seq(Names) /\ Len(<<h>>) = 1
  BY DEF Alive, ConnOK
<1>3. r.handlers \in Seq(Names) /\ Len(r.handlers) = 1 + Len(k.handlers)
  BY <1>1, <1>2, ConcatProperties
<1> HIDE DEF r
<1>4. ConnOK(r) /\ r.state # "NONE" /\ r.ref_cnt >= 1
  BY <1>1, <1>3 DEF Alive, ConnOK
<1>5. Bal(r) = Bal(k) /\ Handlers(r) >= Handlers(k)
  <2>1. Len(k.handlers) \in Nat /\ k.removing \in Nat /\ k.ref_cnt \in Int
        /\ One(k.in_map) \in Nat /\ One(k.held) \in Nat
    BY Numbers DEF Alive
  <2> QED BY <1>1, <1>3, <2>1, SumRegister
<1> QED BY <1>4, <1>5 DEF Step, Alive, r

LEMMA UnregisterStep ==
  ASSUME NEW k, NEW h, Alive(k)
  PROVE  LET r == Unregister(k, h)
         IN Step(k, r) /\ Alive(r) /\ r.state = k.state /\ r.ref_cnt = k.ref_cnt
              /\ r.in_map = k.in_map
<1> DEFINE r == Unregister(k, h)
<1> SUFFICES Step(k, r) /\ Alive(r) /\ r.state = k.state /\ r.ref_cnt = k.ref_cnt
               /\ r.in_map = k.in_map
  OBVIOUS
<1>1. CASE ~ Has(k, h)
  <2>1. r = k
    BY <1>1 DEF Unregister
  <2>2. Step(k, k)
    BY SameStep DEF Alive, ConnOK
  <2> QED BY <2>1, <2>2
<1>2. CASE Has(k, h)
  <2>1. /\ DOMAIN r = Fields /\ r.handlers = RemoveFirst(k.handlers, h)
        /\ r.removing = k.removing + 1 /\ r.ref_cnt = k.ref_cnt
        /\ r.state = k.state /\ r.in_map = k.in_map /\ r.held = k.held
    BY <1>2 DEF Unregister, Alive, ConnOK, Fields
  <2>2. k.handlers \in Seq(Names)
    BY DEF Alive, ConnOK
  <2>3. r.handlers \in Seq(Names) /\ Len(r.handlers) = Len(k.handlers) - 1
    BY <1>2, <2>1, <2>2, RemoveFirstFacts DEF Has
  <2> HIDE DEF r
  <2>4. ConnOK(r) /\ r.state # "NONE" /\ r.ref_cnt >= 1
    BY <2>1, <2>3 DEF Alive, ConnOK
  <2>5. Bal(r) = Bal(k) /\ Handlers(r) >= Handlers(k)
    <3>1. Len(k.handlers) \in Nat /\ k.removing \in Nat /\ k.ref_cnt \in Int
          /\ One(k.in_map) \in Nat /\ One(k.held) \in Nat
      BY Numbers DEF Alive
    <3> QED BY <2>1, <2>3, <3>1, SumUnregister
  <2> QED BY <2>1, <2>4, <2>5 DEF Step, Alive
<1> QED BY <1>1, <1>2

LEMMA CloseStep ==
  ASSUME NEW k, Alive(k)
  PROVE  Step(k, ConnClose(k))
<1>1. CASE k.state = "DISCONNECTED"
  BY <1>1, SameStep DEF ConnClose, Alive, ConnOK
<1>2. CASE k.state # "DISCONNECTED"
  <2> DEFINE a == Unregister(k, "read")
             b == Unregister(a, "error")
             u == Unregister(b, "write")
             w == [u EXCEPT !.state = "DISCONNECTED"]
             v == [u EXCEPT !.state = "DISCONNECTED", !.in_map = FALSE]
             r == Release(v, 1)
  <2>1. Step(k, a) /\ Alive(a) /\ a.state = k.state
    BY UnregisterStep
  <2>2. Step(a, b) /\ Alive(b) /\ b.state = k.state
    <3> HIDE DEF a
    <3> QED BY <2>1, UnregisterStep
  <2>3. Step(b, u) /\ Alive(u) /\ u.state = k.state
    <3> HIDE DEF a, b
    <3> QED BY <2>2, UnregisterStep
  <2>4. ConnClose(k) = IF k.kind = "console" THEN w ELSE r
    BY <1>2 DEF ConnClose
  <2> HIDE DEF a, b, u
  <2>5. Step(k, u)
    BY <2>1, <2>2, <2>3, StepTrans DEF Alive
  <2>0. Step(u, w)
    <3>1. /\ DOMAIN w = Fields /\ w.state = "DISCONNECTED" /\ w.in_map = u.in_map
          /\ w.handlers = u.handlers /\ w.removing = u.removing /\ w.ref_cnt = u.ref_cnt
          /\ w.held = u.held
      BY <2>3 DEF Alive, ConnOK, Fields
    <3> HIDE DEF w
    <3>2. ConnOK(w) /\ w.state # "NONE"
      BY <2>3, <3>1 DEF Alive, ConnOK, States, Open
    <3>3. Handlers(w) = Handlers(u) /\ Bal(w) = Bal(u) /\ Handlers(u) \in Nat
      BY <2>3, <3>1, Numbers DEF Alive, Bal, Handlers, Holders
    <3> QED BY <3>2, <3>3 DEF Step
  <2>6. /\ DOMAIN v = Fields /\ v.state = "DISCONNECTED" /\ v.in_map = FALSE
        /\ v.handlers = u.handlers /\ v.removing = u.removing /\ v.ref_cnt = u.ref_cnt
        /\ v.held = u.held
    BY <2>3 DEF Alive, ConnOK, Fields
  <2> HIDE DEF v
  <2>7. /\ DOMAIN r = Fields /\ r.state = (IF v.ref_cnt = 1 THEN "FREED" ELSE "DISCONNECTED")
        /\ r.in_map = FALSE /\ r.handlers = u.handlers /\ r.removing = u.removing
        /\ r.ref_cnt = u.ref_cnt - 1 /\ r.held = u.held
    BY <2>6 DEF Release, Fields
  <2> HIDE DEF r
  <2>8. u.in_map = TRUE
    BY <1>2, <2>3 DEF Alive, ConnOK, States
  <2>9. ConnOK(r) /\ r.state # "NONE"
    <3>1. /\ u.handlers \in Seq(Names) /\ u.removing \in Nat /\ u.ref_cnt \in Int
          /\ u.held \in BOOLEAN /\ u.ref_cnt >= 1
      BY <2>3 DEF Alive, ConnOK
    <3>2. r.ref_cnt \in Int /\ (r.ref_cnt = 0 <=> v.ref_cnt = 1)
      BY <2>6, <2>7, <3>1
    <3>3. r.state \in {"FREED", "DISCONNECTED"} /\ (r.state = "FREED" <=> v.ref_cnt = 1)
      BY <2>7
    <3>4. r.state \in States /\ r.state \notin Open
      BY <3>3 DEF States, Open
    <3>5. r.ref_cnt = 0 <=> r.state \in {"NONE", "FREED"}
      BY <3>2, <3>3
    <3> QED BY <2>7, <3>1, <3>2, <3>3, <3>4, <3>5 DEF ConnOK
  <2>10. Bal(r) = Bal(u) /\ Handlers(r) >= Handlers(u)
    <3>1. Len(u.handlers) \in Nat /\ u.removing \in Nat /\ u.ref_cnt \in Int
          /\ One(u.in_map) \in Nat /\ One(u.held) \in Nat
      BY <2>3, Numbers DEF Alive
    <3>2. One(u.in_map) = 1 /\ One(r.in_map) = 0
      BY <2>7, <2>8, Ones
    <3>3. PICK p \in Nat, q \in Nat, j \in Nat, n \in Int :
            p = Len(u.handlers) /\ q = u.removing /\ j = One(u.held) /\ n = u.ref_cnt
      BY <3>1
    <3>4. Bal(u) = n - (p + q + 1 + j) /\ Bal(r) = (n - 1) - (p + q + 0 + j)
      BY <2>7, <3>2, <3>3, Zenon DEF Bal, Holders
    <3>5. Bal(r) = Bal(u)
      BY <3>4, OneLess, Zenon
    <3>6. Handlers(r) = Handlers(u) /\ Handlers(u) \in Nat
      BY <2>3, <2>7, Numbers DEF Handlers, Alive
    <3> QED BY <3>5, <3>6
  <2>11. Step(u, r)
    BY <2>9, <2>10 DEF Step
  <2> HIDE DEF w
  <2>12. Step(k, r) /\ Step(k, w)
    BY <2>0, <2>5, <2>11, StepTrans DEF Alive
  <2> QED BY <2>4, <2>12
<1> QED BY <1>1, <1>2

LEMMA SelfStep ==
  ASSUME NEW k, Alive(k)
  PROVE  Step(k, k)
BY SameStep DEF Alive, ConnOK

LEMMA BufferedStep ==
  ASSUME NEW k, NEW bytes, Alive(k)
  PROVE  Step(k, Buffered(k, bytes))
<1> DEFINE b == [k EXCEPT !.out = BufferAppend(@, bytes), !.is_writing = TRUE]
<1>1. Step(k, b) /\ Alive(b)
  <2>1. /\ DOMAIN b = Fields /\ b.handlers = k.handlers /\ b.removing = k.removing
        /\ b.ref_cnt = k.ref_cnt /\ b.in_map = k.in_map /\ b.held = k.held /\ b.state = k.state
    BY DEF Alive, ConnOK, Fields
  <2> HIDE DEF b
  <2> QED BY <2>1, SameStep
<1>2. Buffered(k, bytes) \in {k, b, Register(b, "write")}
  BY DEF Buffered
<1> HIDE DEF b
<1>3. Step(b, Register(b, "write"))
  BY <1>1, RegisterStep DEF Names
<1>4. Step(k, Register(b, "write"))
  BY <1>1, <1>3, StepTrans DEF Alive
<1> QED BY <1>1, <1>2, <1>4, SelfStep

LEMMA WriteStep ==
  ASSUME NEW k, NEW n, NEW reset, Alive(k)
  PROVE  \A r \in ConnWrite(k, n, reset) : Step(k, r)
<1> DEFINE bytes == [i \in 1 .. n |-> k.written + i]
           all == [k EXCEPT !.written = @ + n]
           put(w) == [all EXCEPT !.sock = @ \o SubSeq(bytes, 1, w)]
<1>1. Step(k, all) /\ Alive(all)
  <2>1. /\ DOMAIN all = Fields /\ all.handlers = k.handlers /\ all.removing = k.removing
        /\ all.ref_cnt = k.ref_cnt /\ all.in_map = k.in_map /\ all.held = k.held
        /\ all.state = k.state
    BY DEF Alive, ConnOK, Fields
  <2> HIDE DEF all
  <2> QED BY <2>1, SameStep
<1>2. ASSUME NEW w
      PROVE  Step(k, Buffered(put(w), SubSeq(bytes, w + 1, n)))
  <2> HIDE DEF all
  <2>1. /\ DOMAIN put(w) = Fields /\ put(w).handlers = all.handlers
        /\ put(w).removing = all.removing /\ put(w).ref_cnt = all.ref_cnt
        /\ put(w).in_map = all.in_map /\ put(w).held = all.held /\ put(w).state = all.state
    BY <1>1 DEF Alive, ConnOK, Fields
  <2>2. PICK q : q = put(w)
    OBVIOUS
  <2> HIDE DEF put
  <2>3. Step(all, q) /\ Alive(q)
    BY <1>1, <2>1, <2>2, SameStep
  <2>4. Step(q, Buffered(q, SubSeq(bytes, w + 1, n)))
    BY <2>3, BufferedStep
  <2>5. Step(k, q)
    BY <1>1, <2>3, StepTrans DEF Alive
  <2> QED BY <2>2, <2>4, <2>5, StepTrans DEF Alive
<1>3. Step(k, Buffered(all, bytes))
  <2> HIDE DEF all, bytes
  <2>1. Step(all, Buffered(all, bytes))
    BY <1>1, BufferedStep
  <2> QED BY <1>1, <2>1, StepTrans DEF Alive
<1>4. Step(k, k) /\ Step(k, ConnClose(k))
  BY SelfStep, CloseStep
<1>5. CASE k.state = "DISCONNECTED"
  <2>1. ConnWrite(k, n, reset) = {k}
    BY <1>5, Zenon DEF ConnWrite
  <2> QED BY <1>4, <2>1
<1>6. CASE k.state # "DISCONNECTED" /\ TryNow(k)
  <2>1. ConnWrite(k, n, reset) \subseteq
          {Buffered(put(w), SubSeq(bytes, w + 1, n)) : w \in 0 .. n} \cup {ConnClose(k)}
    BY <1>6 DEF ConnWrite
  <2> HIDE DEF put, bytes, all
  <2> QED BY <1>2, <1>4, <2>1
<1>7. CASE k.state # "DISCONNECTED" /\ ~ TryNow(k)
  <2>1. ConnWrite(k, n, reset) = {Buffered(all, bytes)}
    BY <1>7 DEF ConnWrite
  <2> QED BY <1>3, <2>1
<1> QED BY <1>5, <1>6, <1>7

LEMMA ShutdownStep ==
  ASSUME NEW k, Alive(k)
  PROVE  Step(k, Shutdown(k)) /\ Alive(Shutdown(k))
<1> DEFINE r == Shutdown(k)
<1>1. /\ DOMAIN r = Fields /\ r.handlers = k.handlers /\ r.removing = k.removing
      /\ r.ref_cnt = k.ref_cnt /\ r.in_map = k.in_map /\ r.held = k.held
      /\ r.state = k.state \/ (k.state # "DISCONNECTED" /\ r.state = "DISCONNECTING")
  <2>1. CASE k.state = "DISCONNECTED"
    <3>1. r = k
      BY <2>1 DEF Shutdown
    <3> HIDE DEF r
    <3> QED BY <3>1 DEF Alive, ConnOK
  <2>2. CASE k.state # "DISCONNECTED" /\ k.is_writing
    <3>1. r = [k EXCEPT !.state = "DISCONNECTING"]
      BY <2>2 DEF Shutdown
    <3> HIDE DEF r
    <3> QED BY <2>2, <3>1 DEF Alive, ConnOK, Fields
  <2>3. CASE k.state # "DISCONNECTED" /\ ~ k.is_writing
    <3>1. r = [k EXCEPT !.shut = TRUE]
      BY <2>3 DEF Shutdown
    <3> HIDE DEF r
    <3> QED BY <2>3, <3>1 DEF Alive, ConnOK, Fields
  <2> QED BY <2>1, <2>2, <2>3
<1>2. k.state \in Open \cup {"DISCONNECTED"}
  BY DEF Alive, ConnOK, States
<1>3. r.state = k.state \/ (k.state \in Open /\ r.state \in Open)
  BY <1>1, <1>2 DEF Open
<1> HIDE DEF r
<1>4. Step(k, r) /\ Alive(r)
  BY <1>1, <1>3, SameStep
<1> QED BY <1>4 DEF r

LEMMA HandshakeStep ==
  ASSUME NEW k, NEW over, Alive(k), k.state = "SSL_HANDSHAKING"
  PROVE  \A r \in Handshake(k, over) : Step(k, r)
<1> DEFINE q == [k EXCEPT !.state = "CONNECTED"]
<1>1. Step(k, q) /\ Alive(q)
  <2>1. /\ DOMAIN q = Fields /\ q.handlers = k.handlers /\ q.removing = k.removing
        /\ q.ref_cnt = k.ref_cnt /\ q.in_map = k.in_map /\ q.held = k.held
        /\ q.state = "CONNECTED"
    BY DEF Alive, ConnOK, Fields
  <2> HIDE DEF q
  <2> QED BY <2>1, SameStep DEF Open
<1>2. Handshake(k, over) \subseteq {ConnClose(k), Unregister(q, "write"), k, Register(k, "write")}
  BY DEF Handshake
<1> HIDE DEF q
<1>3. Step(k, Unregister(q, "write"))
  <2>1. Step(q, Unregister(q, "write"))
    BY <1>1, UnregisterStep
  <2> QED BY <1>1, <2>1, StepTrans DEF Alive
<1>4. Step(k, Register(k, "write"))
  BY RegisterStep DEF Names
<1> QED BY <1>2, <1>3, <1>4, SelfStep, CloseStep

LEMMA FlushStep ==
  ASSUME NEW k, NEW w, Alive(k)
  PROVE  Step(k, Flush(k, w))
<1> DEFINE out == BufferRemove(k.out, w)
           u == Unregister(k, "write")
           done == [u EXCEPT !.is_writing = FALSE, !.out = out]
           part == [k EXCEPT !.out = out]
           sent == BufferPeek(k.out, w)
           next == IF out.readable_bytes > 0 THEN part
                   ELSE IF k.state = "DISCONNECTING" THEN Shutdown(done) ELSE done
           r == [next EXCEPT !.sock = @ \o sent]
<1>1. Flush(k, w) = r
  BY DEF Flush
<1> HIDE DEF out, sent
<1>2. Step(k, part) /\ Alive(part)
  <2>1. /\ DOMAIN part = Fields /\ part.handlers = k.handlers /\ part.removing = k.removing
        /\ part.ref_cnt = k.ref_cnt /\ part.in_map = k.in_map /\ part.held = k.held
        /\ part.state = k.state
    BY DEF Alive, ConnOK, Fields
  <2> HIDE DEF part
  <2> QED BY <2>1, SameStep
<1>3. Step(k, u) /\ Alive(u)
  BY UnregisterStep
<1> HIDE DEF u, part
<1>4. Step(k, done) /\ Alive(done)
  <2>1. /\ DOMAIN done = Fields /\ done.handlers = u.handlers /\ done.removing = u.removing
        /\ done.ref_cnt = u.ref_cnt /\ done.in_map = u.in_map /\ done.held = u.held
        /\ done.state = u.state
    BY <1>3 DEF Alive, ConnOK, Fields
  <2> HIDE DEF done
  <2>2. Step(u, done) /\ Alive(done)
    BY <1>3, <2>1, SameStep
  <2> QED BY <1>3, <2>2, StepTrans DEF Alive
<1> HIDE DEF done
<1>5. Step(k, Shutdown(done)) /\ Alive(Shutdown(done))
  <2>1. Step(done, Shutdown(done)) /\ Alive(Shutdown(done))
    BY <1>4, ShutdownStep
  <2> QED BY <1>4, <2>1, StepTrans DEF Alive
<1>6. Step(k, next) /\ Alive(next)
  BY <1>2, <1>4, <1>5
<1> HIDE DEF next
<1>7. Step(next, r)
  <2>1. /\ DOMAIN r = Fields /\ r.handlers = next.handlers /\ r.removing = next.removing
        /\ r.ref_cnt = next.ref_cnt /\ r.in_map = next.in_map /\ r.held = next.held
        /\ r.state = next.state
    BY <1>6 DEF Alive, ConnOK, Fields
  <2> HIDE DEF r
  <2> QED BY <1>6, <2>1, SameStep
<1> HIDE DEF r
<1> QED BY <1>1, <1>6, <1>7, StepTrans DEF Alive

LEMMA WriteCbStep ==
  ASSUME NEW k, NEW c, Alive(k)
  PROVE  \A r \in WriteCb(k, c) : Step(k, r)
<1>1. CASE k.state = "SSL_HANDSHAKING"
  <2>1. WriteCb(k, c) = Handshake(k, Over(c))
    BY <1>1, Zenon DEF WriteCb
  <2> QED BY <1>1, <2>1, HandshakeStep
<1>2. CASE k.state # "SSL_HANDSHAKING" /\ (~ k.is_writing \/ k.state = "DISCONNECTED")
  <2>1. WriteCb(k, c) = {k}
    BY <1>2, Zenon DEF WriteCb
  <2> QED BY <2>1, SelfStep
<1>3. CASE /\ k.state # "SSL_HANDSHAKING" /\ ~ (~ k.is_writing \/ k.state = "DISCONNECTED")
           /\ peer[c] = "reset"
  <2> DEFINE q == [k EXCEPT !.is_writing = FALSE]
  <2>1. WriteCb(k, c) = {ConnClose(q)}
    BY <1>3 DEF WriteCb
  <2>2. /\ DOMAIN q = Fields /\ q.handlers = k.handlers /\ q.removing = k.removing
        /\ q.ref_cnt = k.ref_cnt /\ q.in_map = k.in_map /\ q.held = k.held
        /\ q.state = k.state
    BY DEF Alive, ConnOK, Fields
  <2> HIDE DEF q
  <2>3. Step(k, q) /\ Alive(q)
    BY <2>2, SameStep
  <2>4. Step(q, ConnClose(q))
    BY <2>3, CloseStep
  <2>5. Step(k, ConnClose(q))
    BY <2>3, <2>4, StepTrans DEF Alive
  <2> QED BY <2>1, <2>5
<1>4. CASE /\ k.state # "SSL_HANDSHAKING" /\ ~ (~ k.is_writing \/ k.state = "DISCONNECTED")
           /\ peer[c] # "reset"
  <2>1. WriteCb(k, c) = {Flush(k, w) : w \in 1 .. k.out.readable_bytes}
    BY <1>4 DEF WriteCb
  <2> QED BY <2>1, FlushStep
<1> QED BY <1>1, <1>2, <1>3, <1>4

\* What a decoder may do.
LEMMA Decoded ==
  ASSUME NEW k, NEW r \in Decode(k)
  PROVE  \/ r = k \/ r = ConnClose(k) \/ r \in ConnWrite(k, 1, FALSE)
         \/ ~ k.held /\ r = [k EXCEPT !.held = TRUE, !.ref_cnt = @ + 1]
BY DEF Decode

LEMMA ReadCbStep ==
  ASSUME NEW k, NEW c, Alive(k)
  PROVE  \A r \in ReadCb(k, c) : Step(k, r)
<1> DEFINE q == [k EXCEPT !.held = TRUE, !.ref_cnt = @ + 1]
<1>1. ASSUME ~ k.held
      PROVE  Step(k, q)
  <2>1. /\ DOMAIN q = Fields /\ q.handlers = k.handlers /\ q.removing = k.removing
        /\ q.ref_cnt = k.ref_cnt + 1 /\ q.in_map = k.in_map /\ q.held = TRUE
        /\ q.state = k.state
    BY DEF Alive, ConnOK, Fields
  <2> HIDE DEF q
  <2>2. ConnOK(q) /\ q.state # "NONE"
    <3>1. q.ref_cnt \in Int /\ q.ref_cnt # 0 /\ k.state \notin {"NONE", "FREED"}
      BY <2>1 DEF Alive, ConnOK
    <3> QED BY <2>1, <3>1 DEF Alive, ConnOK
  <2>3. k.held = FALSE
    BY <1>1 DEF Alive, ConnOK
  <2>4. One(k.held) = 0 /\ One(q.held) = 1
    BY <2>1, <2>3, Ones
  <2>5. Len(k.handlers) \in Nat /\ k.removing \in Nat /\ k.ref_cnt \in Int
        /\ One(k.in_map) \in Nat
    BY Numbers DEF Alive
  <2>6. Bal(q) = Bal(k) /\ Handlers(q) >= Handlers(k)
    BY <2>1, <2>4, <2>5 DEF Bal, Holders, Handlers
  <2> QED BY <2>2, <2>6 DEF Step
<1>2. CASE k.state = "SSL_HANDSHAKING"
  BY <1>2, HandshakeStep DEF ReadCb
<1>3. CASE k.state = "CONNECTED" /\ Over(c)
  <2>1. ReadCb(k, c) = {ConnClose(k)}
    BY <1>3 DEF ReadCb
  <2> QED BY <2>1, CloseStep
<1>4. CASE k.state = "CONNECTED" /\ ~ Over(c)
  <2>1. \A r \in ReadCb(k, c) : \/ r = k \/ r = ConnClose(k) \/ r \in ConnWrite(k, 1, FALSE)
                                \/ ~ k.held /\ r = q
    BY <1>4, Decoded DEF ReadCb
  <2> HIDE DEF q
  <2> QED BY <1>1, <2>1, SelfStep, CloseStep, WriteStep
<1>5. CASE k.state \notin {"SSL_HANDSHAKING", "CONNECTED"}
  <2>1. ReadCb(k, c) = {k}
    BY <1>5 DEF ReadCb
  <2> QED BY <2>1, SelfStep
<1> QED BY <1>2, <1>3, <1>4, <1>5

LEMMA CloseCbStep ==
  ASSUME NEW k, NEW events, Alive(k)
  PROVE  \A r \in CloseCb(k, events) : Step(k, r)
BY SelfStep, CloseStep DEF CloseCb

\* References are given back that nothing else of the connection stands for: it
\* is freed with the last.
LEMMA Released ==
  ASSUME NEW u, NEW r, NEW n \in Nat, n >= 1, ConnOK(u), Bal(u) >= n,
         DOMAIN r = Fields, r.handlers = u.handlers, r.removing = u.removing,
         r.in_map = u.in_map, r.held = u.held, r.ref_cnt = u.ref_cnt - n,
         r.state = (IF u.ref_cnt = n THEN "FREED" ELSE u.state)
  PROVE  /\ ConnOK(r) /\ r.state # "NONE" /\ Bal(r) = Bal(u) - n
         /\ Holders(r) = Holders(u) /\ Handlers(r) = Handlers(u)
<1>1. Holders(u) \in Nat /\ u.ref_cnt \in Int /\ Bal(u) = u.ref_cnt - Holders(u)
  BY Numbers DEF Bal
<1>2. Holders(r) = Holders(u) /\ Handlers(r) = Handlers(u)
  BY Zenon DEF Holders, Handlers
<1>3. Bal(r) = Bal(u) - n
  <2>1. Bal(r) = (u.ref_cnt - n) - Holders(u)
    BY <1>2, Zenon DEF Bal
  <2> QED BY <1>1, <2>1
<1>4. u.ref_cnt >= 1 /\ (u.ref_cnt = n => Holders(u) = 0)
  BY <1>1
<1>6. u.state \in States /\ u.state \notin {"NONE", "FREED"} /\ (u.state \in Open => u.in_map)
  BY <1>4 DEF ConnOK
<1>7. r.ref_cnt \in Int /\ (r.ref_cnt = 0 <=> u.ref_cnt = n)
  BY <1>1
<1>8. r.state \in States /\ (r.ref_cnt = 0 <=> r.state \in {"NONE", "FREED"}) /\ r.state # "NONE"
  BY <1>6, <1>7 DEF States
<1>9. r.state \in Open => r.in_map
  BY <1>6 DEF Open
<1>10. /\ r.handlers \in Seq(Names) /\ r.removing \in Nat
       /\ r.in_map \in BOOLEAN /\ r.held \in BOOLEAN
  BY DEF ConnOK
<1>11. ConnOK(r)
  BY <1>7, <1>8, <1>9, <1>10 DEF ConnOK
<1> QED BY <1>2, <1>3, <1>8, <1>11

-----------------------------------------------------------------------------
(* The parts of the invariant that a step leaves alone.                    *)

\* Who holds a connection keeps it alive.
LEMMA HeldIsAlive ==
  ASSUME IoInv, NEW c \in Conns
  PROVE  /\ ConnOK(conn[c]) /\ MailsFor(c) \in Nat
         /\ Handlers(conn[c]) >= 1 => Alive(conn[c])
         /\ conn[c].held => Alive(conn[c])
         /\ conn[c].in_map => Alive(conn[c])
         /\ MailsFor(c) >= 1 => Alive(conn[c])
<1> DEFINE k == conn[c]
<1>1. ConnOK(k)
  BY DEF IoInv, ConnInv
<1>2. MailsFor(c) \in Nat
  <2>1. Count(mails, PacketMail(c)) \in Nat
    BY CountType DEF IoInv, BoxInv
  <2>2. Count(mailbox["packet_sending_tasks"], PacketMail(c)) \in Nat
    BY CountType DEF IoInv, BoxInv, Packets
  <2> QED BY <2>1, <2>2 DEF MailsFor
<1>3. k.ref_cnt = Holders(k) + MailsFor(c)
  BY DEF IoInv, RefInv
<1> HIDE DEF k
<1>4. /\ Holders(k) \in Nat /\ Handlers(k) \in Nat /\ Holders(k) >= Handlers(k)
      /\ One(k.in_map) \in Nat /\ One(k.held) \in Nat
      /\ Len(k.handlers) \in Nat /\ k.removing \in Nat
  BY <1>1, Numbers
<1>5. Holders(k) >= One(k.in_map)
  BY <1>4 DEF Holders
<1>6. Holders(k) >= One(k.held)
  BY <1>4 DEF Holders
<1>7. k.held => One(k.held) = 1
  BY DEF One
<1>8. k.in_map => One(k.in_map) = 1
  BY DEF One
<1>9. ASSUME Holders(k) + MailsFor(c) >= 1
      PROVE  Alive(k)
  BY <1>1, <1>3, <1>9 DEF Alive
<1>10. ASSUME k.held
       PROVE  Holders(k) + MailsFor(c) >= 1
  <2>1. One(k.held) = 1
    BY <1>7, <1>10
  <2> QED BY <1>2, <1>4, <1>6, <2>1
<1>11. ASSUME k.in_map
       PROVE  Holders(k) + MailsFor(c) >= 1
  <2>1. One(k.in_map) = 1
    BY <1>8, <1>11
  <2> QED BY <1>2, <1>4, <1>5, <2>1
<1>12. Handlers(k) >= 1 => Holders(k) + MailsFor(c) >= 1
  BY <1>2, <1>4
<1>13. MailsFor(c) >= 1 => Holders(k) + MailsFor(c) >= 1
  BY <1>2, <1>4
<1> QED BY <1>1, <1>2, <1>9, <1>10, <1>11, <1>12, <1>13 DEF k

\* A callback for each of some connections; the mails stay where they are.
LEMMA ConnsStep ==
  ASSUME IoInv, DOMAIN conn' = Conns,
         \A c \in Conns : \/ conn'[c] = conn[c]
                          \/ conn[c].state # "NONE" /\ Step(conn[c], conn'[c]),
         mailbox' = mailbox, mails' = mails,
         BoxInv', ListInv', NoStrandedMail', \A c \in Conns : Listed(c)' => Listed(c)
  PROVE  IoInv'
<1>1. ConnInv'
  BY DEF IoInv, ConnInv, Step
<1>2. \A c \in Conns : conn[c].state = "NONE" => conn'[c].state = "NONE"
  OBVIOUS
<1>3. PendInv'
  <2>1. /\ \A i \in DOMAIN mails : mails[i] \in PendingMails \cup PacketMails
        /\ \A i \in DOMAIN mailbox[Pending] : mailbox[Pending][i] \in PendingMails
    BY SeqFacts DEF IoInv, BoxInv
  <2>2. /\ \A i \in DOMAIN mails : mails[i].conn \in Conns
        /\ \A i \in DOMAIN mailbox[Pending] : mailbox[Pending][i].conn \in Conns
    BY <2>1 DEF PendingMails, PacketMails
  <2>3. /\ \A i \in DOMAIN mails : mails[i].box = Pending => conn[mails[i].conn].state = "NONE"
        /\ \A i \in DOMAIN mailbox[Pending] : conn[mailbox[Pending][i].conn].state = "NONE"
    BY DEF IoInv, PendInv
  <2>4. /\ \A i \in DOMAIN mails : mails[i].box = Pending => conn'[mails[i].conn].state = "NONE"
        /\ \A i \in DOMAIN mailbox[Pending] : conn'[mailbox[Pending][i].conn].state = "NONE"
    BY <1>2, <2>2, <2>3
  <2>5. PendInv
    BY DEF IoInv
  <2> QED BY <2>4, <2>5 DEF PendInv
<1>4. \A c \in Conns : MailsFor(c)' = MailsFor(c)
  BY DEF MailsFor
<1>5. ASSUME NEW c \in Conns
      PROVE  /\ conn'[c].ref_cnt = Holders(conn'[c]) + MailsFor(c)
             /\ Handlers(conn'[c]) >= Handlers(conn[c])
  <2> DEFINE k == conn[c]
             r == conn'[c]
  <2>1. k.ref_cnt = Holders(k) + MailsFor(c) /\ ConnOK(k) /\ ConnOK(r) /\ MailsFor(c) \in Nat
    BY <1>1, HeldIsAlive DEF IoInv, RefInv, ConnInv
  <2>2. r = k \/ (Bal(r) = Bal(k) /\ Handlers(r) >= Handlers(k))
    BY DEF Step
  <2> HIDE DEF k, r
  <2>3. /\ Holders(k) \in Nat /\ Holders(r) \in Nat /\ Handlers(k) \in Nat
        /\ k.ref_cnt \in Int /\ r.ref_cnt \in Int
    BY <2>1, Numbers
  <2>4. r.ref_cnt = Holders(r) + MailsFor(c) /\ Handlers(r) >= Handlers(k)
    BY <2>1, <2>2, <2>3 DEF Bal
  <2> QED BY <2>4 DEF k, r
<1>6. RefInv'
  BY <1>4, <1>5 DEF RefInv
<1>7. EntryInv'
  <2> SUFFICES ASSUME NEW c \in Conns, Listed(c)'
               PROVE  Handlers(conn'[c]) >= 1
    BY DEF EntryInv
  <2>1. Handlers(conn[c]) >= 1
    BY DEF IoInv, EntryInv
  <2>2. Handlers(conn[c]) \in Nat /\ Handlers(conn'[c]) \in Nat
    BY <1>1, Numbers DEF IoInv, ConnInv
  <2> QED BY <1>5, <2>1, <2>2
<1> QED BY <1>1, <1>3, <1>6, <1>7 DEF IoInv

LEMMA ListsKept ==
  ASSUME IoInv, active' = active, reported' = reported
  PROVE  ListInv' /\ \A c \in Conns : Listed(c)' => Listed(c)
<1>1. ListInv'
  BY DEF IoInv, ListInv
<1>2. \A c \in Conns : Listed(c)' => Listed(c)
  BY DEF Listed
<1> QED BY <1>1, <1>2

\* The round has worked one handler off.
LEMMA OneCalled ==
  ASSUME IoInv, active # <<>>, active' = Tail(active), reported' = reported
  PROVE  /\ ListInv' /\ \A c \in Conns : Listed(c)' => Listed(c)
         /\ Head(active) \in Entries
         /\ Head(active).of \in Conns => Listed(Head(active).of)
<1>1. active \in Seq(Entries) /\ reported \subseteq Seq(Entries)
  BY DEF IoInv, ListInv
<1>2. /\ Len(active) \in Nat /\ DOMAIN active = 1 .. Len(active) /\ Len(active) >= 1
      /\ Tail(active) \in Seq(Entries) /\ DOMAIN Tail(active) = 1 .. Len(active) - 1
      /\ \A i \in 1 .. Len(active) - 1 : Tail(active)[i] = active[i + 1]
      /\ Head(active) = active[1] /\ active[1] \in Entries
  BY <1>1, SeqFacts
<1>3. ListInv'
  BY <1>1, <1>2 DEF ListInv
<1>4. ASSUME NEW c \in Conns, Listed(c)'
      PROVE  Listed(c)
  <2>1. PICK hs \in reported \cup {Tail(active)} : \E i \in DOMAIN hs : hs[i].of = c
    BY <1>4 DEF Listed
  <2>2. CASE hs \in reported
    BY <2>1, <2>2 DEF Listed
  <2>3. CASE hs = Tail(active)
    <3>1. PICK i \in 1 .. Len(active) - 1 : active[i + 1].of = c
      BY <1>2, <2>1, <2>3
    <3>2. i + 1 \in DOMAIN active
      BY <1>2
    <3> QED BY <3>1, <3>2 DEF Listed
  <2> QED BY <2>1, <2>2, <2>3
<1>5. Listed(Head(active).of)
  <2>1. 1 \in DOMAIN active /\ active[1].of = Head(active).of
    BY <1>2
  <2> QED BY <2>1 DEF Listed
<1> QED BY <1>2, <1>3, <1>4, <1>5

LEMMA MailsKept ==
  ASSUME IoInv, UNCHANGED <<mailbox, mails, owed, pipe, swapping>>
  PROVE  BoxInv' /\ NoStrandedMail'
BY DEF IoInv, BoxInv, NoStrandedMail
-----------------------------------------------------------------------------
(* Every action.                                                           *)

LEMMA Elsewhere ==
  ASSUME IoInv, UNCHANGED <<conn, mailbox, owed, pipe, swapping, mails, active, reported>>
  PROVE  IoInv'
<1>1. BoxInv' /\ NoStrandedMail' /\ ListInv' /\ \A c \in Conns : Listed(c)' => Listed(c)
  BY MailsKept, ListsKept
<1> QED BY <1>1, ConnsStep DEF IoInv, ConnInv

LEMMA NotifyKeeps ==
  ASSUME IoInv, NEW b \in Boxes, Notify(b)
  PROVE  IoInv'
<1> USE DEF Notify
<1>1. BoxInv'
  <2>1. owed \in [Boxes -> Nat] /\ pipe \in [Boxes -> BOOLEAN]
    BY DEF IoInv, BoxInv
  <2>2. owed' \in [Boxes -> Nat]
    BY <2>1
  <2>3. pipe' \in [Boxes -> BOOLEAN]
    BY <2>1, Zenon
  <2> QED BY <2>2, <2>3 DEF IoInv, BoxInv
<1>2. NoStrandedMail'
  <2> SUFFICES ASSUME NEW d \in Boxes, mailbox'[d] # <<>>
               PROVE  owed'[d] > 0 \/ pipe'[d] \/ swapping' = d
    BY DEF NoStrandedMail
  <2>1. owed[d] > 0 \/ pipe[d] \/ swapping = d
    BY DEF IoInv, NoStrandedMail
  <2>2. pipe'[b] = TRUE
    BY DEF IoInv, BoxInv
  <2>3. d # b => owed'[d] = owed[d] /\ (pipe'[d] <=> pipe[d])
    BY DEF IoInv, BoxInv
  <2> QED BY <2>1, <2>2, <2>3
<1>3. ListInv' /\ \A c \in Conns : Listed(c)' => Listed(c)
  BY ListsKept
<1> QED BY <1>1, <1>2, <1>3, ConnsStep DEF IoInv, ConnInv

LEMMA NextFdKeeps ==
  ASSUME IoInv, NextFd
  PROVE  IoInv'
<1> USE DEF NextFd
<1>1. BoxInv' /\ NoStrandedMail'
  BY MailsKept
<1>2. ListInv'
  BY DEF IoInv, ListInv
<1>3. \A c \in Conns : Listed(c)' => Listed(c)
  BY DEF Listed
<1> QED BY <1>1, <1>2, <1>3, ConnsStep DEF IoInv, ConnInv

LEMMA SkipCanceledKeeps ==
  ASSUME IoInv, SkipCanceled
  PROVE  IoInv'
<1> USE DEF SkipCanceled
<1>1. BoxInv' /\ NoStrandedMail'
  BY MailsKept
<1>2. ListInv' /\ \A c \in Conns : Listed(c)' => Listed(c)
  BY OneCalled
<1> QED BY <1>1, <1>2, ConnsStep DEF IoInv, ConnInv

LEMMA CallConnHandlerKeeps ==
  ASSUME IoInv, CallConnHandler
  PROVE  IoInv'
<1> USE DEF CallConnHandler
<1> DEFINE e == Head(active)
           c == e.of
<1>1. BoxInv' /\ NoStrandedMail'
  BY MailsKept
<1>2. /\ ListInv' /\ \A d \in Conns : Listed(d)' => Listed(d)
      /\ e \in Entries
  BY OneCalled
<1>3. c \in Conns
  OBVIOUS
<1>4. e.handler \in Names
  BY <1>2, <1>3, ConnsAssumption DEF Entries
<1>5. Alive(conn[c])
  <2>1. Has(conn[c], e.handler)
    BY <1>3 DEF Called
  <2>2. ConnOK(conn[c])
    BY <1>3, HeldIsAlive
  <2>3. conn[c].handlers \in Seq(Names) /\ conn[c].removing \in Nat
    BY <2>2 DEF ConnOK
  <2>4. Len(conn[c].handlers) \in Nat /\ DOMAIN conn[c].handlers = 1 .. Len(conn[c].handlers)
    BY <2>3, LenProperties
  <2>5. Len(conn[c].handlers) >= 1
    BY <2>1, <2>4 DEF Has
  <2>6. Handlers(conn[c]) >= 1
    BY <2>3, <2>4, <2>5 DEF Handlers
  <2> QED BY <1>3, <2>6, HeldIsAlive
<1>6. PICK k \in CASE e.handler = "read"  -> ReadCb(conn[c], c)
                   [] e.handler = "write" -> WriteCb(conn[c], c)
                   [] e.handler = "error" -> CloseCb(conn[c], e.events) :
        conn' = [conn EXCEPT ![c] = k]
  OBVIOUS
<1> HIDE DEF e, c
<1>7. Step(conn[c], k)
  <2>1. CASE e.handler = "read"
    <3>1. k \in ReadCb(conn[c], c)
      BY <1>6, <2>1
    <3> QED BY <1>5, <3>1, ReadCbStep
  <2>2. CASE e.handler = "write"
    <3>1. k \in WriteCb(conn[c], c)
      BY <1>6, <2>2
    <3> QED BY <1>5, <3>1, WriteCbStep
  <2>3. CASE e.handler = "error"
    <3>1. k \in CloseCb(conn[c], e.events)
      BY <1>6, <2>3
    <3> QED BY <1>5, <3>1, CloseCbStep
  <2> QED BY <1>4, <2>1, <2>2, <2>3 DEF Names
<1>8. conn[c].state # "NONE"
  BY <1>5 DEF Alive, ConnOK
<1>9. DOMAIN conn' = Conns /\ \A d \in Conns : \/ conn'[d] = conn[d]
                                               \/ conn[d].state # "NONE" /\ Step(conn[d], conn'[d])
  BY <1>3, <1>6, <1>7, <1>8 DEF IoInv, ConnInv
<1> QED BY <1>1, <1>2, <1>9, ConnsStep

LEMMA CallTimerKeeps ==
  ASSUME IoInv, NEW silent \in SUBSET Conns, CallTimer(silent)
  PROVE  IoInv'
<1> USE DEF CallTimer
<1>1. BoxInv' /\ NoStrandedMail'
  BY MailsKept
<1>2. ListInv' /\ \A c \in Conns : Listed(c)' => Listed(c)
  BY OneCalled
<1>3. ASSUME NEW c \in silent
      PROVE  conn[c].state # "NONE" /\ Step(conn[c], ConnClose(conn[c]))
  <2>1. Alive(conn[c])
    BY HeldIsAlive
  <2> QED BY <2>1, CloseStep DEF Alive, ConnOK
<1>4. conn' = [c \in Conns |-> IF c \in silent THEN ConnClose(conn[c]) ELSE conn[c]]
  OBVIOUS
<1>5. DOMAIN conn' = Conns /\ \A c \in Conns : \/ conn'[c] = conn[c]
                                               \/ conn[c].state # "NONE" /\ Step(conn[c], conn'[c])
  BY <1>3, <1>4
<1> QED BY <1>1, <1>2, <1>5, ConnsStep

LEMMA CallShutdownKeeps ==
  ASSUME IoInv, NEW c \in Conns, CallShutdown(c)
  PROVE  IoInv'
<1> USE DEF CallShutdown
<1>1. BoxInv' /\ NoStrandedMail' /\ ListInv' /\ \A d \in Conns : Listed(d)' => Listed(d)
  BY MailsKept, ListsKept
<1>2. Alive(conn[c])
  BY HeldIsAlive
<1>3. conn[c].state # "NONE" /\ Step(conn[c], Shutdown(conn[c]))
  BY <1>2, ShutdownStep DEF Alive, ConnOK
<1>4. conn' = [conn EXCEPT ![c] = Shutdown(conn[c])]
  OBVIOUS
<1>5. DOMAIN conn' = Conns /\ \A d \in Conns : \/ conn'[d] = conn[d]
                                               \/ conn[d].state # "NONE" /\ Step(conn[d], conn'[d])
  BY <1>3, <1>4 DEF IoInv, ConnInv
<1> QED BY <1>1, <1>5, ConnsStep

LEMMA SessionReleasesKeeps ==
  ASSUME IoInv, NEW c \in Conns, SessionReleases(c)
  PROVE  IoInv'
<1> USE DEF SessionReleases
<1> DEFINE k == conn[c]
           u == [k EXCEPT !.held = FALSE]
           r == Release(u, 1)
<1>1. BoxInv' /\ NoStrandedMail' /\ ListInv' /\ \A d \in Conns : Listed(d)' => Listed(d)
  BY MailsKept, ListsKept
<1>2. Alive(k) /\ k.held = TRUE /\ Bal(k) = MailsFor(c) /\ MailsFor(c) \in Nat
  <2>1. k.held
    OBVIOUS
  <2>2. Alive(k) /\ MailsFor(c) \in Nat
    BY <2>1, HeldIsAlive
  <2>3. k.held \in BOOLEAN
    BY <2>2 DEF Alive, ConnOK
  <2>4. k.ref_cnt = Holders(k) + MailsFor(c)
    BY DEF IoInv, RefInv
  <2> HIDE DEF k
  <2>5. Bal(k) = MailsFor(c)
    <3>1. Holders(k) \in Nat
      BY <2>2, Numbers DEF Alive
    <3> QED BY <2>2, <2>4, <3>1 DEF Bal
  <2> QED BY <2>1, <2>2, <2>3, <2>5
<1>3. conn' = [conn EXCEPT ![c] = r]
  OBVIOUS
<1> HIDE DEF k
<1>4. /\ DOMAIN u = Fields /\ u.state = k.state /\ u.in_map = k.in_map
      /\ u.handlers = k.handlers /\ u.removing = k.removing /\ u.ref_cnt = k.ref_cnt
      /\ u.held = FALSE
  BY <1>2 DEF Alive, ConnOK, Fields
<1> HIDE DEF u
<1>5. ConnOK(u)
  BY <1>2, <1>4 DEF Alive, ConnOK
<1>6. Bal(u) = Bal(k) + 1 /\ Handlers(u) = Handlers(k)
  <2>1. PICK a \in Nat, b \in Nat, i \in Nat, n \in Int :
          a = Len(k.handlers) /\ b = k.removing /\ i = One(k.in_map) /\ n = k.ref_cnt
    BY <1>2, Numbers DEF Alive
  <2>2. a = Len(u.handlers) /\ b = u.removing /\ i = One(u.in_map) /\ n = u.ref_cnt
    BY <1>4, <2>1
  <2>3. One(k.held) = 1 /\ One(u.held) = 0
    BY <1>2, <1>4, Ones
  <2>4. Bal(k) = n - (a + b + i + 1)
    BY <2>1, <2>3, Zenon DEF Bal, Holders
  <2>5. Bal(u) = n - (a + b + i + 0)
    BY <2>2, <2>3, Zenon DEF Bal, Holders
  <2>6. Handlers(u) = Handlers(k)
    BY <2>1, <2>2, Zenon DEF Handlers
  <2> QED BY <2>4, <2>5, <2>6
<1>7. /\ DOMAIN r = Fields /\ r.state = (IF u.ref_cnt = 1 THEN "FREED" ELSE u.state)
      /\ r.in_map = u.in_map /\ r.handlers = u.handlers /\ r.removing = u.removing
      /\ r.ref_cnt = u.ref_cnt - 1 /\ r.held = u.held
  BY <1>4 DEF Release, Fields
<1> HIDE DEF r
<1>8. ConnOK(r) /\ r.state # "NONE" /\ Handlers(r) = Handlers(u) /\ Bal(r) = Bal(u) - 1
  <2>1. Bal(u) >= 1
    BY <1>2, <1>6
  <2> QED BY <1>5, <1>7, <2>1, Released
<1>9. Step(k, r)
  <2>1. Handlers(k) \in Nat /\ Bal(k) \in Int
    BY <1>2, Numbers DEF Alive
  <2> QED BY <1>6, <1>8, <2>1 DEF Step
<1>10. k.state # "NONE"
  BY <1>2 DEF Alive, ConnOK
<1>11. DOMAIN conn' = Conns /\ \A d \in Conns : \/ conn'[d] = conn[d]
                                                \/ conn[d].state # "NONE" /\ Step(conn[d], conn'[d])
  BY <1>3, <1>9, <1>10 DEF IoInv, ConnInv, k
<1> QED BY <1>1, <1>11, ConnsStep

\* user_operation_done: the reply is written, then the operation's reference goes.
LEMMA UserOperationDoneKeeps ==
  ASSUME IoInv, NEW c \in Conns, UserOperationDone(c)
  PROVE  IoInv'
<1>1. PICK k : k = conn[c]
  OBVIOUS
<1> DEFINE u == [k EXCEPT !.held = FALSE]
<1>2. PICK q \in ConnWrite(u, 1, peer[c] = "reset") : conn' = [conn EXCEPT ![c] = Release(q, 1)]
  BY <1>1 DEF UserOperationDone
<1> DEFINE r == Release(q, 1)
<1>3. /\ UNCHANGED <<mailbox, owed, pipe, swapping, mails, active, reported>>
      /\ BoxInv' /\ NoStrandedMail' /\ ListInv' /\ \A d \in Conns : Listed(d)' => Listed(d)
  BY MailsKept, ListsKept DEF UserOperationDone
<1>4. Alive(k) /\ k.held = TRUE /\ Bal(k) = MailsFor(c) /\ MailsFor(c) \in Nat
  <2>1. k.held
    BY <1>1 DEF UserOperationDone
  <2>2. Alive(k) /\ MailsFor(c) \in Nat
    BY <1>1, <2>1, HeldIsAlive
  <2>3. k.held \in BOOLEAN
    BY <2>2 DEF Alive, ConnOK
  <2>4. k.ref_cnt = Holders(k) + MailsFor(c)
    BY <1>1 DEF IoInv, RefInv
  <2>5. Holders(k) \in Nat
    BY <2>2, Numbers DEF Alive
  <2>6. Bal(k) = MailsFor(c)
    BY <2>2, <2>4, <2>5 DEF Bal
  <2> QED BY <2>1, <2>2, <2>3, <2>6
<1>5. /\ DOMAIN u = Fields /\ u.state = k.state /\ u.in_map = k.in_map
      /\ u.handlers = k.handlers /\ u.removing = k.removing /\ u.ref_cnt = k.ref_cnt
      /\ u.held = FALSE
  BY <1>4 DEF Alive, ConnOK, Fields
<1> HIDE DEF u
<1>6. Alive(u)
  BY <1>4, <1>5 DEF Alive, ConnOK
<1>7. Bal(u) = Bal(k) + 1 /\ Handlers(u) = Handlers(k)
  <2>1. PICK a \in Nat, b \in Nat, i \in Nat, n \in Int :
          a = Len(k.handlers) /\ b = k.removing /\ i = One(k.in_map) /\ n = k.ref_cnt
    BY <1>4, Numbers DEF Alive
  <2>2. a = Len(u.handlers) /\ b = u.removing /\ i = One(u.in_map) /\ n = u.ref_cnt
    BY <1>5, <2>1
  <2>3. One(k.held) = 1 /\ One(u.held) = 0
    BY <1>4, <1>5, Ones
  <2>4. Bal(k) = n - (a + b + i + 1)
    BY <2>1, <2>3, Zenon DEF Bal, Holders
  <2>5. Bal(u) = n - (a + b + i + 0)
    BY <2>2, <2>3, Zenon DEF Bal, Holders
  <2>6. Handlers(u) = Handlers(k)
    BY <2>1, <2>2, Zenon DEF Handlers
  <2> QED BY <2>4, <2>5, <2>6
<1>8. Step(u, q)
  BY <1>2, <1>6, WriteStep
<1>9. ConnOK(q) /\ Bal(q) = MailsFor(c) + 1 /\ Handlers(q) >= Handlers(k)
  BY <1>4, <1>7, <1>8 DEF Step
<1>10. /\ DOMAIN r = Fields /\ r.state = (IF q.ref_cnt = 1 THEN "FREED" ELSE q.state)
       /\ r.in_map = q.in_map /\ r.handlers = q.handlers /\ r.removing = q.removing
       /\ r.ref_cnt = q.ref_cnt - 1 /\ r.held = q.held
  BY <1>9 DEF Release, ConnOK, Fields
<1>11. conn' = [conn EXCEPT ![c] = r]
  BY <1>2
<1> HIDE DEF r
<1>12. ConnOK(r) /\ r.state # "NONE" /\ Handlers(r) = Handlers(q) /\ Bal(r) = Bal(q) - 1
  <2>1. Bal(q) >= 1
    BY <1>4, <1>9
  <2> QED BY <1>9, <1>10, <2>1, Released
<1>13. Step(k, r)
  <2>1. Bal(r) = Bal(k)
    BY <1>4, <1>9, <1>12
  <2> QED BY <1>9, <1>12, <2>1 DEF Step
<1>14. k.state # "NONE"
  BY <1>4 DEF Alive, ConnOK
<1>15. DOMAIN conn' = Conns /\ \A d \in Conns : \/ conn'[d] = conn[d]
                                                \/ conn[d].state # "NONE" /\ Step(conn[d], conn'[d])
  BY <1>1, <1>11, <1>13, <1>14 DEF IoInv, ConnInv
<1> QED BY <1>3, <1>15, ConnsStep

\* The elements of the mailboxes.
LEMMA MailTypes ==
  ASSUME BoxInv
  PROVE  /\ mailbox[Pending] \in Seq(PendingMails) /\ mailbox[Packets] \in Seq(PacketMails)
         /\ mails \in Seq(PendingMails \cup PacketMails)
         /\ \A i \in DOMAIN mailbox[Pending] :
              mailbox[Pending][i].box = Pending /\ mailbox[Pending][i].conn \in Conns
         /\ \A i \in DOMAIN mailbox[Packets] :
              mailbox[Packets][i].box = Packets /\ mailbox[Packets][i].conn \in Conns
         /\ \A i \in DOMAIN mails : mails[i].conn \in Conns
<1>1. /\ mailbox[Pending] \in Seq(PendingMails) /\ mailbox[Packets] \in Seq(PacketMails)
      /\ mails \in Seq(PendingMails \cup PacketMails)
  BY DEF BoxInv
<1>2. /\ \A i \in DOMAIN mailbox[Pending] : mailbox[Pending][i] \in PendingMails
      /\ \A i \in DOMAIN mailbox[Packets] : mailbox[Packets][i] \in PacketMails
      /\ \A i \in DOMAIN mails : mails[i] \in PendingMails \cup PacketMails
  BY <1>1, SeqFacts
<1>3. /\ \A m \in PendingMails : m.box = Pending /\ m.conn \in Conns
      /\ \A m \in PacketMails : m.box = Packets /\ m.conn \in Conns
  BY DEF PendingMails, PacketMails
<1> QED BY <1>1, <1>2, <1>3

LEMMA AcceptKeeps ==
  ASSUME IoInv, NEW c \in Conns, NEW kind \in Kinds, Accept(c, kind)
  PROVE  IoInv'
<1> DEFINE m == [box |-> Pending, conn |-> c, kind |-> kind]
           box == mailbox[Pending]
           new == Append(box, m)
<1>1. /\ mailbox' = [mailbox EXCEPT ![Pending] = new] /\ owed' = [owed EXCEPT ![Pending] = owed[Pending] + 1]
      /\ UNCHANGED <<conn, pipe, swapping, mails, active, reported>>
      /\ conn[c].state = "NONE"
      /\ \A i \in DOMAIN box : box[i].conn # c
      /\ \A i \in DOMAIN mails : mails[i].conn # c
  BY DEF Accept, PushInto, Pending, Boxes
<1>2. BoxInv
  BY DEF IoInv
<1>3. m \in PendingMails /\ m.conn = c /\ m.box = Pending
  BY DEF PendingMails
<1>4. /\ box \in Seq(PendingMails) /\ Len(box) \in Nat /\ DOMAIN box = 1 .. Len(box)
      /\ new \in Seq(PendingMails) /\ DOMAIN new = 1 .. Len(box) + 1
      /\ new[Len(box) + 1] = m /\ \A i \in 1 .. Len(box) : new[i] = box[i]
  <2>1. box \in Seq(PendingMails)
    BY <1>2 DEF BoxInv
  <2> HIDE DEF m, box
  <2> QED BY <1>3, <2>1, SeqFacts
<1> HIDE DEF m, box, new
<1>5. DOMAIN mailbox = Boxes /\ Pending \in Boxes /\ Packets \in Boxes /\ Packets # Pending
  BY <1>2 DEF BoxInv, Boxes, Pending, Packets
<1>6. DOMAIN mailbox' = Boxes /\ mailbox'[Pending] = new /\ mailbox'[Packets] = mailbox[Packets]
  BY <1>1, <1>5
<1>7. owed' \in [Boxes -> Nat] /\ owed'[Pending] > 0 /\ \A b \in Boxes : b # Pending => owed'[b] = owed[b]
  <2>1. owed \in [Boxes -> Nat]
    BY <1>2 DEF BoxInv
  <2> QED BY <1>1, <1>5, <2>1
<1>8. BoxInv'
  BY <1>1, <1>2, <1>4, <1>6, <1>7 DEF BoxInv
<1>9. PendInv'
  <2> DEFINE st(x) == conn[x].state = "NONE"
  <2>1. /\ \A i \in DOMAIN mails : mails[i].box = Pending => st(mails[i].conn)
        /\ \A i \in DOMAIN box : st(box[i].conn)
        /\ \A i, j \in DOMAIN mails : mails[i].box = Pending /\ mails[j].box = Pending
                                        /\ mails[i].conn = mails[j].conn => i = j
        /\ \A i, j \in DOMAIN box : box[i].conn = box[j].conn => i = j
        /\ \A i \in DOMAIN mails, j \in DOMAIN box : mails[i].box = Pending => mails[i].conn # box[j].conn
    BY DEF IoInv, PendInv, box
  <2>2. st(c)
    BY <1>1
  <2> HIDE DEF st
  <2>3. \A j \in DOMAIN new : new[j].conn = c \/ (j \in DOMAIN box /\ new[j] = box[j])
    BY <1>3, <1>4
  <2>4. \A j \in DOMAIN new : st(new[j].conn)
    BY <2>1, <2>2, <2>3
  <2>5. \A i \in DOMAIN mails, j \in DOMAIN new : mails[i].box = Pending => mails[i].conn # new[j].conn
    BY <1>1, <2>1, <2>3
  <2>6. \A i, j \in DOMAIN new : new[i].conn = new[j].conn => i = j
    <3> SUFFICES ASSUME NEW i \in DOMAIN new, NEW j \in DOMAIN new, new[i].conn = new[j].conn
                 PROVE  i = j
      OBVIOUS
    <3>1. \A l \in DOMAIN new : l \in DOMAIN box \/ l = Len(box) + 1
      BY <1>4
    <3>2. \A l \in DOMAIN box : new[l] = box[l] /\ new[l].conn # c
      BY <1>1, <1>4
    <3>3. new[Len(box) + 1].conn = c
      BY <1>3, <1>4
    <3> QED BY <2>1, <3>1, <3>2, <3>3
  <2> QED BY <1>1, <1>6, <2>1, <2>4, <2>5, <2>6 DEF PendInv, st
<1>10. ListInv' /\ EntryInv'
  <2>1. \A d \in Conns : Listed(d)' <=> Listed(d)
    BY <1>1 DEF Listed
  <2> QED BY <1>1, <2>1 DEF IoInv, ListInv, EntryInv
<1>11. RefInv'
  <2>1. \A d \in Conns : MailsFor(d)' = MailsFor(d)
    BY <1>1, <1>6 DEF MailsFor, Packets
  <2> QED BY <1>1, <2>1 DEF IoInv, RefInv
<1>12. NoStrandedMail'
  <2>1. \A b \in Boxes : b # Pending => mailbox'[b] = mailbox[b]
    BY <1>1, <1>5
  <2>2. \A b \in Boxes : mailbox[b] # <<>> => owed[b] > 0 \/ pipe[b] \/ swapping = b
    BY DEF IoInv, NoStrandedMail
  <2>3. \A b \in Boxes : mailbox'[b] # <<>> => owed'[b] > 0 \/ pipe[b] \/ swapping = b
    BY <1>7, <2>1, <2>2
  <2> QED BY <1>1, <2>3 DEF NoStrandedMail
<1>13. ConnInv'
  BY <1>1 DEF IoInv, ConnInv
<1> QED BY <1>8, <1>9, <1>10, <1>11, <1>12, <1>13 DEF IoInv

LEMMA PushPacketKeeps ==
  ASSUME IoInv, NEW c \in Conns, PushPacket(c)
  PROVE  IoInv'
<1> DEFINE m == PacketMail(c)
           box == mailbox[Packets]
           new == Append(box, m)
           k == conn[c]
           r == [k EXCEPT !.ref_cnt = @ + 1]
<1>1. /\ mailbox' = [mailbox EXCEPT ![Packets] = new] /\ owed' = [owed EXCEPT ![Packets] = owed[Packets] + 1]
      /\ UNCHANGED <<pipe, swapping, mails, active, reported>>
      /\ conn' = [conn EXCEPT ![c] = r] /\ k.held
  BY DEF PushPacket, PushInto, Packets, Boxes, PacketMail
<1>2. BoxInv /\ DOMAIN conn = Conns
  BY DEF IoInv, ConnInv
<1>3. m \in PacketMails
  BY DEF PacketMails, PacketMail, Packets
<1>4. /\ box \in Seq(PacketMails) /\ new \in Seq(PacketMails)
      /\ \A x : Count(new, x) = Count(box, x) + IF m = x THEN 1 ELSE 0
      /\ \A x : Count(box, x) \in Nat
  <2>1. box \in Seq(PacketMails)
    BY <1>2 DEF BoxInv
  <2> HIDE DEF m, box
  <2>2. new \in Seq(PacketMails)
    BY <1>3, <2>1, SeqFacts
  <2>3. \A x : Count(new, x) = Count(box, x) + IF m = x THEN 1 ELSE 0
    BY <1>3, <2>1, CountAppend
  <2>4. \A x : Count(box, x) \in Nat
    BY <2>1, CountType
  <2> QED BY <2>1, <2>2, <2>3, <2>4
<1> HIDE DEF box, new
<1>5. DOMAIN mailbox = Boxes /\ Pending \in Boxes /\ Packets \in Boxes /\ Packets # Pending
  BY <1>2 DEF BoxInv, Boxes, Pending, Packets
<1>6. DOMAIN mailbox' = Boxes /\ mailbox'[Packets] = new /\ mailbox'[Pending] = mailbox[Pending]
  BY <1>1, <1>5
<1>7. owed' \in [Boxes -> Nat] /\ owed'[Packets] > 0 /\ \A b \in Boxes : b # Packets => owed'[b] = owed[b]
  <2>1. owed \in [Boxes -> Nat]
    BY <1>2 DEF BoxInv
  <2> QED BY <1>1, <1>5, <2>1
<1>8. BoxInv'
  BY <1>1, <1>2, <1>4, <1>6, <1>7 DEF BoxInv
<1>9. Alive(k)
  BY <1>1, HeldIsAlive
<1> HIDE DEF k
<1>10. /\ DOMAIN r = Fields /\ r.handlers = k.handlers /\ r.removing = k.removing
       /\ r.ref_cnt = k.ref_cnt + 1 /\ r.in_map = k.in_map /\ r.held = k.held
       /\ r.state = k.state
  BY <1>9 DEF Alive, ConnOK, Fields
<1> HIDE DEF r
<1>11. ConnOK(r)
  BY <1>9, <1>10 DEF Alive, ConnOK
<1>12. /\ DOMAIN conn' = Conns /\ conn'[c] = r /\ \A d \in Conns : d # c => conn'[d] = conn[d]
       /\ conn[c] = k
  BY <1>1, <1>2 DEF k
<1>13. ConnInv'
  BY <1>11, <1>12 DEF IoInv, ConnInv
<1>14. PendInv'
  <2> DEFINE st(x) == conn[x].state = "NONE"
             st2(x) == conn'[x].state = "NONE"
  <2>1. \A d \in Conns : st(d) => st2(d)
    BY <1>10, <1>12
  <2>2. /\ \A i \in DOMAIN mails : mails[i].box = Pending => st(mails[i].conn)
        /\ \A i \in DOMAIN mailbox[Pending] : st(mailbox[Pending][i].conn)
    BY DEF IoInv, PendInv
  <2>3. /\ \A i \in DOMAIN mails : mails[i].conn \in Conns
        /\ \A i \in DOMAIN mailbox[Pending] : mailbox[Pending][i].conn \in Conns
    BY <1>2, MailTypes
  <2> HIDE DEF st, st2
  <2>4. /\ \A i \in DOMAIN mails : mails[i].box = Pending => st2(mails[i].conn)
        /\ \A i \in DOMAIN mailbox[Pending] : st2(mailbox[Pending][i].conn)
    BY <2>1, <2>2, <2>3
  <2>5. PendInv
    BY DEF IoInv
  <2> QED BY <1>1, <1>6, <2>4, <2>5 DEF PendInv, st2
<1>15. \A d \in Conns : Handlers(conn'[d]) = Handlers(conn[d]) /\ Holders(conn'[d]) = Holders(conn[d])
  <2>1. Handlers(r) = Handlers(k) /\ Holders(r) = Holders(k)
    BY <1>10, Zenon DEF Handlers, Holders
  <2> QED BY <1>12, <2>1
<1>16. ListInv' /\ EntryInv'
  <2>1. \A d \in Conns : Listed(d)' <=> Listed(d)
    BY <1>1 DEF Listed
  <2> QED BY <1>1, <1>15, <2>1 DEF IoInv, ListInv, EntryInv
<1>17. RefInv'
  <2> SUFFICES ASSUME NEW d \in Conns
               PROVE  conn'[d].ref_cnt = Holders(conn'[d]) + MailsFor(d)'
    BY DEF RefInv
  <2>1. MailsFor(d) = Count(mails, PacketMail(d)) + Count(box, PacketMail(d))
    BY DEF MailsFor, box, Packets
  <2>2. MailsFor(d)' = Count(mails, PacketMail(d)) + Count(new, PacketMail(d))
    BY <1>1, <1>6 DEF MailsFor, Packets
  <2>3. m = PacketMail(d) <=> c = d
    BY DEF PacketMail
  <2> HIDE DEF m
  <2>4. Count(mails, PacketMail(d)) \in Nat
    BY <1>2, CountType DEF BoxInv
  <2>5. MailsFor(d)' = MailsFor(d) + IF c = d THEN 1 ELSE 0
    BY <1>4, <2>1, <2>2, <2>3, <2>4
  <2>6. /\ conn[d].ref_cnt = Holders(conn[d]) + MailsFor(d)
        /\ Holders(conn[d]) \in Nat /\ MailsFor(d) \in Nat
    BY HeldIsAlive, Numbers DEF IoInv, RefInv
  <2>7. conn'[d].ref_cnt = conn[d].ref_cnt + IF c = d THEN 1 ELSE 0
    <3>1. conn[d].ref_cnt \in Int
      BY <2>6
    <3> QED BY <1>10, <1>12, <3>1
  <2> QED BY <1>15, <2>5, <2>6, <2>7
<1>18. NoStrandedMail'
  <2>1. \A b \in Boxes : b # Packets => mailbox'[b] = mailbox[b]
    BY <1>1, <1>5
  <2>2. \A b \in Boxes : mailbox[b] # <<>> => owed[b] > 0 \/ pipe[b] \/ swapping = b
    BY DEF IoInv, NoStrandedMail
  <2>3. \A b \in Boxes : mailbox'[b] # <<>> => owed'[b] > 0 \/ pipe[b] \/ swapping = b
    BY <1>7, <2>1, <2>2
  <2> QED BY <1>1, <2>3 DEF NoStrandedMail
<1> QED BY <1>8, <1>13, <1>14, <1>16, <1>17, <1>18 DEF IoInv

LEMMA CallNotifierKeeps ==
  ASSUME IoInv, CallNotifier
  PROVE  IoInv'
<1> USE DEF CallNotifier
<1> DEFINE b == Head(active).of
<1>1. ListInv' /\ \A c \in Conns : Listed(c)' => Listed(c)
  BY OneCalled
<1>2. /\ b \in Boxes /\ pipe' = [pipe EXCEPT ![b] = FALSE] /\ swapping' = b
      /\ UNCHANGED <<conn, mailbox, owed, mails>> /\ swapping = None /\ mails = <<>>
  BY DEF Idle
<1> HIDE DEF b
<1>3. pipe \in [Boxes -> BOOLEAN]
  BY DEF IoInv, BoxInv
<1>4. pipe' \in [Boxes -> BOOLEAN]
  BY <1>2, <1>3, Zenon
<1>5. \A d \in Boxes : d # b => (pipe'[d] <=> pipe[d])
  BY <1>2, <1>3
<1>6. BoxInv'
  BY <1>2, <1>4 DEF IoInv, BoxInv
<1>7. NoStrandedMail'
  <2>1. \A d \in Boxes : mailbox[d] # <<>> => owed[d] > 0 \/ pipe[d] \/ swapping = d
    BY DEF IoInv, NoStrandedMail
  <2>2. \A d \in Boxes : swapping # d
    BY <1>2 DEF Boxes, None
  <2>3. \A d \in Boxes : mailbox[d] # <<>> => owed[d] > 0 \/ pipe'[d] \/ b = d
    BY <1>5, <2>1, <2>2
  <2> QED BY <1>2, <2>3 DEF NoStrandedMail
<1> QED BY <1>1, <1>2, <1>6, <1>7, ConnsStep DEF IoInv, ConnInv

LEMMA SwapMailboxKeeps ==
  ASSUME IoInv, SwapMailbox
  PROVE  IoInv'
<1> DEFINE b == swapping
<1>1. /\ mails' = mailbox[b] /\ mailbox' = [mailbox EXCEPT ![b] = <<>>] /\ swapping' = None
      /\ UNCHANGED <<conn, owed, pipe, active, reported>> /\ swapping # None
  BY DEF SwapMailbox
<1>2. /\ BoxInv /\ DOMAIN mailbox = Boxes /\ mails = <<>> /\ b \in Boxes
      /\ owed \in [Boxes -> Nat] /\ pipe \in [Boxes -> BOOLEAN]
      /\ mailbox[Pending] \in Seq(PendingMails) /\ mailbox[Packets] \in Seq(PacketMails)
  BY <1>1 DEF IoInv, BoxInv
<1> HIDE DEF b
<1>3. b \in {Pending, Packets} /\ Pending # Packets
  BY <1>2 DEF Boxes, Pending, Packets
<1>4. /\ DOMAIN mailbox' = Boxes /\ mailbox'[b] = <<>>
      /\ \A d \in Boxes : d # b => mailbox'[d] = mailbox[d]
  BY <1>1, <1>2
<1>5. BoxInv'
  <2>1. mails' \in Seq(PendingMails \cup PacketMails)
    BY <1>1, <1>2, <1>3, SeqMonotonic
  <2>2. mailbox'[Pending] \in Seq(PendingMails) /\ mailbox'[Packets] \in Seq(PacketMails)
    BY <1>2, <1>3, <1>4, EmptySeq DEF Boxes, Pending, Packets
  <2> QED BY <1>1, <1>2, <1>4, <2>1, <2>2 DEF BoxInv
<1>6. ConnInv'
  BY <1>1 DEF IoInv, ConnInv
<1>7. ListInv' /\ EntryInv'
  <2>1. \A d \in Conns : Listed(d)' <=> Listed(d)
    BY <1>1 DEF Listed
  <2> QED BY <1>1, <2>1 DEF IoInv, ListInv, EntryInv
<1>8. NoStrandedMail'
  <2>1. \A d \in Boxes : mailbox[d] # <<>> => owed[d] > 0 \/ pipe[d] \/ b = d
    BY DEF IoInv, NoStrandedMail, b
  <2>2. \A d \in Boxes : mailbox'[d] # <<>> => owed[d] > 0 \/ pipe[d]
    BY <1>4, <2>1
  <2> QED BY <1>1, <2>2 DEF NoStrandedMail
<1>9. PendInv'
  <2> DEFINE st(x) == conn[x].state = "NONE"
  <2>1. /\ \A i \in DOMAIN mailbox[Pending] : st(mailbox[Pending][i].conn)
        /\ \A i, j \in DOMAIN mailbox[Pending] :
             mailbox[Pending][i].conn = mailbox[Pending][j].conn => i = j
    BY DEF IoInv, PendInv
  <2>2. \A i \in DOMAIN mailbox[Packets] : mailbox[Packets][i].box # Pending
    BY <1>2, <1>3, MailTypes
  <2>3. DOMAIN <<>> = {}
    OBVIOUS
  <2> HIDE DEF st
  <2>4. CASE b = Pending
    <3>1. mails' = mailbox[Pending] /\ DOMAIN mailbox'[Pending] = {}
      BY <1>1, <1>4, <2>3, <2>4
    <3> QED BY <1>1, <2>1, <3>1 DEF PendInv, st
  <2>5. CASE b = Packets
    <3>1. mails' = mailbox[Packets] /\ mailbox'[Pending] = mailbox[Pending]
      BY <1>1, <1>3, <1>4, <2>5 DEF Boxes, Pending
    <3> QED BY <1>1, <2>1, <2>2, <3>1 DEF PendInv, st
  <2> QED BY <1>3, <2>4, <2>5
<1>10. \A c \in Conns : MailsFor(c)' = MailsFor(c)
  <2> SUFFICES ASSUME NEW c \in Conns
               PROVE  MailsFor(c)' = MailsFor(c)
    OBVIOUS
  <2> DEFINE x == PacketMail(c)
  <2>1. Count(<<>>, x) = 0
    BY <1>2, CountType
  <2>2. Count(mailbox[Packets], x) \in Nat
    BY <1>2, CountType
  <2>3. Count(mailbox[Pending], x) = 0
    <3>1. \A i \in DOMAIN mailbox[Pending] : mailbox[Pending][i].box = Pending
      BY <1>2, MailTypes
    <3>2. x.box = Packets
      BY DEF PacketMail, Packets
    <3>3. \A i \in DOMAIN mailbox[Pending] : mailbox[Pending][i] # x
      BY <1>3, <3>1, <3>2
    <3> HIDE DEF x
    <3> QED BY <1>2, <3>3, CountType
  <2>4. MailsFor(c) = Count(mails, x) + Count(mailbox[Packets], x)
    BY DEF MailsFor, Packets
  <2>5. MailsFor(c)' = Count(mails', x) + Count(mailbox'[Packets], x)
    BY DEF MailsFor, Packets
  <2> HIDE DEF x
  <2>6. CASE b = Pending
    <3>1. mails' = mailbox[Pending] /\ mailbox'[Packets] = mailbox[Packets]
      BY <1>1, <1>3, <1>4, <2>6 DEF Boxes, Packets
    <3> QED BY <1>2, <2>1, <2>2, <2>3, <2>4, <2>5, <3>1
  <2>7. CASE b = Packets
    <3>1. mails' = mailbox[Packets] /\ mailbox'[Packets] = <<>>
      BY <1>1, <1>4, <2>7
    <3> QED BY <1>2, <2>1, <2>2, <2>4, <2>5, <3>1
  <2> QED BY <1>3, <2>6, <2>7
<1>11. RefInv'
  BY <1>1, <1>10 DEF IoInv, RefInv
<1> QED BY <1>5, <1>6, <1>7, <1>8, <1>9, <1>11 DEF IoInv

LEMMA EndRoundKeeps ==
  ASSUME IoInv, EndRound
  PROVE  IoInv'
<1>1. /\ active = <<>> /\ reported = {}
      /\ conn' = [c \in Conns |-> IF conn[c].removing = 0 THEN conn[c]
                                  ELSE [Release(conn[c], conn[c].removing) EXCEPT !.removing = 0]]
      /\ UNCHANGED <<mailbox, owed, pipe, swapping, mails, active, reported>>
  BY DEF EndRound
<1>2. BoxInv' /\ NoStrandedMail' /\ ListInv'
  BY <1>1, MailsKept, ListsKept
<1>3. ASSUME NEW c \in Conns
      PROVE  /\ ConnOK(conn'[c]) /\ (conn[c].state = "NONE" => conn'[c].state = "NONE")
             /\ conn'[c].ref_cnt = Holders(conn'[c]) + MailsFor(c)
  <2> DEFINE k == conn[c]
             n == k.removing
             u == [k EXCEPT !.removing = 0]
             r == [Release(k, n) EXCEPT !.removing = 0]
  <2>1. conn'[c] = IF n = 0 THEN k ELSE r
    BY <1>1
  <2>2. ConnOK(k) /\ k.ref_cnt = Holders(k) + MailsFor(c) /\ MailsFor(c) \in Nat
    BY HeldIsAlive DEF IoInv, RefInv
  <2>3. CASE n = 0
    BY <2>1, <2>2, <2>3
  <2>4. CASE n # 0
    <3> HIDE DEF k
    <3>1. /\ DOMAIN u = Fields /\ u.state = k.state /\ u.in_map = k.in_map /\ u.held = k.held
          /\ u.handlers = k.handlers /\ u.removing = 0 /\ u.ref_cnt = k.ref_cnt
      BY <2>2 DEF ConnOK, Fields
    <3>2. /\ DOMAIN r = Fields /\ r.in_map = k.in_map /\ r.held = k.held
          /\ r.handlers = k.handlers /\ r.removing = 0 /\ r.ref_cnt = k.ref_cnt - n
          /\ r.state = (IF k.ref_cnt = n THEN "FREED" ELSE k.state)
      BY <2>2 DEF ConnOK, Fields, Release
    <3> HIDE DEF u, r
    <3>3. ConnOK(u)
      BY <2>2, <3>1 DEF ConnOK
    <3>4. n \in Nat /\ n >= 1
      BY <2>2, <2>4 DEF ConnOK
    <3>5. Bal(u) = MailsFor(c) + n
      <4>1. PICK a \in Nat, i \in Nat, j \in Nat :
              a = Len(k.handlers) /\ i = One(k.in_map) /\ j = One(k.held)
        BY <2>2, Numbers
      <4>2. a = Len(u.handlers) /\ i = One(u.in_map) /\ j = One(u.held)
        BY <3>1, <4>1
      <4>3. Holders(k) = a + n + i + j
        BY <4>1, Zenon DEF Holders
      <4>4. Bal(u) = k.ref_cnt - (a + 0 + i + j)
        BY <3>1, <4>2, Zenon DEF Bal, Holders
      <4> QED BY <2>2, <3>4, <4>3, <4>4
    <3> HIDE DEF n
    <3>6. ConnOK(r) /\ r.state # "NONE" /\ Bal(r) = Bal(u) - n
      <4>1. Bal(u) >= n
        BY <2>2, <3>4, <3>5
      <4> QED BY <3>1, <3>2, <3>3, <3>4, <4>1, Released
    <3>7. r.ref_cnt = Holders(r) + MailsFor(c)
      <4>1. Holders(r) \in Nat /\ r.ref_cnt \in Int
        BY <3>6, Numbers
      <4> QED BY <2>2, <3>4, <3>5, <3>6, <4>1 DEF Bal
    <3>8. k.state # "NONE"
      <4>1. Holders(k) \in Nat /\ Holders(k) >= Handlers(k) /\ Len(k.handlers) \in Nat
        BY <2>2, Numbers
      <4>2. Handlers(k) >= 1
        BY <3>4, <4>1 DEF Handlers, n
      <4>3. Handlers(k) \in Nat
        BY <2>2, Numbers
      <4>4. k.ref_cnt # 0
        BY <2>2, <4>1, <4>2, <4>3
      <4> QED BY <2>2, <4>4 DEF ConnOK
    <3> QED BY <2>1, <2>4, <3>6, <3>7, <3>8 DEF k, n
  <2> QED BY <2>3, <2>4
<1>4. ConnInv'
  <2>1. DOMAIN conn' = Conns
    BY <1>1
  <2> QED BY <1>3, <2>1 DEF ConnInv
<1>5. RefInv'
  <2>1. \A c \in Conns : MailsFor(c)' = MailsFor(c)
    BY <1>1 DEF MailsFor
  <2> QED BY <1>3, <2>1 DEF RefInv
<1>6. EntryInv'
  <2>1. \A c \in Conns : ~ Listed(c)'
    BY <1>1 DEF Listed
  <2> QED BY <2>1 DEF EntryInv
<1>7. PendInv'
  <2> DEFINE st(x) == conn[x].state = "NONE"
             st2(x) == conn'[x].state = "NONE"
  <2>1. \A d \in Conns : st(d) => st2(d)
    BY <1>3
  <2>2. /\ \A i \in DOMAIN mails : mails[i].box = Pending => st(mails[i].conn)
        /\ \A i \in DOMAIN mailbox[Pending] : st(mailbox[Pending][i].conn)
    BY DEF IoInv, PendInv
  <2>3. /\ \A i \in DOMAIN mails : mails[i].conn \in Conns
        /\ \A i \in DOMAIN mailbox[Pending] : mailbox[Pending][i].conn \in Conns
    BY MailTypes DEF IoInv
  <2> HIDE DEF st, st2
  <2>4. /\ \A i \in DOMAIN mails : mails[i].box = Pending => st2(mails[i].conn)
        /\ \A i \in DOMAIN mailbox[Pending] : st2(mailbox[Pending][i].conn)
    BY <2>1, <2>2, <2>3
  <2>5. PendInv
    BY DEF IoInv
  <2> QED BY <1>1, <2>4, <2>5 DEF PendInv, st2
<1> QED BY <1>2, <1>4, <1>5, <1>6, <1>7 DEF IoInv

\* new_tcp_connection_handler: the new connection has a reference for tcp_conns
\* and one for each of its two handlers.
LEMMA NewConnOK ==
  ASSUME NEW kind \in Kinds
  PROVE  ConnOK(NewConn(kind)) /\ Bal(NewConn(kind)) = 0
<1> DEFINE new == [NoConn EXCEPT !.state = IF kind = "mqtts" THEN "SSL_HANDSHAKING" ELSE "CONNECTED",
                                 !.kind = kind, !.in_map = TRUE, !.ref_cnt = 1]
           one == Register(new, "read")
           two == Register(one, "error")
<1>1. /\ DOMAIN new = Fields /\ new.handlers = <<>> /\ new.removing = 0 /\ new.ref_cnt = 1
      /\ new.in_map = TRUE /\ new.held = FALSE
      /\ new.state \in {"SSL_HANDSHAKING", "CONNECTED"}
  <2>1. /\ DOMAIN NoConn = Fields /\ NoConn.handlers = <<>> /\ NoConn.removing = 0
        /\ NoConn.held = FALSE
    BY DEF NoConn, Fields
  <2> QED BY <2>1 DEF Fields
<1>2. NewConn(kind) = two
  BY DEF NewConn
<1> HIDE DEF new
<1>3. Alive(new)
  <2>1. <<>> \in Seq(Names)
    OBVIOUS
  <2>2. new.state \in States /\ new.state \in Open /\ new.state \notin {"NONE", "FREED"}
    BY <1>1 DEF States, Open
  <2>3. new.in_map \in BOOLEAN /\ new.held \in BOOLEAN /\ (new.state \in Open => new.in_map)
    BY <1>1, <2>2
  <2>4. new.ref_cnt \in Int /\ new.removing \in Nat /\ new.ref_cnt # 0 /\ new.ref_cnt >= 1
    BY <1>1
  <2>5. new.handlers \in Seq(Names)
    BY <1>1, <2>1
  <2> QED BY <1>1, <2>2, <2>3, <2>4, <2>5 DEF Alive, ConnOK
<1>4. Bal(new) = 0
  <2>1. Len(new.handlers) = 0 /\ One(new.in_map) = 1 /\ One(new.held) = 0
    BY <1>1, Ones
  <2>2. Bal(new) = 1 - (0 + 0 + 1 + 0)
    BY <1>1, <2>1, Zenon DEF Bal, Holders
  <2> QED BY <2>2
<1>5. Step(new, one) /\ Alive(one)
  BY <1>3, RegisterStep DEF Names
<1> HIDE DEF one
<1>6. Step(one, two)
  BY <1>5, RegisterStep DEF Names
<1> HIDE DEF two
<1> QED BY <1>2, <1>4, <1>5, <1>6 DEF Step

\* The head of the mails: what is left, and whose count it was in.
LEMMA OneMail ==
  ASSUME IoInv, mails # <<>>, mails' = Tail(mails), mailbox' = mailbox
  PROVE  LET m == Head(mails) IN
         /\ m = mails[1] /\ 1 \in DOMAIN mails
         /\ m \in PendingMails \/ (m \in PacketMails /\ m = PacketMail(m.conn))
         /\ m.conn \in Conns
         /\ mails' \in Seq(PendingMails \cup PacketMails)
         /\ \A i \in DOMAIN mails' : i + 1 \in DOMAIN mails /\ i + 1 # 1 /\ mails'[i] = mails[i + 1]
         /\ \A i, j \in DOMAIN mails' : i + 1 = j + 1 => i = j
         /\ \A d \in Conns : MailsFor(d)' = MailsFor(d) - (IF m = PacketMail(d) THEN 1 ELSE 0)
<1> DEFINE m == Head(mails)
           M == PendingMails \cup PacketMails
<1>1. mails \in Seq(M)
  BY DEF IoInv, BoxInv
<1>2. /\ Len(mails) \in Nat /\ Len(mails) >= 1 /\ DOMAIN mails = 1 .. Len(mails)
      /\ Tail(mails) \in Seq(M) /\ DOMAIN Tail(mails) = 1 .. Len(mails) - 1
      /\ \A i \in 1 .. Len(mails) - 1 : Tail(mails)[i] = mails[i + 1]
      /\ m = mails[1] /\ mails[1] \in M
  <2> HIDE DEF M
  <2> QED BY <1>1, SeqFacts
<1>3. m \in PendingMails \/ (m \in PacketMails /\ m = PacketMail(m.conn))
  <2>1. ASSUME NEW x \in PacketMails
        PROVE  x = PacketMail(x.conn)
    BY DEF PacketMails, PacketMail, Packets
  <2> QED BY <1>2, <2>1
<1>4. m.conn \in Conns
  BY <1>3 DEF PendingMails, PacketMails
<1>5. /\ \A i \in DOMAIN mails' : i + 1 \in DOMAIN mails /\ i + 1 # 1 /\ mails'[i] = mails[i + 1]
      /\ \A i, j \in DOMAIN mails' : i + 1 = j + 1 => i = j
  BY <1>2
<1>6. ASSUME NEW d \in Conns
      PROVE  MailsFor(d)' = MailsFor(d) - (IF m = PacketMail(d) THEN 1 ELSE 0)
  <2> DEFINE x == PacketMail(d)
  <2>1. Count(mails, x) = Count(Tail(mails), x) + IF m = x THEN 1 ELSE 0
    <3> HIDE DEF M, x
    <3> QED BY <1>1, CountTail
  <2>2. Count(mails, x) \in Nat /\ Count(Tail(mails), x) \in Nat
    <3> HIDE DEF M, x
    <3>1. Count(mails, x) \in Nat
      BY <1>1, CountType
    <3>2. Count(Tail(mails), x) \in Nat
      BY <1>2, CountType
    <3> QED BY <3>1, <3>2
  <2>3. Count(mailbox[Packets], x) \in Nat
    <3> HIDE DEF x
    <3> QED BY CountType DEF IoInv, BoxInv
  <2>4. MailsFor(d) = Count(mails, x) + Count(mailbox[Packets], x)
    BY DEF MailsFor, Packets
  <2>5. MailsFor(d)' = Count(Tail(mails), x) + Count(mailbox[Packets], x)
    BY DEF MailsFor, Packets
  <2> HIDE DEF x, m
  <2>6. MailsFor(d)' = MailsFor(d) - (IF m = x THEN 1 ELSE 0)
    BY <2>1, <2>2, <2>3, <2>4, <2>5
  <2> QED BY <2>6 DEF x
<1> QED BY <1>2, <1>3, <1>4, <1>5, <1>6

\* A mail is handled: what is left of the mails is where it was.
LEMMA MailHandled ==
  ASSUME IoInv, mails # <<>>, mails' = Tail(mails), mailbox' = mailbox,
         UNCHANGED <<owed, pipe, swapping>>, swapping = None,
         NEW c \in Conns, c = Head(mails).conn,
         \A d \in Conns : d # c => conn'[d] = conn[d],
         \/ Head(mails).box = Pending
         \/ conn[c].state # "NONE"
  PROVE  BoxInv' /\ NoStrandedMail' /\ PendInv'
<1> DEFINE m == Head(mails)
           st(x) == conn[x].state = "NONE"
           st2(x) == conn'[x].state = "NONE"
<1>1. /\ m = mails[1] /\ 1 \in DOMAIN mails
      /\ mails' \in Seq(PendingMails \cup PacketMails)
      /\ \A i \in DOMAIN mails' : i + 1 \in DOMAIN mails /\ i + 1 # 1 /\ mails'[i] = mails[i + 1]
      /\ \A i, j \in DOMAIN mails' : i + 1 = j + 1 => i = j
  BY OneMail
<1>2. BoxInv'
  BY <1>1 DEF IoInv, BoxInv
<1>3. NoStrandedMail'
  BY DEF IoInv, NoStrandedMail
<1>4. /\ \A i \in DOMAIN mails : mails[i].box = Pending => st(mails[i].conn)
      /\ \A i \in DOMAIN mailbox[Pending] : st(mailbox[Pending][i].conn)
      /\ \A i, j \in DOMAIN mails : mails[i].box = Pending /\ mails[j].box = Pending
                                      /\ mails[i].conn = mails[j].conn => i = j
      /\ \A i, j \in DOMAIN mailbox[Pending] :
           mailbox[Pending][i].conn = mailbox[Pending][j].conn => i = j
      /\ \A i \in DOMAIN mails, j \in DOMAIN mailbox[Pending] :
           mails[i].box = Pending => mails[i].conn # mailbox[Pending][j].conn
  BY DEF IoInv, PendInv
<1>5. /\ \A i \in DOMAIN mailbox[Pending] : mailbox[Pending][i].conn \in Conns
      /\ \A i \in DOMAIN mails : mails[i].conn \in Conns
  BY MailTypes DEF IoInv
<1>6. \A d \in Conns : d # c /\ st(d) => st2(d)
  OBVIOUS
<1>7. mails[1].box = Pending \/ ~ st(c)
  BY <1>1
<1>8. c = mails[1].conn
  BY <1>1
<1> HIDE DEF st, st2, m
<1>9. \A i \in DOMAIN mailbox[Pending] : st2(mailbox[Pending][i].conn)
  BY <1>1, <1>4, <1>5, <1>6, <1>7, <1>8
<1>10. \A i \in DOMAIN mails' : mails'[i].box = Pending => st2(mails'[i].conn)
  <2> SUFFICES ASSUME NEW i \in DOMAIN mails', mails'[i].box = Pending
               PROVE  st2(mails'[i].conn)
    OBVIOUS
  <2>1. /\ i + 1 \in DOMAIN mails /\ i + 1 # 1 /\ mails'[i] = mails[i + 1]
        /\ mails[i + 1].box = Pending
    BY <1>1
  <2>2. mails[i + 1].conn # c
    BY <1>1, <1>4, <1>7, <1>8, <2>1
  <2>3. st(mails[i + 1].conn) /\ mails[i + 1].conn \in Conns
    BY <1>4, <1>5, <2>1
  <2> QED BY <1>6, <2>1, <2>2, <2>3
<1>11. \A i, j \in DOMAIN mails' : mails'[i].box = Pending /\ mails'[j].box = Pending
                                     /\ mails'[i].conn = mails'[j].conn => i = j
  <2> SUFFICES ASSUME NEW i \in DOMAIN mails', NEW j \in DOMAIN mails', mails'[i].box = Pending,
                      mails'[j].box = Pending, mails'[i].conn = mails'[j].conn
               PROVE  i = j
    OBVIOUS
  <2>1. /\ i + 1 \in DOMAIN mails /\ mails'[i] = mails[i + 1]
        /\ j + 1 \in DOMAIN mails /\ mails'[j] = mails[j + 1]
    BY <1>1
  <2>2. i + 1 = j + 1
    BY <1>4, <2>1
  <2> QED BY <1>1, <2>2
<1>12. \A i \in DOMAIN mails', j \in DOMAIN mailbox[Pending] :
         mails'[i].box = Pending => mails'[i].conn # mailbox[Pending][j].conn
  BY <1>1, <1>4
<1>13. PendInv'
  BY <1>4, <1>9, <1>10, <1>11, <1>12 DEF PendInv, st2
<1> QED BY <1>2, <1>3, <1>13

LEMMA HandleMailKeeps ==
  ASSUME IoInv, HandleMail
  PROVE  IoInv'
<1> DEFINE m == Head(mails)
<1>0. PICK c : c = m.conn
  OBVIOUS
<1> DEFINE k == conn[c]
<1>1. /\ mails # <<>> /\ swapping = None /\ mails' = Tail(mails)
      /\ UNCHANGED <<mailbox, owed, pipe, swapping, active, reported>>
      /\ \/ /\ m.box = Pending
            /\ conn' = [conn EXCEPT ![c] = NewConn(m.kind)]
         \/ /\ m.box = Packets
            /\ \E q \in SendAnyPacket(k, peer[c] = "reset") :
                 conn' = [conn EXCEPT ![c] = Release(q, 1)]
  BY <1>0 DEF HandleMail, Pending, Packets
<1>2. /\ m = mails[1] /\ 1 \in DOMAIN mails /\ c \in Conns
      /\ m \in PendingMails \/ (m \in PacketMails /\ m = PacketMail(c))
      /\ \A d \in Conns : MailsFor(d)' = MailsFor(d) - (IF m = PacketMail(d) THEN 1 ELSE 0)
  BY <1>0, <1>1, OneMail
<1>3. /\ ListInv' /\ \A d \in Conns : Listed(d)' => Listed(d)
      /\ DOMAIN conn = Conns
  BY <1>1, ListsKept DEF IoInv, ConnInv
<1>4. ConnOK(k) /\ k.ref_cnt = Holders(k) + MailsFor(c) /\ MailsFor(c) \in Nat
  BY <1>2, HeldIsAlive DEF IoInv, RefInv
<1> HIDE DEF m, k
<1>5. /\ Holders(k) \in Nat /\ Handlers(k) \in Nat /\ Holders(k) >= Handlers(k)
      /\ k.ref_cnt \in Int /\ Bal(k) = MailsFor(c)
  <2>1. /\ Holders(k) \in Nat /\ Handlers(k) \in Nat /\ Holders(k) >= Handlers(k)
        /\ k.ref_cnt \in Int
    BY <1>4, Numbers
  <2> QED BY <1>4, <2>1 DEF Bal
<1>6. Pending # Packets
  BY DEF Pending, Packets
\* Once the new record of c is right, everything is.
<1>7. ASSUME NEW r, conn' = [conn EXCEPT ![c] = r], ConnOK(r),
             r.ref_cnt = Holders(r) + MailsFor(c)', Listed(c) => Handlers(r) >= 1,
             m.box = Pending \/ k.state # "NONE",
             \A d \in Conns : d # c => MailsFor(d)' = MailsFor(d)
      PROVE  IoInv'
  <2>1. /\ DOMAIN conn' = Conns /\ conn'[c] = r /\ \A d \in Conns : d # c => conn'[d] = conn[d]
    BY <1>2, <1>3, <1>7
  <2>2. BoxInv' /\ NoStrandedMail' /\ PendInv'
    BY <1>0, <1>1, <1>2, <1>7, <2>1, MailHandled DEF m, k
  <2>3. ConnInv'
    BY <1>7, <2>1 DEF IoInv, ConnInv
  <2>4. RefInv'
    BY <1>7, <2>1 DEF IoInv, RefInv
  <2>5. EntryInv'
    BY <1>3, <1>7, <2>1 DEF IoInv, EntryInv
  <2> QED BY <1>3, <2>2, <2>3, <2>4, <2>5 DEF IoInv
<1>8. CASE m.box = Pending
  <2> DEFINE r == NewConn(m.kind)
  <2>1. m \in PendingMails /\ conn' = [conn EXCEPT ![c] = r]
    BY <1>1, <1>2, <1>6, <1>8 DEF PacketMails
  <2>2. ConnOK(r) /\ Bal(r) = 0
    BY <2>1, NewConnOK DEF PendingMails
  <2> HIDE DEF r
  <2>3. k.state = "NONE"
    BY <1>0, <1>2, <1>8 DEF IoInv, PendInv, k
  <2>4. k.ref_cnt = 0
    BY <1>4, <2>3 DEF ConnOK
  <2>5. MailsFor(c) = 0 /\ Handlers(k) = 0
    BY <1>4, <1>5, <2>4
  <2>6. ~ Listed(c)
    BY <1>2, <2>5 DEF IoInv, EntryInv, k
  <2>7. \A d : m # PacketMail(d)
    BY <1>6, <1>8 DEF PacketMail, Packets
  <2>8. \A d \in Conns : MailsFor(d)' = MailsFor(d)
    <3>1. \A d \in Conns : MailsFor(d) \in Nat
      BY HeldIsAlive
    <3> QED BY <1>2, <2>7, <3>1
  <2>9. r.ref_cnt = Holders(r) + MailsFor(c)'
    <3>1. Holders(r) \in Nat /\ r.ref_cnt \in Int
      BY <2>2, Numbers
    <3>2. MailsFor(c)' = 0
      BY <1>2, <2>5, <2>8
    <3> QED BY <2>2, <3>1, <3>2 DEF Bal
  <2> QED BY <1>7, <1>8, <2>1, <2>2, <2>6, <2>8, <2>9
<1>9. CASE m.box = Packets
  <2>1. PICK q \in SendAnyPacket(k, peer[c] = "reset") :
          conn' = [conn EXCEPT ![c] = Release(q, 1)]
    BY <1>1, <1>6, <1>9
  <2> DEFINE r == Release(q, 1)
  <2>2. m = PacketMail(c)
    BY <1>2, <1>6, <1>9 DEF PendingMails
  <2>3. \A d \in Conns : MailsFor(d)' = MailsFor(d) - (IF d = c THEN 1 ELSE 0)
    <3>1. \A d \in Conns : m = PacketMail(d) <=> d = c
      BY <2>2 DEF PacketMail
    <3> QED BY <1>2, <3>1
  <2>4. \A d \in Conns : d # c => MailsFor(d)' = MailsFor(d)
    <3>1. \A d \in Conns : MailsFor(d) \in Nat
      BY HeldIsAlive
    <3> QED BY <2>3, <3>1
  <2>5. MailsFor(c) >= 1
    <3> DEFINE x == PacketMail(c)
    <3>1. mails \in Seq(PendingMails \cup PacketMails) /\ mailbox[Packets] \in Seq(PacketMails)
      BY DEF IoInv, BoxInv
    <3>2. \E i \in DOMAIN mails : mails[i] = x
      BY <1>2, <2>2
    <3>3. MailsFor(c) = Count(mails, x) + Count(mailbox[Packets], x)
      BY DEF MailsFor, Packets
    <3> HIDE DEF x
    <3>4. Count(mails, x) \in Nat /\ Count(mails, x) >= 1
      BY <3>1, <3>2, CountType
    <3>5. Count(mailbox[Packets], x) \in Nat
      BY <3>1, CountType
    <3> QED BY <3>3, <3>4, <3>5
  <2>6. Alive(k)
    BY <1>2, <2>5, HeldIsAlive DEF k
  <2>7. Step(k, q)
    BY <2>1, <2>6, SelfStep, WriteStep DEF SendAnyPacket
  <2>8. ConnOK(q) /\ Bal(q) = MailsFor(c) /\ Handlers(q) >= Handlers(k)
    BY <1>5, <2>7 DEF Step
  <2>9. /\ DOMAIN r = Fields /\ r.state = (IF q.ref_cnt = 1 THEN "FREED" ELSE q.state)
        /\ r.in_map = q.in_map /\ r.handlers = q.handlers /\ r.removing = q.removing
        /\ r.ref_cnt = q.ref_cnt - 1 /\ r.held = q.held
    BY <2>8 DEF Release, ConnOK, Fields
  <2>10. conn' = [conn EXCEPT ![c] = r]
    BY <2>1
  <2> HIDE DEF r
  <2>11. ConnOK(r) /\ Bal(r) = Bal(q) - 1 /\ Handlers(r) = Handlers(q)
    <3>1. Bal(q) >= 1
      BY <2>5, <2>8
    <3> QED BY <2>8, <2>9, <3>1, Released
  <2>12. r.ref_cnt = Holders(r) + MailsFor(c)'
    <3>1. Holders(r) \in Nat /\ r.ref_cnt \in Int
      BY <2>11, Numbers
    <3>2. MailsFor(c)' = MailsFor(c) - 1
      BY <1>2, <2>3
    <3> QED BY <1>4, <2>8, <2>11, <3>1, <3>2 DEF Bal
  <2>13. Listed(c) => Handlers(r) >= 1
    <3>1. Listed(c) => Handlers(k) >= 1
      BY <1>2 DEF IoInv, EntryInv, k
    <3>2. Handlers(q) \in Nat
      BY <2>8, Numbers
    <3>3. Handlers(r) >= Handlers(k)
      BY <2>8, <2>11
    <3>4. Handlers(r) \in Nat
      BY <2>11, Numbers
    <3> QED BY <1>5, <3>1, <3>3, <3>4
  <2>14. k.state # "NONE"
    BY <2>6 DEF Alive, ConnOK
  <2> QED BY <1>7, <2>4, <2>10, <2>11, <2>12, <2>13, <2>14
<1> QED BY <1>1, <1>8, <1>9

\* The active handlers of a connection are among its handlers.
LEMMA ActivatedFacts ==
  ASSUME NEW c \in Conns, conn[c].handlers \in Seq(Names),
         NEW events \in SUBSET {"IN", "OUT", "ERR", "HUP", "RDHUP"}
  PROVE  /\ Activated(c, events) \in Seq(Entries)
         /\ \A i \in DOMAIN Activated(c, events) : Activated(c, events)[i].of = c
         /\ Activated(c, events) # <<>> => Len(conn[c].handlers) >= 1
<1> DEFINE Keep(hs, h) == IF HandlerEvents[h] \cap events = {} THEN RemoveFirst(hs, h) ELSE hs
           a == conn[c].handlers
           b == Keep(a, "read")
           d == Keep(b, "error")
           hs == Keep(d, "write")
           f == [i \in DOMAIN hs |-> [of |-> c, handler |-> hs[i], events |-> events]]
<1>1. ASSUME NEW t \in Seq(Names), NEW h
      PROVE  Keep(t, h) \in Seq(Names) /\ Len(Keep(t, h)) \in Nat /\ Len(Keep(t, h)) <= Len(t)
  <2>1. Len(t) \in Nat
    BY LenProperties
  <2>2. RemoveFirst(t, h) \in Seq(Names) /\ (Len(RemoveFirst(t, h)) = Len(t) - 1 \/ Len(RemoveFirst(t, h)) = Len(t))
    BY RemoveFirstFacts
  <2>3. Len(RemoveFirst(t, h)) \in Nat
    BY <2>2, LenProperties
  <2> QED BY <2>1, <2>2, <2>3
<1>2. Activated(c, events) = f
  BY DEF Activated
<1> HIDE DEF Keep
<1>3. a \in Seq(Names) /\ Len(a) \in Nat
  BY LenProperties
<1> HIDE DEF a
<1>4. b \in Seq(Names) /\ Len(b) \in Nat /\ Len(b) <= Len(a)
  BY <1>1, <1>3
<1> HIDE DEF b
<1>5. d \in Seq(Names) /\ Len(d) \in Nat /\ Len(d) <= Len(b)
  BY <1>1, <1>4
<1> HIDE DEF d
<1>6. hs \in Seq(Names) /\ Len(hs) \in Nat /\ Len(hs) <= Len(d)
  BY <1>1, <1>5
<1> HIDE DEF hs
<1>7. Len(hs) <= Len(a)
  BY <1>3, <1>4, <1>5, <1>6
<1>8. DOMAIN hs = 1 .. Len(hs) /\ \A i \in 1 .. Len(hs) : hs[i] \in Names
  BY <1>6, SeqFacts
<1>9. \A h \in Names : [of |-> c, handler |-> h, events |-> events] \in Entries
  BY DEF Entries
<1>10. f \in [1 .. Len(hs) -> Entries]
  BY <1>8, <1>9
<1>11. f \in Seq(Entries)
  <2> HIDE DEF f
  <2>1. PICK n \in Nat : n = Len(hs)
    BY <1>6
  <2>2. f \in [1 .. n -> Entries]
    BY <1>10, <2>1
  <2> QED BY <2>2, SeqDef
<1>12. \A i \in DOMAIN f : f[i].of = c
  OBVIOUS
<1>13. ASSUME f # <<>>
       PROVE  Len(a) >= 1
  <2>1. DOMAIN f = 1 .. Len(hs)
    BY <1>8
  <2>2. Len(f) = Len(hs)
    <3> HIDE DEF f
    <3>1. Len(f) \in Nat /\ DOMAIN f = 1 .. Len(f)
      BY <1>11, LenProperties
    <3> QED BY <1>6, <2>1, <3>1
  <2>3. Len(f) >= 1
    <3> HIDE DEF f
    <3> QED BY <1>11, <1>13, EmptySeq
  <2> QED BY <1>3, <1>6, <1>7, <2>2, <2>3
<1> HIDE DEF f
<1> QED BY <1>2, <1>11, <1>12, <1>13 DEF a

LEMMA EpollWaitKeeps ==
  ASSUME IoInv, NEW writable \in BOOLEAN, EpollWait(writable)
  PROVE  IoInv'
<1> DEFINE ev(c) == ReadyEvents(c) \cup (IF writable THEN {"OUT"} ELSE {})
           boxes == {<<[of |-> b, handler |-> "wakeup", events |-> {"IN"}]>>
                       : b \in {b \in Boxes : pipe[b]}}
           ticks == IF quota.ticks > 0
                    THEN {<<[of |-> "timer_fd", handler |-> "timeout", events |-> {"IN"}]>>} ELSE {}
<1>1. /\ reported' = Report(writable) \ {<<>>}
      /\ UNCHANGED <<conn, mailbox, owed, pipe, swapping, mails, active>>
  BY DEF EpollWait
<1>2. Report(writable) = {Activated(c, ev(c)) : c \in Conns} \cup boxes \cup ticks
  BY DEF Report
<1>3. \A c \in Conns : ev(c) \in SUBSET {"IN", "OUT", "ERR", "HUP", "RDHUP"}
  BY DEF ReadyEvents
<1>4. \A c \in Conns : conn[c].handlers \in Seq(Names) /\ conn[c].removing \in Nat
  BY DEF IoInv, ConnInv, ConnOK
<1>5. \A hs \in boxes \cup ticks : /\ hs \in Seq(Entries)
                                   /\ \A i \in DOMAIN hs : hs[i].of \notin Conns
  <2>1. ASSUME NEW e \in Entries, e.of \notin Conns
        PROVE  <<e>> \in Seq(Entries) /\ \A i \in DOMAIN <<e>> : <<e>>[i].of \notin Conns
    BY <2>1
  <2>2. ASSUME NEW b \in Boxes
        PROVE  LET e == [of |-> b, handler |-> "wakeup", events |-> {"IN"}]
               IN e \in Entries /\ e.of \notin Conns
    BY ConnsAssumption DEF Entries
  <2>3. LET e == [of |-> "timer_fd", handler |-> "timeout", events |-> {"IN"}]
        IN e \in Entries /\ e.of \notin Conns
    BY ConnsAssumption DEF Entries
  <2>4. ASSUME NEW hs \in boxes
        PROVE  hs \in Seq(Entries) /\ \A i \in DOMAIN hs : hs[i].of \notin Conns
    <3>1. PICK b \in Boxes : hs = <<[of |-> b, handler |-> "wakeup", events |-> {"IN"}]>>
      BY <2>4
    <3>2. PICK e : e = [of |-> b, handler |-> "wakeup", events |-> {"IN"}]
      OBVIOUS
    <3>3. e \in Entries /\ e.of \notin Conns
      BY <2>2, <3>2
    <3>4. hs = <<e>>
      BY <3>1, <3>2
    <3> QED BY <2>1, <3>3, <3>4
  <2>5. ASSUME NEW hs \in ticks
        PROVE  hs \in Seq(Entries) /\ \A i \in DOMAIN hs : hs[i].of \notin Conns
    <3>1. PICK e : e = [of |-> "timer_fd", handler |-> "timeout", events |-> {"IN"}]
      OBVIOUS
    <3>2. hs = <<e>>
      BY <2>5, <3>1
    <3>3. e \in Entries /\ e.of \notin Conns
      BY <2>3, <3>1
    <3> QED BY <2>1, <3>2, <3>3
  <2> HIDE DEF boxes, ticks
  <2> QED BY <2>4, <2>5
<1> HIDE DEF ev, boxes, ticks
<1>6. ListInv'
  <2>1. \A c \in Conns : Activated(c, ev(c)) \in Seq(Entries)
    BY <1>3, <1>4, ActivatedFacts
  <2>2. reported' \subseteq Seq(Entries)
    BY <1>1, <1>2, <1>5, <2>1
  <2> QED BY <1>1, <2>2 DEF IoInv, ListInv
<1>7. EntryInv'
  <2> SUFFICES ASSUME NEW c \in Conns, Listed(c)'
               PROVE  Handlers(conn[c]) >= 1
    BY <1>1 DEF EntryInv
  <2>1. PICK hs \in reported' \cup {active} : \E i \in DOMAIN hs : hs[i].of = c
    BY <1>1 DEF Listed
  <2>2. CASE hs = active
    BY <2>1, <2>2 DEF IoInv, EntryInv, Listed
  <2>3. CASE hs \in reported'
    <3>1. hs # <<>> /\ hs \notin boxes \cup ticks
      BY <1>1, <1>5, <2>1, <2>3
    <3>2. PICK d \in Conns : hs = Activated(d, ev(d))
      BY <1>1, <1>2, <2>3, <3>1
    <3>3. \A i \in DOMAIN hs : hs[i].of = d
      BY <1>3, <1>4, <3>2, ActivatedFacts
    <3>4. d = c
      BY <2>1, <3>3
    <3>5. Len(conn[d].handlers) >= 1
      BY <1>3, <1>4, <3>1, <3>2, ActivatedFacts
    <3>6. Len(conn[c].handlers) \in Nat
      BY <1>4, LenProperties
    <3> QED BY <1>4, <3>4, <3>5, <3>6 DEF Handlers
  <2> QED BY <2>1, <2>2, <2>3
<1>8. BoxInv' /\ NoStrandedMail'
  BY <1>1, MailsKept
<1>9. ConnInv' /\ PendInv'
  BY <1>1 DEF IoInv, ConnInv, PendInv
<1>10. RefInv'
  <2>1. \A c \in Conns : MailsFor(c)' = MailsFor(c)
    BY <1>1 DEF MailsFor
  <2> QED BY <1>1, <2>1 DEF IoInv, RefInv
<1> QED BY <1>6, <1>7, <1>8, <1>9, <1>10 DEF IoInv

-----------------------------------------------------------------------------
(* The results.                                                            *)

LEMMA InitHolds ==
  ASSUME Init
  PROVE  IoInv
<1> USE DEF Init
<1>1. /\ DOMAIN NoConn = Fields /\ NoConn.handlers = <<>> /\ NoConn.removing = 0
      /\ NoConn.ref_cnt = 0 /\ NoConn.state = "NONE" /\ NoConn.in_map = FALSE
      /\ NoConn.held = FALSE
  BY DEF NoConn, Fields
<1>2. ConnOK(NoConn)
  <2>1. <<>> \in Seq(Names)
    OBVIOUS
  <2>2. NoConn.state \in States /\ NoConn.state \notin Open
    BY <1>1 DEF States, Open
  <2>3. NoConn.handlers \in Seq(Names) /\ NoConn.removing \in Nat /\ NoConn.ref_cnt \in Int
    BY <1>1, <2>1
  <2>4. /\ NoConn.in_map \in BOOLEAN /\ NoConn.held \in BOOLEAN
        /\ NoConn.state \in Open => NoConn.in_map
    BY <1>1, <2>2
  <2>5. NoConn.ref_cnt = 0 <=> NoConn.state \in {"NONE", "FREED"}
    BY <1>1
  <2> QED BY <1>1, <2>2, <2>3, <2>4, <2>5 DEF ConnOK
<1>3. Holders(NoConn) = 0
  <2>1. Len(NoConn.handlers) = 0 /\ One(NoConn.in_map) = 0 /\ One(NoConn.held) = 0
    BY <1>1, Ones
  <2>2. Holders(NoConn) = 0 + 0 + 0 + 0
    BY <1>1, <2>1, Zenon DEF Holders
  <2> QED BY <2>2
<1>4. ConnInv
  BY <1>2 DEF ConnInv
<1>5. BoxInv
  <2>1. Pending \in Boxes /\ Packets \in Boxes
    BY DEF Boxes, Pending, Packets
  <2>2. mailbox[Pending] = <<>> /\ mailbox[Packets] = <<>>
    BY <2>1
  <2> QED BY <2>2, EmptySeq DEF BoxInv
<1>6. DOMAIN <<>> = {}
  OBVIOUS
<1>7. PendInv
  <2>1. mailbox[Pending] = <<>>
    BY DEF Boxes, Pending
  <2> QED BY <1>6, <2>1 DEF PendInv
<1>8. ListInv /\ EntryInv
  <2>1. \A c \in Conns : ~ Listed(c)
    BY <1>6 DEF Listed
  <2> QED BY <2>1, EmptySeq DEF ListInv, EntryInv
<1>9. RefInv
  <2> SUFFICES ASSUME NEW c \in Conns
               PROVE  conn[c].ref_cnt = Holders(conn[c]) + MailsFor(c)
    BY DEF RefInv
  <2>1. Count(<<>>, PacketMail(c)) = 0
    <3>1. <<>> \in Seq(PacketMails)
      BY EmptySeq
    <3> QED BY <3>1, CountType
  <2>2. mails = <<>> /\ mailbox["packet_sending_tasks"] = <<>> /\ conn[c] = NoConn
    BY DEF Boxes
  <2>3. MailsFor(c) = 0
    BY <2>1, <2>2 DEF MailsFor
  <2> QED BY <1>1, <1>3, <2>2, <2>3
<1>10. NoStrandedMail
  BY DEF NoStrandedMail
<1> QED BY <1>4, <1>5, <1>7, <1>8, <1>9, <1>10 DEF IoInv

LEMMA NextKeeps ==
  ASSUME IoInv, [Next]_loopVars
  PROVE  IoInv'
<1>1. CASE UNCHANGED loopVars
  BY <1>1, Elsewhere DEF loopVars
<1>2. ASSUME NEW c \in Conns, PeerSends(c)
      PROVE  IoInv'
  BY <1>2, Elsewhere DEF PeerSends
<1>3. ASSUME NEW c \in Conns, NEW how, PeerLeaves(c, how)
      PROVE  IoInv'
  BY <1>3, Elsewhere DEF PeerLeaves
<1>4. CASE Next
  <2>1. CASE \E c \in Conns : \/ PeerSends(c) \/ PushPacket(c) \/ SessionReleases(c)
                           \/ CallShutdown(c) \/ UserOperationDone(c)
    BY <1>2, <2>1, PushPacketKeeps, SessionReleasesKeeps, CallShutdownKeeps, UserOperationDoneKeeps
  <2>2. CASE \E c \in Conns, how \in {"closed", "reset"} : PeerLeaves(c, how)
    BY <1>3, <2>2
  <2>3. CASE \E c \in Conns, kind \in Kinds : Accept(c, kind)
    BY <2>3, AcceptKeeps
  <2>4. CASE \E b \in Boxes : Notify(b)
    BY <2>4, NotifyKeeps
  <2>5. CASE Loop
    BY <2>5, EpollWaitKeeps, NextFdKeeps, SkipCanceledKeeps, CallConnHandlerKeeps,
       CallNotifierKeeps, CallTimerKeeps, SwapMailboxKeeps, HandleMailKeeps, EndRoundKeeps
       DEF Loop
  <2> QED BY <1>4, <2>1, <2>2, <2>3, <2>4, <2>5 DEF Next
<1> QED BY <1>1, <1>4

\* The inductive invariant of an IO thread: counts are the numbers of holders,
\* mails and mailboxes are well-formed, a connection waits to be created once,
\* and what the round has in its list still has a handler
\* (ev/mqtt_event.c, mqtt/mqtt_io_context.c, net/mqtt_tcp_conn.c).
THEOREM IoInvariance == Spec => []IoInv
<1>1. Init => IoInv
  BY InitHolds
<1>2. IoInv /\ [Next]_loopVars => IoInv'
  BY NextKeeps
<1> QED BY <1>1, <1>2, PTL DEF Spec

\* Whenever a mail is in a mailbox, a notify is still to come, the pipe is readable
\* or the IO thread is about to swap that mailbox: no interleaving of
\* tmq_mailbox_push with tmq_notifier_on_notify and mail_callback strands a mail.
THEOREM NoMailStranded == Spec => []NoStrandedMail
<1>1. IoInv => NoStrandedMail
  BY DEF IoInv
<1> QED BY <1>1, IoInvariance, PTL

\* The count of a connection is always the number of its holders, and when it is
\* freed no handler of it is in the list of the round: no callback is called for
\* freed memory, whatever earlier callbacks of the round have closed
\* (tmq_handler_unregister, conn_close_, tmq_event_loop_run).
THEOREM ConnectionsOutliveUse == Spec => []ConnsOutliveUse
<1>1. ASSUME IoInv
      PROVE  ConnsOutliveUse
  <2> SUFFICES ASSUME NEW c \in Conns
               PROVE  /\ conn[c].ref_cnt = Len(conn[c].handlers) + conn[c].removing
                                             + (IF conn[c].in_map THEN 1 ELSE 0)
                                             + (IF conn[c].held THEN 1 ELSE 0) + MailsFor(c)
                      /\ conn[c].state = "FREED" => \A hs \in reported \cup {active} :
                                                      \A i \in DOMAIN hs : hs[i].of # c
    BY DEF ConnsOutliveUse
  <2>1. conn[c].ref_cnt = Holders(conn[c]) + MailsFor(c)
    BY <1>1 DEF IoInv, RefInv
  <2>2. ConnOK(conn[c]) /\ MailsFor(c) \in Nat
    BY <1>1, HeldIsAlive
  <2>3. conn[c].ref_cnt = Len(conn[c].handlers) + conn[c].removing
                            + (IF conn[c].in_map THEN 1 ELSE 0)
                            + (IF conn[c].held THEN 1 ELSE 0) + MailsFor(c)
    BY <2>1, Zenon DEF Holders, One
  <2>4. ASSUME conn[c].state = "FREED"
        PROVE  ~ Listed(c)
    <3>1. conn[c].ref_cnt = 0
      BY <2>2, <2>4 DEF ConnOK
    <3>2. /\ Holders(conn[c]) \in Nat /\ Handlers(conn[c]) \in Nat
          /\ Holders(conn[c]) >= Handlers(conn[c])
      BY <2>2, Numbers
    <3>3. ~ (Handlers(conn[c]) >= 1)
      BY <2>1, <2>2, <3>1, <3>2
    <3> QED BY <1>1, <3>3 DEF IoInv, EntryInv
  <2>5. conn[c].state = "FREED" => \A hs \in reported \cup {active} :
                                     \A i \in DOMAIN hs : hs[i].of # c
    BY <2>4 DEF Listed
  <2> QED BY <2>3, <2>5
<1> QED BY <1>1, IoInvariance, PTL

-----------------------------------------------------------------------------
(* What a list of chunks holds.                                            *)

\* FlattenSeq(q) is the last of the sequences f, each the one before it with the
\* next of q behind.
IsFlat(q, n, f) == f = [i \in 1 .. n |-> IF i = 1 THEN q[i] ELSE f[i - 1] \o q[i]]

LEMMA FlatExists ==
  ASSUME NEW q, NEW n \in Nat
  PROVE  \E f : IsFlat(q, n, f)
<1> DEFINE T == {m \in Nat : \E f : IsFlat(q, m, f)}
<1>1. 0 \in T
  <2> DEFINE f == [i \in 1 .. 0 |-> {}]
  <2>1. f = [i \in 1 .. 0 |-> IF i = 1 THEN q[i] ELSE f[i - 1] \o q[i]]
    OBVIOUS
  <2> HIDE DEF f
  <2> QED BY <2>1 DEF IsFlat
<1>2. ASSUME NEW m \in Nat, m \in T
      PROVE  m + 1 \in T
  <2>1. PICK f : f = [i \in 1 .. m |-> IF i = 1 THEN q[i] ELSE f[i - 1] \o q[i]]
    BY <1>2 DEF IsFlat
  <2> DEFINE g == [i \in 1 .. m + 1 |-> IF i <= m THEN f[i]
                                        ELSE IF i = 1 THEN q[i] ELSE f[i - 1] \o q[i]]
  <2>2. ASSUME NEW i \in 1 .. m + 1
        PROVE  g[i] = IF i = 1 THEN q[i] ELSE g[i - 1] \o q[i]
    <3>1. CASE i = 1
      BY <2>1, <3>1
    <3>2. CASE i # 1 /\ i <= m
      <4>1. i - 1 \in 1 .. m + 1 /\ i - 1 <= m /\ i \in 1 .. m
        BY <3>2
      <4>2. g[i] = f[i] /\ g[i - 1] = f[i - 1]
        BY <3>2, <4>1
      <4>3. f[i] = f[i - 1] \o q[i]
        BY <2>1, <3>2, <4>1
      <4> QED BY <3>2, <4>2, <4>3
    <3>3. CASE i # 1 /\ ~ (i <= m)
      <4>1. i - 1 \in 1 .. m + 1 /\ i - 1 <= m
        BY <3>3
      <4>2. g[i] = f[i - 1] \o q[i] /\ g[i - 1] = f[i - 1]
        BY <3>3, <4>1
      <4> QED BY <3>3, <4>2
    <3> QED BY <3>1, <3>2, <3>3
  <2>3. g = [i \in 1 .. m + 1 |-> g[i]]
    OBVIOUS
  <2> HIDE DEF g
  <2>4. g = [i \in 1 .. m + 1 |-> IF i = 1 THEN q[i] ELSE g[i - 1] \o q[i]]
    BY <2>2, <2>3
  <2>5. IsFlat(q, m + 1, g)
    BY <2>4 DEF IsFlat
  <2> QED BY <2>5
<1> HIDE DEF T
<1>3. \A m \in Nat : m \in T
  BY <1>1, <1>2, NatInductive
<1> QED BY <1>3 DEF T

\* Such sequences over the same elements are the same.
LEMMA FlatUnique ==
  ASSUME NEW q, NEW r, NEW n \in Nat, NEW m \in Nat, NEW f, NEW g,
         IsFlat(q, n, f), IsFlat(r, m, g), n <= m, \A i \in 1 .. n : q[i] = r[i]
  PROVE  \A i \in 1 .. n : f[i] = g[i]
<1> DEFINE T == {i \in Nat : i \in 1 .. n => f[i] = g[i]}
<1>1. 0 \in T
  OBVIOUS
<1>2. ASSUME NEW i \in Nat, i \in T
      PROVE  i + 1 \in T
  <2> SUFFICES ASSUME i + 1 \in 1 .. n PROVE f[i + 1] = g[i + 1]
    OBVIOUS
  <2>1. /\ f = [j \in 1 .. n |-> IF j = 1 THEN q[j] ELSE f[j - 1] \o q[j]]
        /\ g = [j \in 1 .. m |-> IF j = 1 THEN r[j] ELSE g[j - 1] \o r[j]]
    BY DEF IsFlat
  <2>2. i + 1 \in 1 .. m /\ (i + 1) - 1 = i
    OBVIOUS
  <2>3. f[i + 1] = IF i + 1 = 1 THEN q[i + 1] ELSE f[i] \o q[i + 1]
    BY <2>1, <2>2
  <2>4. g[i + 1] = IF i + 1 = 1 THEN r[i + 1] ELSE g[i] \o r[i + 1]
    BY <2>1, <2>2
  <2>5. i + 1 # 1 => f[i] = g[i]
    BY <1>2
  <2> QED BY <2>3, <2>4, <2>5
<1> HIDE DEF T
<1>3. \A i \in Nat : i \in T
  BY <1>1, <1>2, NatInductive
<1> QED BY <1>3 DEF T

\* FlattenSeq by its recursion.
LEMMA FlattenIs ==
  ASSUME NEW q, Len(q) \in Nat, Len(q) # 0
  PROVE  \E f : IsFlat(q, Len(q), f) /\ FlattenSeq(q) = f[Len(q)]
<1> DEFINE f == CHOOSE f : f = [i \in 1 .. Len(q) |-> IF i = 1 THEN q[i] ELSE f[i - 1] \o q[i]]
<1>1. FlattenSeq(q) = f[Len(q)]
  BY DEF FlattenSeq
<1>2. IsFlat(q, Len(q), f)
  BY FlatExists DEF IsFlat
<1> QED BY <1>1, <1>2

Bytes == Seq(Nat)
Chunks == {k \in [chunk_size : Nat, read_idx : Nat, data : Bytes] :
             k.read_idx <= Len(k.data) /\ Len(k.data) <= k.chunk_size}

\* Arithmetic on the places of bytes.
LEMMA Gaps ==
  \A m, n \in Nat, a \in Int : a = m + 1 /\ m <= n =>
    (IF a <= n THEN n - a + 1 ELSE 0) = n - m /\ n - a + 1 = n - m /\ n - m \in Nat
OBVIOUS

LEMMA Regroup ==
  \A n, l, p \in Nat : (n + l) - p = (n - p) + l
OBVIOUS

LEMMA Moved ==
  \A n, l, p \in Nat : \A i \in 1 .. (n + l) - p :
    p + i \in 1 .. n + l /\ (p + i <= n <=> i <= n - p) /\ (p + i) - n = i - (n - p)
OBVIOUS

\* What is left to read of a chunk.
LEMMA DataOfType ==
  ASSUME NEW k \in Chunks
  PROVE  /\ DataOf(k) \in Bytes /\ Len(DataOf(k)) = Len(k.data) - k.read_idx
         /\ Len(DataOf(k)) \in Nat /\ Len(k.data) \in Nat /\ k.read_idx \in Nat
         /\ \A i \in 1 .. Len(DataOf(k)) : DataOf(k)[i] = k.data[k.read_idx + i]
<1>1. k.data \in Seq(Nat) /\ k.read_idx \in Nat /\ k.read_idx <= Len(k.data)
  BY DEF Chunks, Bytes
<1>2. PICK m \in Nat, n \in Nat, s \in Seq(Nat) : m = k.read_idx /\ n = Len(k.data) /\ s = k.data
  BY <1>1, LenProperties
<1>3. \A i \in m + 1 .. n : s[i] \in Nat
  BY <1>2, ElementOfSeq
<1>4. PICK a \in Int : a = m + 1
  OBVIOUS
<1>5. /\ SubSeq(s, a, n) \in Seq(Nat)
      /\ Len(SubSeq(s, a, n)) = IF a <= n THEN n - a + 1 ELSE 0
      /\ \A i \in 1 .. n - a + 1 : SubSeq(s, a, n)[i] = s[a + i - 1]
  BY <1>3, <1>4, SubSeqProperties
<1>6. DataOf(k) = SubSeq(s, a, n)
  BY <1>2, <1>4 DEF DataOf
<1>7. (IF a <= n THEN n - a + 1 ELSE 0) = n - m /\ n - a + 1 = n - m /\ n - m \in Nat
  <2>1. m <= n
    BY <1>1, <1>2
  <2> QED BY <1>4, <2>1, Gaps
<1>8. \A i \in 1 .. n - m : SubSeq(s, a, n)[i] = s[m + i]
  <2>1. \A i \in 1 .. n - m : a + i - 1 = m + i
    BY <1>4
  <2> QED BY <1>5, <1>7, <2>1
<1>9. Len(DataOf(k)) = n - m
  BY <1>5, <1>6, <1>7
<1> QED BY <1>2, <1>5, <1>6, <1>7, <1>8, <1>9 DEF Bytes

\* The data of the first chunks, and of one more.
LEMMA UpTo ==
  ASSUME NEW ch, NEW n \in Nat, \A i \in 1 .. n : ch[i] \in Chunks
  PROVE  /\ DataUpTo(ch, 0) = <<>>
         /\ n > 0 => DataUpTo(ch, n) = DataUpTo(ch, n - 1) \o DataOf(ch[n])
<1> DEFINE q(k) == [i \in 1 .. k |-> DataOf(ch[i])]
<1>1. ASSUME NEW k \in 0 .. n
      PROVE  q(k) \in Seq(Bytes) /\ Len(q(k)) = k /\ \A i \in 1 .. k : q(k)[i] = DataOf(ch[i])
  <2>1. \A i \in 1 .. k : DataOf(ch[i]) \in Bytes
    BY DataOfType
  <2>2. q(k) \in [1 .. k -> Bytes]
    BY <2>1
  <2>3. q(k) \in Seq(Bytes)
    BY <2>2, SeqDef
  <2>4. DOMAIN q(k) = 1 .. k
    OBVIOUS
  <2>5. PICK s \in Seq(Bytes) : s = q(k)
    BY <2>3
  <2>6. 1 .. Len(s) = 1 .. k /\ Len(s) \in Nat
    BY <2>4, <2>5, LenProperties
  <2>7. Len(s) = k
    BY <2>6
  <2>8. \A i \in 1 .. k : q(k)[i] = DataOf(ch[i])
    OBVIOUS
  <2> QED BY <2>3, <2>5, <2>7, <2>8
<1>2. \A k : DataUpTo(ch, k) = FlattenSeq(q(k))
  BY DEF DataUpTo
<1> HIDE DEF q
<1>3. DataUpTo(ch, 0) = <<>>
  <2>1. q(0) \in Seq(Bytes) /\ Len(q(0)) = 0
    BY <1>1
  <2>2. q(0) = <<>>
    BY <2>1, EmptySeq
  <2>3. FlattenSeq(q(0)) = q(0)
    BY <2>1 DEF FlattenSeq
  <2> QED BY <1>2, <2>2, <2>3
<1>4. ASSUME n > 0
      PROVE  DataUpTo(ch, n) = DataUpTo(ch, n - 1) \o DataOf(ch[n])
  <2>1. n \in 0 .. n /\ n - 1 \in 0 .. n /\ n \in 1 .. n
    BY <1>4
  <2>2. /\ Len(q(n)) = n /\ \A i \in 1 .. n : q(n)[i] = DataOf(ch[i])
        /\ Len(q(n - 1)) = n - 1 /\ \A i \in 1 .. n - 1 : q(n - 1)[i] = DataOf(ch[i])
    BY <1>1, <2>1
  <2>3. PICK f : IsFlat(q(n), n, f) /\ FlattenSeq(q(n)) = f[n]
    <3>1. Len(q(n)) \in Nat /\ Len(q(n)) # 0
      BY <1>4, <2>2
    <3>2. \E f : IsFlat(q(n), Len(q(n)), f) /\ FlattenSeq(q(n)) = f[Len(q(n))]
      BY <3>1, FlattenIs
    <3> QED BY <2>2, <3>2
  <2>4. CASE n = 1
    <3>1. f[1] = q(n)[1]
      BY <2>1, <2>3, <2>4 DEF IsFlat
    <3>2. DataUpTo(ch, n) = DataOf(ch[n])
      BY <1>2, <2>1, <2>2, <2>3, <2>4, <3>1
    <3>3. DataOf(ch[n]) \in Seq(Nat)
      BY <2>1, DataOfType DEF Bytes
    <3>4. <<>> \o DataOf(ch[n]) = DataOf(ch[n])
      BY <3>3, ConcatEmptySeq
    <3>5. n - 1 = 0
      BY <2>4
    <3> QED BY <1>3, <3>2, <3>4, <3>5
  <2>5. CASE n # 1
    <3>1. PICK m \in Nat : m = n - 1 /\ m # 0
      BY <1>4, <2>5
    <3>2. PICK g : IsFlat(q(m), m, g) /\ FlattenSeq(q(m)) = g[m]
      <4>1. Len(q(m)) = m
        BY <2>2, <3>1
      <4>2. \E g : IsFlat(q(m), Len(q(m)), g) /\ FlattenSeq(q(m)) = g[Len(q(m))]
        BY <3>1, <4>1, FlattenIs
      <4> QED BY <4>1, <4>2
    <3>3. m <= n /\ m \in 1 .. m /\ \A i \in 1 .. m : i \in 1 .. n
      BY <3>1
    <3>4. \A i \in 1 .. m : q(m)[i] = q(n)[i]
      BY <2>2, <3>1, <3>3
    <3>5. \A i \in 1 .. m : g[i] = f[i]
      BY <2>3, <3>2, <3>3, <3>4, FlatUnique
    <3>6. f[n] = f[m] \o q(n)[n]
      BY <2>1, <2>3, <2>5, <3>1 DEF IsFlat
    <3> QED BY <1>2, <2>1, <2>2, <2>3, <3>1, <3>2, <3>3, <3>5, <3>6
  <2> QED BY <2>4, <2>5
<1> QED BY <1>3, <1>4

\* Appending is associative.
LEMMA Assoc == \A a, b, c \in Bytes : (a \o b) \o c = a \o (b \o c) /\ a \o b \in Bytes
<1> SUFFICES ASSUME NEW a \in Seq(Nat), NEW b \in Seq(Nat), NEW c \in Seq(Nat)
             PROVE  (a \o b) \o c = a \o (b \o c) /\ a \o b \in Seq(Nat)
  BY DEF Bytes
<1>1. (a \o b) \o c = a \o (b \o c)
  BY ConcatAssociative, SMTT(60)
<1>2. a \o b \in Seq(Nat)
  BY ConcatProperties
<1> QED BY <1>1, <1>2

\* Everything in a list of chunks.
All(ch) == DataUpTo(ch, Len(ch))

\* The data of chunks are bytes.
LEMMA UpToType ==
  ASSUME NEW ch, NEW n \in Nat, \A i \in 1 .. n : ch[i] \in Chunks
  PROVE  DataUpTo(ch, n) \in Bytes
<1> DEFINE T == {m \in Nat : m <= n => DataUpTo(ch, m) \in Bytes}
<1>1. 0 \in T
  <2>1. DataUpTo(ch, 0) = <<>>
    BY UpTo
  <2> QED BY <2>1, EmptySeq DEF Bytes
<1>2. ASSUME NEW m \in Nat, m \in T
      PROVE  m + 1 \in T
  <2> SUFFICES ASSUME m + 1 <= n PROVE DataUpTo(ch, m + 1) \in Bytes
    OBVIOUS
  <2>1. PICK k \in Nat : k = m + 1 /\ k - 1 = m /\ k > 0 /\ k \in 1 .. n
    OBVIOUS
  <2>2. \A i \in 1 .. k : ch[i] \in Chunks
    BY <2>1
  <2>3. DataUpTo(ch, k) = DataUpTo(ch, k - 1) \o DataOf(ch[k])
    BY <2>1, <2>2, UpTo
  <2>4. DataOf(ch[k]) \in Bytes
    BY <2>1, DataOfType
  <2>5. DataUpTo(ch, m) \in Bytes
    BY <1>2
  <2>6. DataUpTo(ch, m) \o DataOf(ch[k]) \in Bytes
    BY <2>4, <2>5, ConcatProperties DEF Bytes
  <2> QED BY <2>1, <2>3, <2>6
<1> HIDE DEF T
<1>3. \A m \in Nat : m \in T
  BY <1>1, <1>2, NatInductive
<1>4. n \in T
  BY <1>3
<1> QED BY <1>4 DEF T

\* Only the data of the chunks count.
LEMMA UpToSame ==
  ASSUME NEW ch, NEW dh, NEW n, \A i \in 1 .. n : DataOf(ch[i]) = DataOf(dh[i])
  PROVE  DataUpTo(ch, n) = DataUpTo(dh, n)
<1>1. [i \in 1 .. n |-> DataOf(ch[i])] = [i \in 1 .. n |-> DataOf(dh[i])]
  OBVIOUS
<1> QED BY <1>1 DEF DataUpTo

\* A list whose last chunk has got x.
LEMMA LastGrows ==
  ASSUME NEW ch \in Seq(Chunks), NEW dh \in Seq(Chunks), NEW n \in Nat, n > 0, NEW x \in Bytes,
         Len(ch) = n, Len(dh) = n, \A i \in 1 .. n - 1 : DataOf(dh[i]) = DataOf(ch[i]),
         DataOf(dh[n]) = DataOf(ch[n]) \o x
  PROVE  All(dh) = All(ch) \o x
<1>1. (\A i \in 1 .. n : ch[i] \in Chunks) /\ (\A i \in 1 .. n : dh[i] \in Chunks)
  BY ElementOfSeq
<1>2. DataUpTo(ch, n) = DataUpTo(ch, n - 1) \o DataOf(ch[n])
  BY <1>1, UpTo
<1>3. DataUpTo(dh, n) = DataUpTo(dh, n - 1) \o DataOf(dh[n])
  BY <1>1, UpTo
<1>4. DataUpTo(dh, n - 1) = DataUpTo(ch, n - 1)
  BY UpToSame
<1>5. PICK m \in Nat : m = n - 1
  OBVIOUS
<1>6. \A i \in 1 .. m : ch[i] \in Chunks
  BY <1>1, <1>5
<1>7. DataUpTo(ch, m) \in Bytes
  BY <1>6, UpToType
<1>8. DataOf(ch[n]) \in Bytes
  BY <1>1, DataOfType
<1>9. (DataUpTo(ch, m) \o DataOf(ch[n])) \o x = DataUpTo(ch, m) \o (DataOf(ch[n]) \o x)
  BY <1>7, <1>8, Assoc, Zenon
<1> QED BY <1>2, <1>3, <1>4, <1>5, <1>9 DEF All

\* One chunk more.
LEMMA OneChunkMore ==
  ASSUME NEW ch \in Seq(Chunks), NEW k \in Chunks
  PROVE  Append(ch, k) \in Seq(Chunks) /\ All(Append(ch, k)) = All(ch) \o DataOf(k)
<1>1. PICK dh \in Seq(Chunks) : dh = Append(ch, k)
  BY AppendProperties
<1>2. PICK n \in Nat : n = Len(ch)
  BY LenProperties
<1>3. Len(dh) = n + 1 /\ dh[n + 1] = k /\ \A i \in 1 .. n : dh[i] = ch[i]
  BY <1>1, <1>2, AppendProperties
<1>4. PICK m \in Nat : m = n + 1 /\ m > 0 /\ m - 1 = n
  OBVIOUS
<1>5. \A i \in 1 .. m : dh[i] \in Chunks
  BY <1>3, <1>4, ElementOfSeq
<1>6. DataUpTo(dh, m) = DataUpTo(dh, m - 1) \o DataOf(dh[m])
  BY <1>4, <1>5, UpTo
<1>7. DataUpTo(dh, n) = DataUpTo(ch, n)
  BY <1>3, UpToSame
<1>8. All(dh) = All(ch) \o DataOf(k)
  BY <1>2, <1>3, <1>4, <1>6, <1>7 DEF All
<1> QED BY <1>1, <1>8

\* buffer_chunk_new.
LEMMA NewChunkOK ==
  ASSUME NEW x \in Bytes
  PROVE  NewChunk(x) \in Chunks /\ DataOf(NewChunk(x)) = x
<1>1. x \in Seq(Nat) /\ Len(x) \in Nat
  BY LenProperties DEF Bytes
<1> DEFINE k == NewChunk(x)
<1>2. k.read_idx = 0 /\ k.data = x /\ k \in [chunk_size : Nat, read_idx : Nat, data : Bytes]
      /\ Len(x) <= k.chunk_size
  BY <1>1, BufferAssumption DEF NewChunk
<1>3. k \in Chunks
  BY <1>1, <1>2 DEF Chunks
<1>4. DataOf(k) = SubSeq(x, 1, Len(x))
  BY <1>2 DEF DataOf
<1>5. SubSeq(x, 1, Len(x)) = x
  BY <1>1, SubSeqFull
<1> QED BY <1>3, <1>4, <1>5

\* A chunk with room for x gets it.
LEMMA ChunkGrows ==
  ASSUME NEW k \in Chunks, NEW x \in Bytes, Len(x) <= Writeable(k)
  PROVE  /\ [k EXCEPT !.data = @ \o x] \in Chunks
         /\ DataOf([k EXCEPT !.data = @ \o x]) = DataOf(k) \o x
<1> DEFINE r == [k EXCEPT !.data = @ \o x]
<1>1. /\ k \in [chunk_size : Nat, read_idx : Nat, data : Bytes] /\ k.data \in Seq(Nat)
      /\ k.chunk_size \in Nat /\ k.read_idx \in Nat
      /\ k.read_idx <= Len(k.data) /\ Len(k.data) <= k.chunk_size
  BY DEF Chunks, Bytes
<1>2. PICK n \in Nat, l \in Nat, p \in Nat : n = Len(k.data) /\ l = Len(x) /\ p = k.read_idx
  BY <1>1, LenProperties DEF Bytes
<1>3. x \in Seq(Nat)
  BY DEF Bytes
<1>4. /\ k.data \o x \in Seq(Nat) /\ Len(k.data \o x) = n + l
      /\ \A i \in 1 .. n + l : (k.data \o x)[i] = IF i <= n THEN k.data[i] ELSE x[i - n]
  BY <1>1, <1>2, <1>3, ConcatProperties
<1>5. /\ r.data = k.data \o x /\ r.read_idx = p /\ r.chunk_size = k.chunk_size
      /\ r \in [chunk_size : Nat, read_idx : Nat, data : Bytes]
  BY <1>1, <1>2, <1>4 DEF Bytes
<1> HIDE DEF r
<1>6. n + l <= k.chunk_size
  BY <1>1, <1>2 DEF Writeable
<1>7. Len(r.data) = n + l /\ p <= n + l
  BY <1>1, <1>2, <1>4, <1>5
<1>8. r \in Chunks
  BY <1>5, <1>6, <1>7 DEF Chunks
<1>9. /\ DataOf(k) \in Seq(Nat) /\ Len(DataOf(k)) = n - p
      /\ \A i \in 1 .. n - p : DataOf(k)[i] = k.data[p + i]
  BY <1>2, DataOfType DEF Bytes
<1>10. /\ DataOf(r) \in Seq(Nat) /\ Len(DataOf(r)) = (n + l) - p
       /\ \A i \in 1 .. (n + l) - p : DataOf(r)[i] = (k.data \o x)[p + i]
  BY <1>5, <1>7, <1>8, DataOfType DEF Bytes
<1>11. /\ DataOf(k) \o x \in Seq(Nat) /\ Len(DataOf(k) \o x) = (n - p) + l
       /\ \A i \in 1 .. (n - p) + l : (DataOf(k) \o x)[i] =
            IF i <= n - p THEN DataOf(k)[i] ELSE x[i - (n - p)]
  <2>1. PICK d \in Seq(Nat) : d = DataOf(k) /\ Len(d) = n - p
    BY <1>9
  <2>2. /\ d \o x \in Seq(Nat) /\ Len(d \o x) = Len(d) + Len(x)
        /\ \A i \in 1 .. Len(d) + Len(x) : (d \o x)[i] =
             IF i <= Len(d) THEN d[i] ELSE x[i - Len(d)]
    BY <1>3, ConcatProperties
  <2> QED BY <1>2, <2>1, <2>2, Zenon
<1>12. (n + l) - p = (n - p) + l
  BY Regroup, Zenon
<1>13. ASSUME NEW i \in 1 .. (n + l) - p
       PROVE  DataOf(r)[i] = (DataOf(k) \o x)[i]
  <2>1. p + i \in 1 .. n + l /\ (p + i <= n <=> i <= n - p) /\ (p + i) - n = i - (n - p)
    BY Moved, SMTT(30)
  <2>2. DataOf(r)[i] = IF i <= n - p THEN k.data[p + i] ELSE x[i - (n - p)]
    BY <1>4, <1>10, <2>1
  <2>3. (DataOf(k) \o x)[i] = IF i <= n - p THEN DataOf(k)[i] ELSE x[i - (n - p)]
    BY <1>11, <1>12
  <2>4. i <= n - p => DataOf(k)[i] = k.data[p + i]
    BY <1>9
  <2> QED BY <2>2, <2>3, <2>4
<1>14. DataOf(r) = DataOf(k) \o x
  BY <1>10, <1>11, <1>12, <1>13, SeqEqual
<1> QED BY <1>8, <1>14 DEF r

\* A list whose last chunk is replaced.
LEMMA LastReplaced ==
  ASSUME NEW ch \in Seq(Chunks), ch # <<>>, NEW k \in Chunks, NEW x \in Bytes,
         DataOf(k) = DataOf(ch[Len(ch)]) \o x
  PROVE  LET dh == [ch EXCEPT ![Len(ch)] = k]
         IN dh \in Seq(Chunks) /\ Len(dh) = Len(ch) /\ All(dh) = All(ch) \o x
              /\ dh[Len(ch)] = k
<1> DEFINE dh == [ch EXCEPT ![Len(ch)] = k]
<1>1. PICK n \in Nat : n = Len(ch) /\ n > 0 /\ n \in 1 .. n
  BY EmptySeq
<1>2. /\ dh \in Seq(Chunks) /\ Len(dh) = n
      /\ \A j \in 1 .. n : dh[j] = IF j = n THEN k ELSE ch[j]
  BY <1>1, ExceptSeq
<1> HIDE DEF dh
<1>3. All(dh) = All(ch) \o x
  <2>1. \A i \in 1 .. n - 1 : i \in 1 .. n /\ i # n
    BY <1>1
  <2>2. \A i \in 1 .. n - 1 : DataOf(dh[i]) = DataOf(ch[i])
    BY <1>2, <2>1
  <2>3. DataOf(dh[n]) = DataOf(ch[n]) \o x
    BY <1>1, <1>2
  <2> QED BY <1>1, <1>2, <2>2, <2>3, LastGrows
<1> QED BY <1>1, <1>2, <1>3 DEF dh

\* What is spilled into the chunks is behind what they held.
LEMMA SpillOK ==
  ASSUME NEW ch \in Seq(Chunks), NEW x \in Bytes
  PROVE  Spill(ch, x) \in Seq(Chunks) /\ All(Spill(ch, x)) = All(ch) \o x
<1>1. NewChunk(x) \in Chunks /\ DataOf(NewChunk(x)) = x
  BY NewChunkOK
<1>2. CASE ch = <<>>
  <2>1. Spill(ch, x) = <<NewChunk(x)>>
    BY <1>2 DEF Spill
  <2>2. Append(ch, NewChunk(x)) = <<NewChunk(x)>>
    BY <1>2
  <2> QED BY <1>1, <2>1, <2>2, OneChunkMore
<1>3. CASE ch # <<>>
  <2> DEFINE n == Len(ch)
             k == ch[n]
             w == Writeable(k)
  <2>1. n \in Nat /\ n > 0 /\ n \in 1 .. n /\ k \in Chunks /\ Last(ch) = k
    BY <1>3, EmptySeq, ElementOfSeq DEF Last
  <2>2. k.data \in Seq(Nat) /\ Len(k.data) <= k.chunk_size /\ k.chunk_size \in Nat
    BY <2>1 DEF Chunks, Bytes
  <2>3. Len(k.data) \in Nat /\ x \in Seq(Nat) /\ Len(x) \in Nat
    BY <2>2, LenProperties DEF Bytes
  <2>4. w \in Nat
    BY <2>2, <2>3 DEF Writeable
  <2>5. ASSUME NEW y \in Bytes, Len(y) <= w
        PROVE  LET dh == [ch EXCEPT ![n].data = @ \o y]
               IN dh \in Seq(Chunks) /\ All(dh) = All(ch) \o y
    <3>1. PICK r \in Chunks : r = [k EXCEPT !.data = @ \o y] /\ DataOf(r) = DataOf(k) \o y
      BY <2>1, <2>5, ChunkGrows
    <3>2. [ch EXCEPT ![n].data = @ \o y] = [ch EXCEPT ![n] = r]
      BY <3>1
    <3>3. LET dh == [ch EXCEPT ![n] = r]
          IN dh \in Seq(Chunks) /\ All(dh) = All(ch) \o y
      BY <1>3, <3>1, LastReplaced
    <3> QED BY <3>2, <3>3
  <2>6. CASE w >= Len(x)
    <3>1. Spill(ch, x) = [ch EXCEPT ![n].data = @ \o x]
      BY <1>3, <2>1, <2>6 DEF Spill
    <3> HIDE DEF n, w, k
    <3>2. Len(x) <= w
      BY <2>3, <2>4, <2>6
    <3> QED BY <2>5, <3>1, <3>2
  <2>7. CASE ~ (w >= Len(x))
    <3> DEFINE y == SubSeq(x, 1, w)
               z == SubSeq(x, w + 1, Len(x))
               dh == [ch EXCEPT ![n].data = @ \o y]
    <3>1. Spill(ch, x) = Append(dh, NewChunk(z))
      BY <1>3, <2>1, <2>7 DEF Spill
    <3> HIDE DEF n, w, k
    <3>2. y \in Bytes /\ Len(y) = w
      <4>1. \A i \in 1 .. w : x[i] \in Nat
        BY <2>3, <2>4, <2>7, ElementOfSeq
      <4>2. SubSeq(x, 1, w) \in Seq(Nat) /\ Len(SubSeq(x, 1, w)) = IF 1 <= w THEN w - 1 + 1 ELSE 0
        BY <2>4, <4>1, SubSeqProperties
      <4> QED BY <2>4, <4>2 DEF Bytes
    <3>3. z \in Bytes
      <4>1. PICK a \in Int, b \in Int : a = w + 1 /\ b = Len(x)
        BY <2>3, <2>4
      <4>2. \A i \in a .. b : x[i] \in Nat
        BY <2>3, <2>4, <4>1, ElementOfSeq
      <4> QED BY <4>1, <4>2, SubSeqProperties DEF Bytes
    <3>4. y \o z = x
      <4>1. 1 \in 1 .. Len(x) + 1 /\ w \in 1 - 1 .. Len(x) /\ Len(x) \in w .. Len(x)
        BY <2>3, <2>4, <2>7
      <4>2. y \o z = SubSeq(x, 1, Len(x))
        BY <2>3, <4>1, ConcatAdjacentSubSeq
      <4> QED BY <2>3, <4>2, SubSeqFull
    <3> HIDE DEF y, z
    <3>5. dh \in Seq(Chunks) /\ All(dh) = All(ch) \o y
      <4>1. Len(y) <= w
        BY <2>4, <3>2
      <4> QED BY <2>5, <3>2, <4>1
    <3> HIDE DEF dh
    <3>6. NewChunk(z) \in Chunks /\ DataOf(NewChunk(z)) = z
      BY <3>3, NewChunkOK
    <3>7. Append(dh, NewChunk(z)) \in Seq(Chunks) /\ All(Append(dh, NewChunk(z))) = All(dh) \o z
      BY <3>5, <3>6, OneChunkMore
    <3>8. All(ch) \in Bytes
      <4>1. \A i \in 1 .. Len(ch) : ch[i] \in Chunks
        BY ElementOfSeq
      <4>2. Len(ch) \in Nat
        BY LenProperties
      <4> QED BY <4>1, <4>2, UpToType DEF All
    <3>9. (All(ch) \o y) \o z = All(ch) \o (y \o z)
      BY <3>2, <3>3, <3>8, Assoc, Zenon
    <3> QED BY <3>1, <3>4, <3>5, <3>7, <3>9
  <2> QED BY <2>6, <2>7
<1> QED BY <1>2, <1>3

BufferOK(b) == b.chunks \in Seq(Chunks) /\ b.readable_bytes = Len(Contents(b))

LEMMA AllType ==
  ASSUME NEW ch \in Seq(Chunks)
  PROVE  All(ch) \in Bytes /\ Len(All(ch)) \in Nat
<1>1. (\A i \in 1 .. Len(ch) : ch[i] \in Chunks) /\ Len(ch) \in Nat
  BY ElementOfSeq, LenProperties
<1>2. All(ch) \in Bytes
  BY <1>1, UpToType DEF All
<1> QED BY <1>2, LenProperties DEF Bytes

\* buffer_chunk_realign keeps the data.
LEMMA RealignOK ==
  ASSUME NEW k \in Chunks
  PROVE  Realign(k) \in Chunks /\ DataOf(Realign(k)) = DataOf(k)
<1> DEFINE r == Realign(k)
<1>1. /\ DataOf(k) \in Seq(Nat) /\ Len(DataOf(k)) = Len(k.data) - k.read_idx
      /\ Len(DataOf(k)) \in Nat /\ Len(k.data) \in Nat /\ k.read_idx \in Nat
  BY DataOfType DEF Bytes
<1>2. /\ k \in [chunk_size : Nat, read_idx : Nat, data : Bytes]
      /\ k.chunk_size \in Nat /\ Len(k.data) <= k.chunk_size
  BY DEF Chunks
<1>3. /\ r.data = DataOf(k) /\ r.read_idx = 0 /\ r.chunk_size = k.chunk_size
      /\ r \in [chunk_size : Nat, read_idx : Nat, data : Bytes]
  BY <1>1, <1>2 DEF Realign, Bytes
<1> HIDE DEF r
<1>4. Len(r.data) \in Nat /\ Len(r.data) <= r.chunk_size /\ r.read_idx <= Len(r.data)
  BY <1>1, <1>2, <1>3
<1>5. r \in Chunks
  BY <1>3, <1>4 DEF Chunks
<1>6. DataOf(r) = SubSeq(r.data, 1, Len(r.data))
  BY <1>3 DEF DataOf
<1>7. SubSeq(DataOf(k), 1, Len(DataOf(k))) = DataOf(k)
  BY <1>1, SubSeqFull
<1> QED BY <1>3, <1>5, <1>6, <1>7 DEF r

LEMMA MakeRoomOK ==
  ASSUME NEW ch \in Seq(Chunks), NEW n
  PROVE  MakeRoom(ch, n) \in Seq(Chunks) /\ All(MakeRoom(ch, n)) = All(ch)
<1>1. CASE MakeRoom(ch, n) = ch
  BY <1>1
<1>2. CASE ch # <<>> /\ MakeRoom(ch, n) = [ch EXCEPT ![Len(ch)] = Realign(@)]
  <2>1. Len(ch) \in 1 .. Len(ch)
    BY <1>2, EmptySeq
  <2>2. PICK k \in Chunks : k = ch[Len(ch)]
    BY <2>1, ElementOfSeq
  <2>3. PICK r \in Chunks : r = Realign(k) /\ DataOf(r) = DataOf(k)
    BY RealignOK
  <2>4. MakeRoom(ch, n) = [ch EXCEPT ![Len(ch)] = r]
    BY <1>2, <2>2, <2>3
  <2>5. DataOf(k) \in Seq(Nat) /\ <<>> \in Bytes
    BY DataOfType, EmptySeq DEF Bytes
  <2>6. DataOf(r) = DataOf(k) \o <<>>
    BY <2>3, <2>5, ConcatEmptySeq
  <2>7. LET dh == [ch EXCEPT ![Len(ch)] = r]
        IN dh \in Seq(Chunks) /\ All(dh) = All(ch) \o <<>>
    BY <1>2, <2>2, <2>5, <2>6, LastReplaced
  <2>8. All(ch) \o <<>> = All(ch)
    BY AllType, ConcatEmptySeq DEF Bytes
  <2> QED BY <2>4, <2>7, <2>8
<1>3. (ch # <<>> /\ MakeRoom(ch, n) = [ch EXCEPT ![Len(ch)] = Realign(@)]) \/ MakeRoom(ch, n) = ch
  BY DEF MakeRoom
<1> QED BY <1>1, <1>2, <1>3

\* tmq_buffer_append.
LEMMA AppendOK ==
  ASSUME NEW b, BufferOK(b), NEW x \in Bytes
  PROVE  /\ BufferOK(BufferAppend(b, x))
         /\ Contents(BufferAppend(b, x)) = Contents(b) \o x
<1>1. b.chunks \in Seq(Chunks) /\ b.readable_bytes = Len(Contents(b)) /\ Contents(b) = All(b.chunks)
  BY DEF BufferOK, Contents, All
<1>2. Contents(b) \in Bytes /\ Len(Contents(b)) \in Nat /\ Len(x) \in Nat
  BY <1>1, AllType, LenProperties DEF Bytes
<1>3. CASE x = <<>>
  <2>1. BufferAppend(b, x) = b
    BY <1>3 DEF BufferAppend
  <2>2. Contents(b) \o <<>> = Contents(b)
    BY <1>2, ConcatEmptySeq DEF Bytes
  <2> QED BY <1>3, <2>1, <2>2
<1>4. CASE x # <<>>
  <2> DEFINE ch == MakeRoom(b.chunks, Len(x))
             dh == Spill(ch, x)
             r == BufferAppend(b, x)
  <2>1. r.chunks = dh /\ r.readable_bytes = b.readable_bytes + Len(x)
    BY <1>4 DEF BufferAppend
  <2>2. ch \in Seq(Chunks) /\ All(ch) = Contents(b)
    BY <1>1, MakeRoomOK
  <2> HIDE DEF ch, r
  <2>3. dh \in Seq(Chunks) /\ All(dh) = Contents(b) \o x
    BY <2>2, SpillOK
  <2> HIDE DEF dh
  <2>4. Contents(r) = Contents(b) \o x
    BY <2>1, <2>3 DEF Contents, All
  <2>5. Len(Contents(b) \o x) = Len(Contents(b)) + Len(x)
    BY <1>2, ConcatProperties DEF Bytes
  <2>6. BufferOK(r)
    BY <1>1, <2>1, <2>3, <2>4, <2>5 DEF BufferOK
  <2> QED BY <2>4, <2>6 DEF r
<1> QED BY <1>3, <1>4

\* The largest of a set of numbers with a bound.
LEMMA MaxIn ==
  ASSUME NEW n \in Nat, NEW S, S \subseteq 0 .. n, S # {}
  PROVE  Max(S) \in S /\ \A y \in S : Max(S) >= y
<1> DEFINE D == {n - y : y \in S}
<1>1. D \subseteq Nat /\ D # {}
  <2>1. \A y \in S : n - y \in Nat
    OBVIOUS
  <2>2. PICK y \in S : TRUE
    OBVIOUS
  <2>3. n - y \in D
    BY <2>2
  <2> QED BY <2>1, <2>3
<1>2. PICK d \in D : \A e \in D : d <= e
  <2> HIDE DEF D
  <2> QED BY <1>1, LeastIn
<1>3. PICK x \in S : d = n - x
  OBVIOUS
<1>4. ASSUME NEW y \in S
      PROVE  x >= y
  <2>1. n - y \in D
    OBVIOUS
  <2>2. d <= n - y
    BY <1>2, <2>1
  <2>3. x \in 0 .. n /\ y \in 0 .. n
    OBVIOUS
  <2> HIDE DEF D
  <2> QED BY <1>3, <2>2, <2>3
<1> QED BY <1>4 DEF Max

Drop(s, n) == SubSeq(s, n + 1, Len(s))

\* What is left of bytes without the first n.
LEMMA DropFacts ==
  ASSUME NEW s \in Bytes, NEW n \in Nat, n <= Len(s)
  PROVE  /\ Drop(s, n) \in Bytes /\ Len(Drop(s, n)) = Len(s) - n /\ Len(s) \in Nat
         /\ \A i \in 1 .. Len(s) - n : Drop(s, n)[i] = s[n + i]
         /\ SubSeq(s, 1, n) \in Bytes /\ SubSeq(s, 1, n) \o Drop(s, n) = s
<1>1. PICK l \in Nat : l = Len(s)
  BY LenProperties DEF Bytes
<1>2. s \in Seq(Nat) /\ \A i \in 1 .. l : s[i] \in Nat
  BY <1>1, ElementOfSeq DEF Bytes
<1>3. PICK a \in Int : a = n + 1
  OBVIOUS
<1>4. \A i \in a .. l : s[i] \in Nat
  BY <1>2, <1>3
<1>5. /\ SubSeq(s, a, l) \in Seq(Nat)
      /\ Len(SubSeq(s, a, l)) = IF a <= l THEN l - a + 1 ELSE 0
      /\ \A i \in 1 .. l - a + 1 : SubSeq(s, a, l)[i] = s[a + i - 1]
  BY <1>4, SubSeqProperties
<1>6. (IF a <= l THEN l - a + 1 ELSE 0) = l - n /\ l - a + 1 = l - n
      /\ \A i \in 1 .. l - n : a + i - 1 = n + i
  BY <1>1, <1>3
<1>7. Drop(s, n) = SubSeq(s, a, l)
  BY <1>1, <1>3 DEF Drop
<1>8. SubSeq(s, 1, n) \o Drop(s, n) = s
  <2>1. 1 \in 1 .. Len(s) + 1 /\ n \in 1 - 1 .. Len(s) /\ Len(s) \in n .. Len(s)
    BY <1>1
  <2>2. SubSeq(s, 1, n) \o SubSeq(s, n + 1, Len(s)) = SubSeq(s, 1, Len(s))
    BY <1>2, <2>1, ConcatAdjacentSubSeq
  <2> QED BY <1>2, <2>2, SubSeqFull DEF Drop
<1>9. SubSeq(s, 1, n) \in Bytes
  <2>1. \A i \in 1 .. n : s[i] \in Nat
    BY <1>1, <1>2
  <2> QED BY <2>1, SubSeqProperties DEF Bytes
<1>10. Len(Drop(s, n)) = l - n
  BY <1>5, <1>6, <1>7
<1>11. \A i \in 1 .. l - n : Drop(s, n)[i] = s[n + i]
  BY <1>5, <1>6, <1>7
<1> QED BY <1>1, <1>5, <1>7, <1>8, <1>9, <1>10, <1>11 DEF Bytes

\* Two pieces of bytes, one behind the other.
LEMMA ConcatFacts ==
  ASSUME NEW s \in Bytes, NEW t \in Bytes
  PROVE  /\ s \o t \in Bytes /\ Len(s \o t) = Len(s) + Len(t)
         /\ Len(s) \in Nat /\ Len(t) \in Nat
         /\ \A i \in 1 .. Len(s) + Len(t) : (s \o t)[i] =
                     IF i <= Len(s) THEN s[i] ELSE t[i - Len(s)]
<1>1. s \in Seq(Nat) /\ t \in Seq(Nat)
  BY DEF Bytes
<1>2. Len(s) \in Nat /\ Len(t) \in Nat
  BY <1>1, LenProperties
<1>3. /\ s \o t \in Seq(Nat) /\ Len(s \o t) = Len(s) + Len(t)
      /\ \A i \in 1 .. Len(s) + Len(t) : (s \o t)[i] =
                     IF i <= Len(s) THEN s[i] ELSE t[i - Len(s)]
  BY <1>1, ConcatProperties
<1> QED BY <1>2, <1>3 DEF Bytes

LEMMA SameBytes ==
  ASSUME NEW s \in Bytes, NEW t \in Bytes, Len(s) = Len(t), \A i \in 1 .. Len(s) : s[i] = t[i]
  PROVE  s = t
BY SeqEqual DEF Bytes

\* The first bytes of two pieces are the first of the first piece, as long as it lasts.
LEMMA DropFront ==
  ASSUME NEW s \in Bytes, NEW t \in Bytes, NEW n \in Nat, n <= Len(s)
  PROVE  Drop(s \o t, n) = Drop(s, n) \o t
<1>1. PICK a \in Nat, b \in Nat, u \in Bytes, d \in Bytes :
        a = Len(s) /\ b = Len(t) /\ u = s \o t /\ d = Drop(s, n)
  BY ConcatFacts, DropFacts
<1>2. Len(u) = a + b /\ \A i \in 1 .. a + b : u[i] = IF i <= a THEN s[i] ELSE t[i - a]
  BY <1>1, ConcatFacts
<1>3. Len(d) = a - n /\ \A i \in 1 .. a - n : d[i] = s[n + i]
  <2>1. /\ Len(Drop(s, n)) = Len(s) - n
        /\ \A i \in 1 .. Len(s) - n : Drop(s, n)[i] = s[n + i]
    BY DropFacts
  <2> QED BY <1>1, <2>1, Zenon
<1>4. n <= Len(u)
  BY <1>1, <1>2
<1>5. /\ Drop(u, n) \in Bytes /\ Len(Drop(u, n)) = (a + b) - n
      /\ \A i \in 1 .. (a + b) - n : Drop(u, n)[i] = u[n + i]
  <2>1. /\ Drop(u, n) \in Bytes /\ Len(Drop(u, n)) = Len(u) - n
        /\ \A i \in 1 .. Len(u) - n : Drop(u, n)[i] = u[n + i]
    BY <1>4, DropFacts
  <2> QED BY <1>2, <2>1, Zenon
<1>6. /\ d \o t \in Bytes /\ Len(d \o t) = (a - n) + b
      /\ \A i \in 1 .. (a - n) + b : (d \o t)[i] = IF i <= a - n THEN d[i] ELSE t[i - (a - n)]
  <2>1. /\ d \o t \in Bytes /\ Len(d \o t) = Len(d) + Len(t)
        /\ \A i \in 1 .. Len(d) + Len(t) : (d \o t)[i] =
                     IF i <= Len(d) THEN d[i] ELSE t[i - Len(d)]
    BY ConcatFacts
  <2> QED BY <1>1, <1>3, <2>1, Zenon
<1>7. (a + b) - n = (a - n) + b
  BY <1>1
<1>8. ASSUME NEW i \in 1 .. (a + b) - n
      PROVE  Drop(u, n)[i] = (d \o t)[i]
  <2>1. n + i \in 1 .. a + b /\ (n + i <= a <=> i <= a - n) /\ (n + i) - a = i - (a - n)
    BY <1>1
  <2>2. Drop(u, n)[i] = IF i <= a - n THEN s[n + i] ELSE t[i - (a - n)]
    BY <1>2, <1>5, <2>1
  <2>3. i <= a - n => d[i] = s[n + i]
    BY <1>3
  <2>4. (d \o t)[i] = IF i <= a - n THEN d[i] ELSE t[i - (a - n)]
    BY <1>6, <1>7
  <2> QED BY <2>2, <2>3, <2>4
<1>9. Drop(u, n) = d \o t
  BY <1>5, <1>6, <1>7, <1>8, SameBytes
<1> QED BY <1>1, <1>9

LEMMA DropBack ==
  ASSUME NEW s \in Bytes, NEW t \in Bytes, NEW m \in Nat, m <= Len(t)
  PROVE  Drop(s \o t, Len(s) + m) = Drop(t, m)
<1>1. PICK a \in Nat, b \in Nat, u \in Bytes, d \in Bytes :
        a = Len(s) /\ b = Len(t) /\ u = s \o t /\ d = Drop(t, m)
  BY ConcatFacts, DropFacts
<1>2. Len(u) = a + b /\ \A i \in 1 .. a + b : u[i] = IF i <= a THEN s[i] ELSE t[i - a]
  BY <1>1, ConcatFacts
<1>3. Len(d) = b - m /\ \A i \in 1 .. b - m : d[i] = t[m + i]
  BY <1>1, DropFacts
<1>4. a + m \in Nat /\ a + m <= Len(u)
  BY <1>1, <1>2
<1>5. /\ Drop(u, a + m) \in Bytes /\ Len(Drop(u, a + m)) = (a + b) - (a + m)
      /\ \A i \in 1 .. (a + b) - (a + m) : Drop(u, a + m)[i] = u[(a + m) + i]
  <2>1. PICK n \in Nat : n = a + m
    BY <1>4
  <2>2. n <= Len(u)
    BY <1>4, <2>1
  <2>3. /\ Drop(u, n) \in Bytes /\ Len(Drop(u, n)) = Len(u) - n
        /\ \A i \in 1 .. Len(u) - n : Drop(u, n)[i] = u[n + i]
    BY <2>2, DropFacts
  <2> QED BY <1>2, <2>1, <2>3, Zenon
<1>6. (a + b) - (a + m) = b - m
  OBVIOUS
<1>7. ASSUME NEW i \in 1 .. b - m
      PROVE  Drop(u, a + m)[i] = d[i]
  <2>1. (a + m) + i \in 1 .. a + b /\ ~ ((a + m) + i <= a) /\ ((a + m) + i) - a = m + i
    BY <1>1
  <2>2. Drop(u, a + m)[i] = t[m + i]
    BY <1>2, <1>5, <1>6, <2>1
  <2> QED BY <1>3, <2>2
<1>8. Drop(u, a + m) = d
  BY <1>3, <1>5, <1>6, <1>7, SameBytes
<1> QED BY <1>1, <1>8

\* A chunk that is read further.
LEMMA ChunkRead ==
  ASSUME NEW k \in Chunks, NEW m \in Nat, m <= Len(DataOf(k))
  PROVE  /\ [k EXCEPT !.read_idx = @ + m] \in Chunks
         /\ DataOf([k EXCEPT !.read_idx = @ + m]) = Drop(DataOf(k), m)
<1> DEFINE r == [k EXCEPT !.read_idx = @ + m]
<1>1. /\ DataOf(k) \in Bytes /\ Len(DataOf(k)) = Len(k.data) - k.read_idx
      /\ Len(DataOf(k)) \in Nat /\ Len(k.data) \in Nat /\ k.read_idx \in Nat
      /\ \A i \in 1 .. Len(DataOf(k)) : DataOf(k)[i] = k.data[k.read_idx + i]
  BY DataOfType
<1>2. PICK n \in Nat, p \in Nat, d \in Bytes : n = Len(k.data) /\ p = k.read_idx /\ d = DataOf(k)
  BY <1>1
<1>3. Len(d) = n - p /\ \A i \in 1 .. n - p : d[i] = k.data[p + i]
  BY <1>1, <1>2
<1>4. /\ k \in [chunk_size : Nat, read_idx : Nat, data : Bytes]
      /\ k.chunk_size \in Nat /\ Len(k.data) <= k.chunk_size
  BY DEF Chunks
<1>5. /\ r.data = k.data /\ r.read_idx = p + m /\ r.chunk_size = k.chunk_size
      /\ r \in [chunk_size : Nat, read_idx : Nat, data : Bytes]
  BY <1>2, <1>4
<1> HIDE DEF r
<1>6. m <= n - p /\ p + m <= n
  BY <1>2, <1>3
<1>7. r \in Chunks
  BY <1>2, <1>4, <1>5, <1>6 DEF Chunks
<1>8. /\ DataOf(r) \in Bytes /\ Len(DataOf(r)) = n - (p + m)
      /\ \A i \in 1 .. n - (p + m) : DataOf(r)[i] = k.data[(p + m) + i]
  BY <1>2, <1>5, <1>7, DataOfType
<1>9. /\ Drop(d, m) \in Bytes /\ Len(Drop(d, m)) = (n - p) - m
      /\ \A i \in 1 .. (n - p) - m : Drop(d, m)[i] = d[m + i]
  BY <1>3, <1>6, DropFacts
<1>10. n - (p + m) = (n - p) - m
  OBVIOUS
<1>11. ASSUME NEW i \in 1 .. n - (p + m)
       PROVE  DataOf(r)[i] = Drop(d, m)[i]
  <2>1. m + i \in 1 .. n - p /\ p + (m + i) = (p + m) + i
    OBVIOUS
  <2>2. Drop(d, m)[i] = k.data[p + (m + i)]
    BY <1>3, <1>9, <1>10, <2>1
  <2> QED BY <1>8, <2>1, <2>2
<1>12. DataOf(r) = Drop(d, m)
  BY <1>8, <1>9, <1>10, <1>11, SameBytes
<1> QED BY <1>2, <1>7, <1>12 DEF r

\* Arithmetic on the places of chunks.
LEMMA Places ==
  \A f, n \in Nat : \A j \in 1 .. n - f :
    /\ f + j \in Nat /\ j + 1 \in Nat /\ f + (j + 1) = (f + j) + 1 /\ (j + 1) - 1 = j
    /\ j + 1 \in 1 .. n - f => f + j \in 0 .. n /\ (f + j) + 1 \in 0 .. n
OBVIOUS

\* What is left when w bytes are taken from the front: the data behind them.
LEMMA Remaining ==
  ASSUME NEW ch \in Seq(Chunks), NEW w \in Nat, NEW f \in Nat, f < Len(ch),
         Len(DataUpTo(ch, f)) <= w, w < Len(DataUpTo(ch, f + 1)),
         NEW dh \in Seq(Chunks), Len(dh) = Len(ch) - f,
         DataOf(dh[1]) = Drop(DataOf(ch[f + 1]), w - Len(DataUpTo(ch, f))),
         \A i \in 2 .. Len(ch) - f : dh[i] = ch[f + i]
  PROVE  \A j \in 1 .. Len(ch) - f :
           w <= Len(DataUpTo(ch, f + j)) /\ DataUpTo(dh, j) = Drop(DataUpTo(ch, f + j), w)
<1> DEFINE U(k) == DataUpTo(ch, k)
           P(j) == w <= Len(U(f + j)) /\ DataUpTo(dh, j) = Drop(U(f + j), w)
<1>1. PICK n \in Nat : n = Len(ch) /\ f < n
  BY LenProperties
<1>2. ASSUME NEW k \in 0 .. n
      PROVE  U(k) \in Bytes /\ Len(U(k)) \in Nat
             /\ (k > 0 => U(k) = U(k - 1) \o DataOf(ch[k]) /\ DataOf(ch[k]) \in Bytes)
  <2>1. \A i \in 1 .. k : ch[i] \in Chunks
    BY <1>1, ElementOfSeq
  <2>2. U(k) \in Bytes
    BY <2>1, UpToType
  <2>3. Len(U(k)) \in Nat
    BY <2>2, LenProperties DEF Bytes
  <2>4. ASSUME k > 0
        PROVE  U(k) = U(k - 1) \o DataOf(ch[k]) /\ DataOf(ch[k]) \in Bytes
    <3>1. k \in Nat /\ k \in 1 .. k
      BY <2>4
    <3>2. U(k) = U(k - 1) \o DataOf(ch[k])
      BY <2>1, <2>4, <3>1, UpTo
    <3>3. ch[k] \in Chunks
      BY <2>1, <3>1
    <3> QED BY <3>2, <3>3, DataOfType
  <2> QED BY <2>2, <2>3, <2>4
<1>3. ASSUME NEW k \in 1 .. n - f
      PROVE  DataUpTo(dh, 0) = <<>> /\ DataUpTo(dh, k) = DataUpTo(dh, k - 1) \o DataOf(dh[k])
             /\ DataOf(dh[k]) \in Bytes
  <2>1. k \in Nat /\ k > 0 /\ \A i \in 1 .. k : i \in 1 .. Len(dh)
    BY <1>1
  <2>2. \A i \in 1 .. k : dh[i] \in Chunks
    BY <2>1, ElementOfSeq
  <2>3. DataOf(dh[k]) \in Bytes
    <3>1. k \in 1 .. k
      BY <2>1
    <3>2. dh[k] \in Chunks
      BY <2>2, <3>1
    <3> QED BY <3>2, DataOfType
  <2> QED BY <2>1, <2>2, <2>3, UpTo
<1>4. P(1)
  <2> DEFINE k == ch[f + 1]
             m == w - Len(U(f))
  <2>1. f \in 0 .. n /\ f + 1 \in 0 .. n /\ (f + 1) - 1 = f /\ f + 1 > 0 /\ f + 1 \in 1 .. n
    BY <1>1
  <2>2. /\ U(f) \in Bytes /\ Len(U(f)) \in Nat /\ U(f + 1) \in Bytes /\ Len(U(f + 1)) \in Nat
        /\ U(f + 1) = U(f) \o DataOf(k) /\ DataOf(k) \in Bytes
    BY <1>2, <2>1
  <2>3. k \in Chunks
    BY <1>1, <2>1, ElementOfSeq
  <2>4. 1 \in 1 .. n - f
    BY <1>1
  <2>5. DataOf(dh[1]) = Drop(DataOf(k), m)
    OBVIOUS
  <2> HIDE DEF U, k
  <2>6. Len(U(f + 1)) = Len(U(f)) + Len(DataOf(k)) /\ Len(DataOf(k)) \in Nat
    BY <2>2, ConcatFacts
  <2>7. Len(U(f)) <= w /\ w < Len(U(f + 1))
    BY DEF U
  <2>8. m \in Nat /\ m <= Len(DataOf(k)) /\ Len(U(f)) + m = w
    BY <2>2, <2>6, <2>7
  <2> HIDE DEF m
  <2>10. Drop(U(f + 1), w) = Drop(DataOf(k), m)
    <3>1. Drop(U(f) \o DataOf(k), Len(U(f)) + m) = Drop(DataOf(k), m)
      BY <2>2, <2>8, DropBack
    <3> QED BY <2>2, <2>8, <3>1
  <2>11. DataUpTo(dh, 1) = DataOf(dh[1])
    <3>1. DataUpTo(dh, 0) = <<>> /\ DataUpTo(dh, 1) = DataUpTo(dh, 1 - 1) \o DataOf(dh[1])
          /\ DataOf(dh[1]) \in Bytes
      BY <1>3, <2>4
    <3>2. 1 - 1 = 0
      OBVIOUS
    <3>3. <<>> \o DataOf(dh[1]) = DataOf(dh[1])
      BY <3>1, ConcatEmptySeq DEF Bytes
    <3> QED BY <3>1, <3>2, <3>3
  <2>12. w <= Len(U(f + 1))
    BY <2>2, <2>7
  <2> QED BY <2>5, <2>10, <2>11, <2>12
<1>5. ASSUME NEW j \in 1 .. n - f, j + 1 \in 1 .. n - f, P(j)
      PROVE  P(j + 1)
  <2>1. PICK a \in Nat, b \in Nat : a = f + j /\ b = j + 1 /\ f + b = a + 1 /\ b - 1 = j
    <3>1. f + j \in Nat /\ j + 1 \in Nat /\ f + (j + 1) = (f + j) + 1 /\ (j + 1) - 1 = j
      BY Places
    <3> QED BY <3>1
  <2>2. a \in 0 .. n /\ a + 1 \in 0 .. n /\ a + 1 > 0 /\ (a + 1) - 1 = a
    <3>1. f + j \in 0 .. n /\ (f + j) + 1 \in 0 .. n
      BY <1>5, Places
    <3> QED BY <2>1, <3>1
  <2>3. /\ U(a) \in Bytes /\ Len(U(a)) \in Nat /\ Len(U(a + 1)) \in Nat
        /\ U(a + 1) = U(a) \o DataOf(ch[a + 1]) /\ DataOf(ch[a + 1]) \in Bytes
    BY <1>2, <2>2
  <2>4. b \in 2 .. n - f /\ b \in 1 .. n - f
    BY <1>1, <1>5, <2>1
  <2>5. dh[b] = ch[a + 1]
    BY <1>1, <2>1, <2>4
  <2>6. DataUpTo(dh, b) = DataUpTo(dh, j) \o DataOf(ch[a + 1])
    BY <1>3, <2>1, <2>4, <2>5
  <2>7. w <= Len(U(a)) /\ DataUpTo(dh, j) = Drop(U(a), w)
    BY <1>5, <2>1
  <2> HIDE DEF U
  <2>8. Drop(U(a) \o DataOf(ch[a + 1]), w) = Drop(U(a), w) \o DataOf(ch[a + 1])
    BY <2>3, <2>7, DropFront
  <2>9. Len(U(a + 1)) = Len(U(a)) + Len(DataOf(ch[a + 1])) /\ Len(DataOf(ch[a + 1])) \in Nat
    BY <2>3, ConcatFacts
  <2>10. w <= Len(U(a + 1))
    <3>1. \A u, v, d \in Nat : v = u + d /\ w <= u => w <= v
      OBVIOUS
    <3> QED BY <2>3, <2>7, <2>9, <3>1, Zenon
  <2>11. DataUpTo(dh, b) = Drop(U(a + 1), w)
    BY <2>3, <2>6, <2>7, <2>8
  <2> QED BY <2>1, <2>10, <2>11
<1> DEFINE T == {i \in Nat : i + 1 \in 1 .. n - f => P(i + 1)}
<1> HIDE DEF P
<1>6. 0 \in T
  BY <1>4
<1>7. ASSUME NEW i \in Nat, i \in T
      PROVE  i + 1 \in T
  <2>1. i + 1 \in Nat
    OBVIOUS
  <2>2. ASSUME (i + 1) + 1 \in 1 .. n - f
        PROVE  P((i + 1) + 1)
    <3>1. i + 1 \in 1 .. n - f
      BY <1>1, <2>2
    <3>2. P(i + 1)
      BY <1>7, <3>1, Zenon
    <3> QED BY <1>5, <2>2, <3>1, <3>2, Zenon
  <2> QED BY <2>1, <2>2, Zenon
<1> HIDE DEF T
<1>8. \A i \in Nat : i \in T
  BY <1>6, <1>7, NatInductive
<1>9. ASSUME NEW j \in 1 .. n - f
      PROVE  P(j)
  <2>1. PICK i \in Nat : i + 1 = j
    <3>1. j - 1 \in Nat /\ (j - 1) + 1 = j
      BY <1>1
    <3> QED BY <3>1
  <2>2. i \in T
    BY <1>8
  <2> QED BY <2>1, <2>2 DEF T
<1> QED BY <1>1, <1>9 DEF P

\* tmq_buffer_remove, and tmq_buffer_write_fd with tmq_buffer_peek.
LEMMA RemoveOK ==
  ASSUME NEW b, BufferOK(b), NEW w \in Nat, w <= b.readable_bytes
  PROVE  /\ BufferOK(BufferRemove(b, w))
         /\ BufferPeek(b, w) \in Bytes /\ Contents(BufferRemove(b, w)) \in Bytes
         /\ BufferPeek(b, w) \o Contents(BufferRemove(b, w)) = Contents(b)
<1> DEFINE ch == b.chunks
           n == Len(ch)
           U(k) == DataUpTo(ch, k)
           S == {k \in 0 .. n : Len(U(k)) <= w}
           f == Max(S)
           m == w - Len(U(f))
           left == SubSeq(ch, f + 1, n)
           dh == IF left = <<>> THEN left ELSE [left EXCEPT ![1].read_idx = @ + m]
           r == BufferRemove(b, w)
<1>1. ch \in Seq(Chunks) /\ n \in Nat /\ b.readable_bytes = Len(U(n)) /\ Contents(b) = U(n)
  BY LenProperties DEF BufferOK, Contents
<1>2. ASSUME NEW k \in 0 .. n
      PROVE  U(k) \in Bytes /\ Len(U(k)) \in Nat
  <2>1. \A i \in 1 .. k : ch[i] \in Chunks
    BY <1>1, ElementOfSeq
  <2>2. U(k) \in Bytes
    BY <2>1, UpToType
  <2> QED BY <2>2, LenProperties DEF Bytes
<1>3. U(0) = <<>>
  BY UpTo
<1>4. r.chunks = dh /\ r.readable_bytes = b.readable_bytes - w
  <2>1. (IF w > b.readable_bytes THEN b.readable_bytes ELSE w) = w
    BY <1>1, <1>2
  <2> QED BY <2>1 DEF BufferRemove
<1>5. f \in 0 .. n /\ Len(U(f)) <= w /\ \A k \in 0 .. n : Len(U(k)) <= w => k <= f
  <2>1. Len(U(0)) = 0
    BY <1>3
  <2> HIDE DEF U, n, ch
  <2>2. S \subseteq 0 .. n /\ S # {}
    BY <1>1, <2>1
  <2>3. f \in S /\ \A k \in S : f >= k
    <3> HIDE DEF S
    <3> QED BY <1>1, <2>2, MaxIn
  <2>4. f \in 0 .. n /\ Len(U(f)) <= w
    BY <2>3
  <2>5. ASSUME NEW k \in 0 .. n, Len(U(k)) <= w
        PROVE  k <= f
    <3>1. k \in S
      BY <2>5
    <3>2. f >= k
      BY <2>3, <3>1
    <3> HIDE DEF f, S
    <3> QED BY <1>1, <2>4, <3>2
  <2> QED BY <2>4, <2>5
<1> HIDE DEF f, r
<1>6. n \in 0 .. n /\ U(n) \in Bytes /\ Len(U(n)) \in Nat /\ Len(U(f)) \in Nat
  BY <1>1, <1>2, <1>5
<1>7. BufferPeek(b, w) = SubSeq(U(n), 1, w)
  BY <1>1 DEF BufferPeek
\* It is enough that what is left is everything behind the first w bytes.
<1>8. ASSUME r.chunks \in Seq(Chunks), Contents(r) = Drop(U(n), w)
      PROVE  /\ BufferOK(r) /\ BufferPeek(b, w) \in Bytes /\ Contents(r) \in Bytes
             /\ BufferPeek(b, w) \o Contents(r) = Contents(b)
  <2> HIDE DEF U, n, ch
  <2>1. w <= Len(U(n))
    BY <1>1
  <2>2. /\ Drop(U(n), w) \in Bytes /\ Len(Drop(U(n), w)) = Len(U(n)) - w
        /\ SubSeq(U(n), 1, w) \in Bytes /\ SubSeq(U(n), 1, w) \o Drop(U(n), w) = U(n)
    BY <1>6, <2>1, DropFacts
  <2>3. BufferOK(r)
    BY <1>1, <1>4, <1>8, <2>2 DEF BufferOK
  <2> QED BY <1>1, <1>7, <1>8, <2>2, <2>3
<1>9. /\ left \in Seq(Chunks) /\ Len(left) = n - f
      /\ \A i \in 1 .. n - f : left[i] = ch[f + i]
  <2> HIDE DEF ch
  <2>1. PICK a \in Int, c \in Int : a = f + 1 /\ c = n
    BY <1>1, <1>5
  <2>2. \A i \in a .. c : ch[i] \in Chunks
    BY <1>1, <1>5, <2>1, ElementOfSeq
  <2>3. /\ SubSeq(ch, a, c) \in Seq(Chunks)
        /\ Len(SubSeq(ch, a, c)) = IF a <= c THEN c - a + 1 ELSE 0
        /\ \A i \in 1 .. c - a + 1 : SubSeq(ch, a, c)[i] = ch[a + i - 1]
    BY <2>2, SubSeqProperties
  <2>4. /\ (IF a <= c THEN c - a + 1 ELSE 0) = n - f /\ c - a + 1 = n - f
        /\ \A i \in 1 .. n - f : a + i - 1 = f + i
    <3> HIDE DEF n
    <3> QED BY <1>1, <1>5, <2>1
  <2>5. left = SubSeq(ch, a, c)
    BY <2>1
  <2>6. Len(left) = n - f
    BY <2>3, <2>4, <2>5, Zenon
  <2> HIDE DEF n, left
  <2>7. \A i \in 1 .. n - f : left[i] = ch[f + i]
    BY <2>3, <2>4, <2>5
  <2> QED BY <2>3, <2>5, <2>6, <2>7
<1> HIDE DEF left
<1>10. CASE f = n
  <2>1. Len(left) = 0
    <3> HIDE DEF n
    <3> QED BY <1>1, <1>9, <1>10
  <2>2. left = <<>>
    BY <1>9, <2>1, EmptySeq
  <2>3. r.chunks = <<>>
    BY <1>4, <2>2
  <2>4. Contents(r) = <<>>
    <3>1. Contents(r) = DataUpTo(<<>>, 0)
      BY <2>3 DEF Contents
    <3> QED BY <3>1, UpTo
  <2>5. Len(U(n)) = w
    <3> HIDE DEF U, n
    <3> QED BY <1>1, <1>5, <1>6, <1>10
  <2>6. Drop(U(n), w) = <<>>
    <3> HIDE DEF U, n
    <3>1. PICK a \in Int, c \in Int : a = w + 1 /\ c = Len(U(n)) /\ c < a
      BY <2>5
    <3>2. SubSeq(U(n), a, c) = <<>>
      BY <3>1, SubSeqEmpty
    <3> QED BY <3>1, <3>2 DEF Drop
  <2>7. r.chunks \in Seq(Chunks)
    BY <2>3, EmptySeq
  <2> QED BY <1>8, <2>4, <2>6, <2>7 DEF r
<1>11. CASE f # n
  <2>1. f \in Nat /\ f < n /\ f + 1 \in 0 .. n /\ n - f \in 1 .. n - f /\ 1 \in 1 .. n - f
    <3> HIDE DEF n
    <3> QED BY <1>1, <1>5, <1>11
  <2>2. w < Len(U(f + 1))
    <3> HIDE DEF U, n
    <3>1. Len(U(f + 1)) \in Nat
      BY <1>2, <2>1
    <3>2. ~ (Len(U(f + 1)) <= w)
      BY <1>5, <2>1
    <3> QED BY <3>1, <3>2
  <2>3. left # <<>>
    <3> HIDE DEF n
    <3> QED BY <1>1, <1>9, <2>1
  <2>4. PICK k \in Chunks : k = left[1] /\ k = ch[f + 1]
    <3>1. left[1] \in Chunks
      <4>1. 1 \in 1 .. Len(left)
        BY <1>9, <2>1
      <4> QED BY <1>9, <4>1, ElementOfSeq
    <3>2. left[1] = ch[f + 1]
      BY <1>9, <2>1
    <3> QED BY <3>1, <3>2
  <2>5. U(f + 1) = U(f) \o DataOf(k)
    <3>1. PICK g \in Nat : g = f + 1 /\ g > 0 /\ g - 1 = f
      BY <2>1
    <3>2. \A i \in 1 .. g : ch[i] \in Chunks
      BY <1>1, <2>1, <3>1, ElementOfSeq
    <3>3. DataUpTo(ch, g) = DataUpTo(ch, g - 1) \o DataOf(ch[g])
      BY <3>1, <3>2, UpTo
    <3> QED BY <2>4, <3>1, <3>3
  <2>6. DataOf(k) \in Bytes /\ Len(DataOf(k)) \in Nat
    BY DataOfType
  <2>7. Len(U(f + 1)) = Len(U(f)) + Len(DataOf(k))
    <3> HIDE DEF U, n
    <3>1. U(f) \in Bytes
      BY <1>2, <1>5
    <3> QED BY <2>5, <2>6, <3>1, ConcatFacts
  <2>8. m \in Nat /\ m <= Len(DataOf(k))
    <3> HIDE DEF U
    <3> QED BY <1>5, <1>6, <2>2, <2>6, <2>7
  <2> HIDE DEF m
  <2>9. PICK q \in Chunks : q = [k EXCEPT !.read_idx = @ + m] /\ DataOf(q) = Drop(DataOf(k), m)
    BY <2>8, ChunkRead
  <2>10. dh = [left EXCEPT ![1] = q]
    BY <2>3, <2>4, <2>9
  <2> HIDE DEF dh
  <2>11. 1 \in 1 .. Len(left)
    BY <1>9, <2>1
  <2>12. /\ dh \in Seq(Chunks) /\ Len(dh) = n - f
         /\ \A i \in 1 .. n - f : dh[i] = IF i = 1 THEN q ELSE left[i]
    BY <1>9, <2>10, <2>11, ExceptSeq
  <2>13. \A i \in 2 .. n - f : dh[i] = ch[f + i]
    <3>1. \A i \in 2 .. n - f : i \in 1 .. n - f /\ i # 1
      <4> HIDE DEF n
      <4> QED BY <1>1, <2>1
    <3> QED BY <1>9, <2>12, <3>1
  <2>14. DataOf(dh[1]) = Drop(DataOf(ch[f + 1]), w - Len(U(f)))
    BY <2>1, <2>4, <2>9, <2>12 DEF m
  <2>15. DataUpTo(dh, n - f) = Drop(U(f + (n - f)), w)
    BY <1>1, <1>5, <2>1, <2>2, <2>12, <2>13, <2>14, Remaining
  <2>16. f + (n - f) = n
    <3> HIDE DEF n
    <3> QED BY <1>1, <2>1
  <2>17. Contents(r) = Drop(U(n), w)
    BY <1>4, <2>12, <2>15, <2>16 DEF Contents
  <2> QED BY <1>4, <1>8, <2>12, <2>17 DEF r
<1> QED BY <1>10, <1>11

-----------------------------------------------------------------------------
(* The output of a connection.                                             *)

Sending == {"CONNECTED", "DISCONNECTING"}
Young == {"NONE", "SSL_HANDSHAKING"}
Numbered(n) == [i \in 1 .. n |-> i]

\* What the kernel got and what is buffered are the bytes written.
DataOK(k) ==
  /\ BufferOK(k.out) /\ k.sock \in Bytes /\ k.written \in Nat
  /\ k.sock \o Contents(k.out) = Numbered(k.written)

OneWriter(k) ==
  \A i, j \in DOMAIN k.handlers :
    k.handlers[i] = "write" /\ k.handlers[j] = "write" => i = j

\* The handler of writing is there when there is something to write, and before
\* the end of the handshake nothing is written and nobody can write.
WriterOK(k) ==
  /\ k.is_writing \in BOOLEAN
  /\ k.state \in Open => OneWriter(k)
  /\ k.state \in Sending => /\ k.out.readable_bytes > 0 <=> k.is_writing
                            /\ k.is_writing <=> Has(k, "write")
  /\ k.state \in Young => ~ k.held /\ Bal(k) = 0 /\ k.out.readable_bytes = 0 /\ ~ k.is_writing

Output(k) == DataOK(k) /\ WriterOK(k)

LEMMA SameData ==
  ASSUME NEW k, NEW r, DataOK(k), r.out = k.out, r.sock = k.sock, r.written = k.written
  PROVE  DataOK(r)
BY DEF DataOK

\* What neither the data nor the handlers depend on.
LEMMA SameOutput ==
  ASSUME NEW k, NEW r, Output(k), r.out = k.out, r.sock = k.sock, r.written = k.written,
         r.is_writing = k.is_writing, r.handlers = k.handlers,
         r.state = k.state \/ r.state = "FREED",
         k.state \notin Young \/ (r.held = k.held /\ Bal(r) = Bal(k))
  PROVE  Output(r)
<1>1. DataOK(r)
  BY SameData DEF Output
<1>2. WriterOK(k)
  BY DEF Output
<1>3. CASE r.state = "FREED"
  <2>1. r.state \notin Open /\ r.state \notin Sending /\ r.state \notin Young
    BY <1>3 DEF Open, Sending, Young
  <2> QED BY <1>1, <1>2, <2>1 DEF Output, WriterOK
<1>4. CASE r.state = k.state
  <2>1. r.state \in Open => OneWriter(r)
    BY <1>2, <1>4 DEF WriterOK, OneWriter
  <2>2. r.state \in Sending => /\ r.out.readable_bytes > 0 <=> r.is_writing
                               /\ r.is_writing <=> Has(r, "write")
    BY <1>2, <1>4 DEF WriterOK, Has
  <2>3. r.state \in Young => ~ r.held /\ Bal(r) = 0 /\ r.out.readable_bytes = 0 /\ ~ r.is_writing
    BY <1>2, <1>4 DEF WriterOK
  <2>4. r.is_writing \in BOOLEAN
    BY <1>2 DEF WriterOK
  <2>5. WriterOK(r)
    BY <2>1, <2>2, <2>3, <2>4 DEF WriterOK
  <2> QED BY <1>1, <2>5 DEF Output
<1> QED BY <1>3, <1>4

\* Without the only h there is none.
LEMMA NoneLeft ==
  ASSUME NEW s \in Seq(Names), NEW h, \A i, j \in DOMAIN s : s[i] = h /\ s[j] = h => i = j
  PROVE  \A i \in DOMAIN RemoveFirst(s, h) : RemoveFirst(s, h)[i] # h
<1>0. Len(s) \in Nat /\ DOMAIN s = 1 .. Len(s) /\ \A i \in 1 .. Len(s) : s[i] \in Names
  BY LenProperties, ElementOfSeq
<1>1. CASE ~ \E i \in 1 .. Len(s) : s[i] = h
  BY <1>0, <1>1 DEF RemoveFirst
<1>2. CASE \E i \in 1 .. Len(s) : s[i] = h
  <2> DEFINE I == {i \in 1 .. Len(s) : s[i] = h}
  <2>1. Min(I) \in I
    <3>1. I \subseteq Nat /\ I # {}
      BY <1>0, <1>2
    <3> HIDE DEF I
    <3> QED BY <3>1, MinIn
  <2>2. RemoveFirst(s, h) = RemoveAt(s, Min(I))
    BY <1>2 DEF RemoveFirst, SelectInSeq
  <2> HIDE DEF I
  <2>3. PICK k \in 1 .. Len(s) : k = Min(I) /\ s[k] = h
    BY <2>1 DEF I
  <2>4. k \in Nat /\ k >= 1 /\ k <= Len(s)
    BY <1>0
  <2>5. \A i \in 1 .. Len(s) : i # k => s[i] # h
    BY <1>0, <2>3
  <2>6. PICK n \in Nat : n = Len(s)
    BY <1>0
  <2>7. /\ SubSeq(s, 1, k - 1) \in Seq(Names) /\ Len(SubSeq(s, 1, k - 1)) = k - 1
        /\ \A i \in 1 .. k - 1 : SubSeq(s, 1, k - 1)[i] = s[i]
    <3>1. PICK a \in Int, b \in Int : a = 1 /\ b = k - 1
      BY <2>4
    <3>2. \A i \in a .. b : s[i] \in Names
      BY <1>0, <2>4, <3>1
    <3>3. /\ SubSeq(s, a, b) \in Seq(Names)
          /\ Len(SubSeq(s, a, b)) = IF a <= b THEN b - a + 1 ELSE 0
          /\ \A i \in 1 .. b - a + 1 : SubSeq(s, a, b)[i] = s[a + i - 1]
      BY <3>2, SubSeqProperties
    <3>4. /\ (IF a <= b THEN b - a + 1 ELSE 0) = k - 1 /\ b - a + 1 = k - 1
          /\ \A i \in 1 .. k - 1 : a + i - 1 = i
      BY <2>4, <3>1
    <3> QED BY <3>1, <3>3, <3>4
  <2>8. /\ SubSeq(s, k + 1, n) \in Seq(Names) /\ Len(SubSeq(s, k + 1, n)) = n - k
        /\ \A i \in 1 .. n - k : SubSeq(s, k + 1, n)[i] = s[k + i]
    <3>1. PICK a \in Int : a = k + 1
      BY <2>4
    <3>2. \A i \in a .. n : s[i] \in Names
      BY <1>0, <2>4, <2>6, <3>1
    <3>3. /\ SubSeq(s, a, n) \in Seq(Names)
          /\ Len(SubSeq(s, a, n)) = IF a <= n THEN n - a + 1 ELSE 0
          /\ \A i \in 1 .. n - a + 1 : SubSeq(s, a, n)[i] = s[a + i - 1]
      BY <3>2, SubSeqProperties
    <3>4. /\ (IF a <= n THEN n - a + 1 ELSE 0) = n - k /\ n - a + 1 = n - k
          /\ \A i \in 1 .. n - k : a + i - 1 = k + i
      BY <2>4, <2>6, <3>1
    <3> QED BY <3>1, <3>3, <3>4
  <2>9. PICK a \in Seq(Names), b \in Seq(Names) :
          a = SubSeq(s, 1, k - 1) /\ b = SubSeq(s, k + 1, n)
    BY <2>7, <2>8
  <2>10. RemoveFirst(s, h) = a \o b
    BY <2>2, <2>3, <2>6, <2>9 DEF RemoveAt
  <2>11. /\ Len(a) = k - 1 /\ \A i \in 1 .. k - 1 : a[i] = s[i]
         /\ Len(b) = n - k /\ \A i \in 1 .. n - k : b[i] = s[k + i]
    BY <2>7, <2>8, <2>9
  <2>12. /\ DOMAIN (a \o b) = 1 .. (k - 1) + (n - k)
         /\ \A i \in 1 .. (k - 1) + (n - k) : (a \o b)[i] = IF i <= k - 1 THEN a[i] ELSE b[i - (k - 1)]
    <3>1. /\ a \o b \in Seq(Names) /\ Len(a \o b) = Len(a) + Len(b)
          /\ \A i \in 1 .. Len(a) + Len(b) : (a \o b)[i] = IF i <= Len(a) THEN a[i] ELSE b[i - Len(a)]
      BY ConcatProperties
    <3>2. DOMAIN (a \o b) = 1 .. Len(a \o b)
      BY <3>1, LenProperties
    <3> QED BY <2>11, <3>1, <3>2, Zenon
  <2>13. ASSUME NEW i \in 1 .. (k - 1) + (n - k)
         PROVE  (a \o b)[i] # h
    <3>1. CASE i <= k - 1
      <4>1. i \in 1 .. k - 1 /\ i \in 1 .. Len(s) /\ i # k
        BY <2>4, <2>6, <3>1
      <4> QED BY <2>5, <2>11, <2>12, <3>1, <4>1
    <3>2. CASE ~ (i <= k - 1)
      <4>1. PICK j \in Int : j = i - (k - 1)
        BY <2>4
      <4>2. j \in 1 .. n - k /\ k + j \in 1 .. Len(s) /\ k + j # k
        BY <2>4, <2>6, <3>2, <4>1
      <4>3. (a \o b)[i] = s[k + j]
        BY <2>11, <2>12, <3>2, <4>1, <4>2
      <4> QED BY <2>5, <4>2, <4>3
    <3> QED BY <3>1, <3>2
  <2> QED BY <2>10, <2>12, <2>13
<1> QED BY <1>0, <1>1, <1>2

\* What register, unregister and release leave alone.
LEMMA RegisterKeeps ==
  ASSUME NEW k, NEW h, DOMAIN k = Fields
  PROVE  LET r == Register(k, h) IN
         /\ DOMAIN r = Fields /\ r.out = k.out /\ r.sock = k.sock /\ r.written = k.written
         /\ r.is_writing = k.is_writing /\ r.state = k.state /\ r.held = k.held
         /\ r.handlers = <<h>> \o k.handlers
BY DEF Register, Fields

LEMMA UnregisterKeeps ==
  ASSUME NEW k, NEW h, DOMAIN k = Fields
  PROVE  LET r == Unregister(k, h) IN
         /\ DOMAIN r = Fields /\ r.out = k.out /\ r.sock = k.sock /\ r.written = k.written
         /\ r.is_writing = k.is_writing /\ r.state = k.state /\ r.held = k.held
         /\ r.handlers = IF Has(k, h) THEN RemoveFirst(k.handlers, h) ELSE k.handlers
<1>1. CASE ~ Has(k, h)
  BY <1>1 DEF Unregister
<1>2. CASE Has(k, h)
  BY <1>2 DEF Unregister, Fields
<1> QED BY <1>1, <1>2

LEMMA ReleaseKeeps ==
  ASSUME NEW k, NEW n, DOMAIN k = Fields
  PROVE  LET r == Release(k, n) IN
         /\ DOMAIN r = Fields /\ r.out = k.out /\ r.sock = k.sock /\ r.written = k.written
         /\ r.is_writing = k.is_writing /\ r.held = k.held /\ r.handlers = k.handlers
         /\ r.state = IF k.ref_cnt = n THEN "FREED" ELSE k.state
BY DEF Release, Fields

\* Closing keeps the data, and afterwards nothing is written.
LEMMA CloseData ==
  ASSUME NEW k, DOMAIN k = Fields, DataOK(k), k.is_writing \in BOOLEAN, k.state # "DISCONNECTED"
  PROVE  Output(ConnClose(k)) /\ ConnClose(k).state \notin Young
<1> DEFINE a == Unregister(k, "read")
           b == Unregister(a, "error")
           u == Unregister(b, "write")
           v == [u EXCEPT !.state = "DISCONNECTED", !.in_map = FALSE]
           w == [u EXCEPT !.state = "DISCONNECTED"]
           r == IF k.kind = "console" THEN w ELSE Release(v, 1)
<1>1. /\ DOMAIN a = Fields /\ a.out = k.out /\ a.sock = k.sock /\ a.written = k.written
      /\ a.is_writing = k.is_writing
  BY UnregisterKeeps
<1> HIDE DEF a
<1>2. /\ DOMAIN b = Fields /\ b.out = k.out /\ b.sock = k.sock /\ b.written = k.written
      /\ b.is_writing = k.is_writing
  BY <1>1, UnregisterKeeps
<1> HIDE DEF b
<1>3. /\ DOMAIN u = Fields /\ u.out = k.out /\ u.sock = k.sock /\ u.written = k.written
      /\ u.is_writing = k.is_writing
  BY <1>2, UnregisterKeeps
<1> HIDE DEF u
<1>4. /\ DOMAIN v = Fields /\ v.out = k.out /\ v.sock = k.sock /\ v.written = k.written
      /\ v.is_writing = k.is_writing /\ v.state = "DISCONNECTED"
  BY <1>3 DEF Fields
<1>0. /\ w.out = k.out /\ w.sock = k.sock /\ w.written = k.written
      /\ w.is_writing = k.is_writing /\ w.state = "DISCONNECTED"
  BY <1>3 DEF Fields
<1> HIDE DEF v, w
<1>5. /\ r.out = k.out /\ r.sock = k.sock /\ r.written = k.written
      /\ r.is_writing = k.is_writing /\ r.state \in {"DISCONNECTED", "FREED"}
  BY <1>0, <1>4, ReleaseKeeps
<1> HIDE DEF r
<1>6. DataOK(r)
  BY <1>5, SameData
<1>7. WriterOK(r)
  BY <1>5 DEF WriterOK, Open, Sending, Young
<1>8. ConnClose(k) = r
  BY DEF ConnClose, r, v, w, u, b, a
<1>9. r.state \notin Young
  BY <1>5 DEF Young
<1> QED BY <1>6, <1>7, <1>8, <1>9 DEF Output

LEMMA CloseOutput ==
  ASSUME NEW k, Alive(k), Output(k)
  PROVE  Output(ConnClose(k)) /\ ConnClose(k).state \notin Young
<1>1. CASE k.state = "DISCONNECTED"
  BY <1>1 DEF ConnClose, Young
<1>2. CASE k.state # "DISCONNECTED"
  BY <1>2, CloseData DEF Alive, ConnOK, Output, WriterOK
<1> QED BY <1>1, <1>2

\* The handler of writing is registered when there was none.
LEMMA WriterRegistered ==
  ASSUME NEW k, DOMAIN k = Fields, k.handlers \in Seq(Names), ~ Has(k, "write")
  PROVE  OneWriter(Register(k, "write")) /\ Has(Register(k, "write"), "write")
<1> DEFINE s == k.handlers
           t == <<"write">> \o s
           r == Register(k, "write")
<1>1. r.handlers = t
  BY RegisterKeeps
<1>2. PICK w \in Seq(Names) : w = <<"write">> /\ Len(w) = 1 /\ w[1] = "write"
  <2>1. "write" \in Names
    BY DEF Names
  <2>2. <<"write">> \in Seq(Names) /\ Len(<<"write">>) = 1 /\ <<"write">>[1] = "write"
    BY <2>1
  <2> QED BY <2>2
<1>3. Len(s) \in Nat /\ DOMAIN s = 1 .. Len(s)
  BY LenProperties
<1>4. /\ w \o s \in Seq(Names) /\ Len(w \o s) = Len(w) + Len(s)
      /\ \A i \in 1 .. Len(w) + Len(s) : (w \o s)[i] = IF i <= Len(w) THEN w[i] ELSE s[i - Len(w)]
  BY ConcatProperties
<1>5. DOMAIN (w \o s) = 1 .. 1 + Len(s)
  BY <1>2, <1>4, LenProperties
<1>6. \A i \in 1 .. 1 + Len(s) : (w \o s)[i] = IF i <= 1 THEN "write" ELSE s[i - 1]
  BY <1>2, <1>4
<1>7. \A i \in DOMAIN s : s[i] # "write"
  BY DEF Has
<1>8. ASSUME NEW i \in 1 .. 1 + Len(s), (w \o s)[i] = "write"
      PROVE  i = 1
  <2> SUFFICES ASSUME i # 1 PROVE FALSE
    OBVIOUS
  <2>1. i - 1 \in 1 .. Len(s) /\ ~ (i <= 1)
    BY <1>3
  <2> QED BY <1>3, <1>6, <1>7, <1>8, <2>1
<1>9. (w \o s)[1] = "write" /\ 1 \in 1 .. 1 + Len(s)
  <2>1. PICK n \in Nat : n = Len(s)
    BY <1>3
  <2>2. 1 \in 1 .. 1 + n /\ 1 <= 1
    OBVIOUS
  <2>3. 1 \in 1 .. 1 + Len(s)
    BY <2>1, <2>2
  <2> QED BY <1>6, <2>2, <2>3
<1> HIDE DEF r
<1>10. r.handlers = w \o s
  BY <1>1, <1>2
<1>11. OneWriter(r)
  BY <1>5, <1>8, <1>10 DEF OneWriter
<1>12. Has(r, "write")
  BY <1>5, <1>9, <1>10 DEF Has
<1> QED BY <1>11, <1>12 DEF r

\* It is unregistered.
LEMMA WriterUnregistered ==
  ASSUME NEW k, DOMAIN k = Fields, k.handlers \in Seq(Names), OneWriter(k)
  PROVE  ~ Has(Unregister(k, "write"), "write") /\ OneWriter(Unregister(k, "write"))
<1> DEFINE r == Unregister(k, "write")
<1>1. r.handlers = IF Has(k, "write") THEN RemoveFirst(k.handlers, "write") ELSE k.handlers
  BY UnregisterKeeps
<1>2. \A i \in DOMAIN RemoveFirst(k.handlers, "write") : RemoveFirst(k.handlers, "write")[i] # "write"
  BY NoneLeft DEF OneWriter
<1> HIDE DEF r
<1>3. \A i \in DOMAIN r.handlers : r.handlers[i] # "write"
  BY <1>1, <1>2 DEF Has
<1> QED BY <1>3 DEF Has, OneWriter, r

\* ssl_handshake: nothing has been written before it ends.
LEMMA HandshakeOutput ==
  ASSUME NEW k, NEW over, Alive(k), Output(k), k.state = "SSL_HANDSHAKING"
  PROVE  \A r \in Handshake(k, over) : Output(r)
<1> DEFINE q == [k EXCEPT !.state = "CONNECTED"]
           u == Unregister(q, "write")
           v == Register(k, "write")
<1>0. DOMAIN k = Fields /\ k.handlers \in Seq(Names)
  BY DEF Alive, ConnOK
<1>1. /\ DataOK(k) /\ WriterOK(k) /\ OneWriter(k) /\ ~ k.held /\ Bal(k) = 0
      /\ k.out.readable_bytes = 0 /\ k.is_writing = FALSE
  BY DEF Output, WriterOK, Open, Young
<1>2. /\ DOMAIN q = Fields /\ q.handlers = k.handlers /\ q.out = k.out /\ q.sock = k.sock
      /\ q.written = k.written /\ q.is_writing = FALSE /\ q.state = "CONNECTED"
  BY <1>0, <1>1 DEF Fields
<1> HIDE DEF q
<1>3. Output(u)
  <2>1. /\ u.out = k.out /\ u.sock = k.sock /\ u.written = k.written
        /\ u.is_writing = FALSE /\ u.state = "CONNECTED"
    BY <1>2, UnregisterKeeps
  <2>2. OneWriter(q)
    BY <1>1, <1>2 DEF OneWriter
  <2>3. ~ Has(u, "write") /\ OneWriter(u)
    BY <1>0, <1>2, <2>2, WriterUnregistered
  <2> HIDE DEF u
  <2>4. DataOK(u)
    BY <1>1, <2>1, SameData
  <2>5. u.state \notin Young
    BY <2>1 DEF Young
  <2>6. ~ (u.out.readable_bytes > 0)
    BY <1>1, <2>1
  <2> QED BY <2>1, <2>3, <2>4, <2>5, <2>6 DEF Output, WriterOK
<1>4. ASSUME ~ Has(k, "write")
      PROVE  Output(v)
  <2>1. /\ v.out = k.out /\ v.sock = k.sock /\ v.written = k.written
        /\ v.is_writing = k.is_writing /\ v.state = "SSL_HANDSHAKING" /\ v.held = k.held
    BY <1>0, RegisterKeeps
  <2>2. OneWriter(v)
    BY <1>0, <1>4, WriterRegistered
  <2>3. Bal(v) = Bal(k)
    BY RegisterStep DEF Step, Names
  <2> HIDE DEF v
  <2>4. DataOK(v)
    BY <1>1, <2>1, SameData
  <2>5. v.state \notin Sending
    BY <2>1 DEF Sending
  <2> QED BY <1>1, <2>1, <2>2, <2>3, <2>4, <2>5 DEF Output, WriterOK
<1>5. Output(ConnClose(k))
  BY CloseOutput
<1>6. \A r \in Handshake(k, over) : r = ConnClose(k) \/ r = u \/ r = k \/ (r = v /\ ~ Has(k, "write"))
  BY DEF Handshake, q
<1> QED BY <1>3, <1>4, <1>5, <1>6

\* Bytes are put behind those in the buffer.
LEMMA BufferedOutput ==
  ASSUME NEW k, DOMAIN k = Fields, k.handlers \in Seq(Names), k.state \in Sending,
         BufferOK(k.out), k.sock \in Bytes, k.written \in Nat, NEW x \in Bytes,
         k.sock \o (Contents(k.out) \o x) = Numbered(k.written), WriterOK(k)
  PROVE  Output(Buffered(k, x)) /\ Buffered(k, x).state = k.state
<1>1. CASE x = <<>>
  <2>1. Buffered(k, x) = k
    BY <1>1 DEF Buffered
  <2>2. Contents(k.out) \in Seq(Nat)
    BY AllType DEF BufferOK, Contents, All, Bytes
  <2>3. Contents(k.out) \o <<>> = Contents(k.out)
    BY <2>2, ConcatEmptySeq
  <2>4. DataOK(k)
    BY <1>1, <2>3 DEF DataOK
  <2> QED BY <2>1, <2>4 DEF Output
<1>2. CASE x # <<>>
  <2> DEFINE out == BufferAppend(k.out, x)
             b == [k EXCEPT !.out = out, !.is_writing = TRUE]
             v == Register(b, "write")
  <2>1. BufferOK(out) /\ Contents(out) = Contents(k.out) \o x
    BY AppendOK
  <2> HIDE DEF out
  <2>2. out.readable_bytes > 0
    <3>1. Contents(k.out) \in Bytes
      BY AllType DEF BufferOK, Contents, All
    <3>2. Len(Contents(out)) = Len(Contents(k.out)) + Len(x) /\ Len(Contents(k.out)) \in Nat
      BY <2>1, <3>1, ConcatFacts
    <3>3. Len(x) \in Nat \ {0}
      BY <1>2, EmptySeq DEF Bytes
    <3>4. out.readable_bytes = Len(Contents(out))
      BY <2>1 DEF BufferOK
    <3> QED BY <3>2, <3>3, <3>4
  <2>3. /\ DOMAIN b = Fields /\ b.handlers = k.handlers /\ b.out = out /\ b.sock = k.sock
        /\ b.written = k.written /\ b.is_writing = TRUE /\ b.state = k.state
    BY DEF Fields
  <2>4. Buffered(k, x) = IF k.is_writing THEN b ELSE v
    BY <1>2 DEF Buffered, out
  <2> HIDE DEF b
  <2>5. DataOK(b)
    BY <2>1, <2>3 DEF DataOK
  <2>6. k.state \in Open /\ k.state \notin Young
    BY DEF Sending, Open, Young
  <2>7. OneWriter(k) /\ (k.is_writing <=> Has(k, "write"))
    BY <2>6 DEF WriterOK
  <2>8. CASE k.is_writing
    <3>1. OneWriter(b) /\ Has(b, "write")
      BY <2>3, <2>7, <2>8 DEF OneWriter, Has
    <3>2. WriterOK(b)
      BY <2>2, <2>3, <2>6, <3>1 DEF WriterOK
    <3> QED BY <2>3, <2>4, <2>5, <2>8, <3>2 DEF Output
  <2>9. CASE ~ k.is_writing
    <3>1. ~ Has(b, "write")
      BY <2>3, <2>7, <2>9 DEF Has
    <3>2. OneWriter(v) /\ Has(v, "write")
      BY <2>3, <3>1, WriterRegistered
    <3>3. /\ v.out = out /\ v.sock = b.sock /\ v.written = b.written /\ v.is_writing = TRUE
          /\ v.state = k.state
      BY <2>3, RegisterKeeps
    <3> HIDE DEF v
    <3>4. WriterOK(v)
      BY <2>2, <2>6, <3>2, <3>3 DEF WriterOK
    <3>5. DataOK(v)
      BY <2>3, <2>5, <3>3, SameData
    <3> QED BY <2>4, <2>9, <3>3, <3>4, <3>5 DEF Output
  <2> QED BY <2>8, <2>9
<1> QED BY <1>1, <1>2

\* Numbers that go on where others end.
LEMMA NumbersGoOn ==
  ASSUME NEW a \in Nat, NEW n \in Nat
  PROVE  LET x == [i \in 1 .. n |-> a + i] IN
         x \in Bytes /\ Len(x) = n /\ Numbered(a) \in Bytes /\ Numbered(a) \o x = Numbered(a + n)
<1> DEFINE x == [i \in 1 .. n |-> a + i]
<1>1. ASSUME NEW f, NEW m \in Nat, f \in [1 .. m -> Nat]
      PROVE  f \in Bytes /\ Len(f) = m
  <2>1. f \in Seq(Nat)
    BY <1>1, SeqDef
  <2>2. DOMAIN f = 1 .. m
    BY <1>1
  <2>3. 1 .. Len(f) = 1 .. m /\ Len(f) \in Nat
    BY <2>1, <2>2, LenProperties
  <2>4. Len(f) = m
    BY <2>3
  <2> QED BY <2>1, <2>4 DEF Bytes
<1>2. x \in [1 .. n -> Nat]
  OBVIOUS
<1>3. Numbered(a) \in [1 .. a -> Nat] /\ \A i \in 1 .. a : Numbered(a)[i] = i
  BY DEF Numbered
<1>4. Numbered(a + n) \in [1 .. a + n -> Nat] /\ \A i \in 1 .. a + n : Numbered(a + n)[i] = i
  BY DEF Numbered
<1>5. \A i \in 1 .. n : x[i] = a + i
  OBVIOUS
<1> HIDE DEF x
<1>6. x \in Bytes /\ Len(x) = n
  BY <1>1, <1>2
<1>7. Numbered(a) \in Bytes /\ Len(Numbered(a)) = a
  BY <1>1, <1>3
<1>8. Numbered(a + n) \in Bytes /\ Len(Numbered(a + n)) = a + n
  <2>1. a + n \in Nat
    OBVIOUS
  <2> QED BY <1>1, <1>4, <2>1
<1>9. /\ Numbered(a) \o x \in Bytes /\ Len(Numbered(a) \o x) = a + n
      /\ \A i \in 1 .. a + n : (Numbered(a) \o x)[i] = IF i <= a THEN Numbered(a)[i] ELSE x[i - a]
  <2>1. PICK s \in Bytes : s = Numbered(a) /\ Len(s) = a
    BY <1>7
  <2>2. /\ s \o x \in Bytes /\ Len(s \o x) = Len(s) + Len(x)
        /\ \A i \in 1 .. Len(s) + Len(x) : (s \o x)[i] = IF i <= Len(s) THEN s[i] ELSE x[i - Len(s)]
    BY <1>6, ConcatFacts
  <2> QED BY <1>6, <2>1, <2>2, Zenon
<1>10. ASSUME NEW i \in 1 .. a + n
       PROVE  (Numbered(a) \o x)[i] = Numbered(a + n)[i]
  <2>1. CASE i <= a
    <3>1. i \in 1 .. a
      BY <2>1
    <3> QED BY <1>3, <1>4, <1>9, <2>1, <3>1
  <2>2. CASE ~ (i <= a)
    <3>1. i - a \in 1 .. n /\ a + (i - a) = i
      BY <2>2
    <3> QED BY <1>4, <1>5, <1>9, <2>2, <3>1
  <2> QED BY <2>1, <2>2
<1>11. Numbered(a) \o x = Numbered(a + n)
  BY <1>8, <1>9, <1>10, SameBytes
<1> QED BY <1>6, <1>7, <1>11 DEF x

\* tmq_tcp_conn_write: what the kernel takes and what is buffered follow the bytes before.
LEMMA WriteOutput ==
  ASSUME NEW k, NEW n \in Nat, NEW reset, Alive(k), Output(k), k.state \notin Young
  PROVE  \A r \in ConnWrite(k, n, reset) : Output(r) /\ r.state \notin Young
<1> DEFINE bytes == [i \in 1 .. n |-> k.written + i]
           all == [k EXCEPT !.written = @ + n]
           put(w) == [all EXCEPT !.sock = @ \o SubSeq(bytes, 1, w)]
           C == Contents(k.out)
<1>0. /\ DOMAIN k = Fields /\ k.handlers \in Seq(Names) /\ k.state \in States
      /\ k.state \notin {"NONE", "FREED"}
  BY DEF Alive, ConnOK
<1>1. /\ BufferOK(k.out) /\ k.sock \in Bytes /\ k.written \in Nat /\ WriterOK(k)
      /\ k.sock \o C = Numbered(k.written)
  BY DEF Output, DataOK
<1>2. C \in Bytes /\ k.out.readable_bytes = Len(C)
  BY <1>1, AllType DEF BufferOK, Contents, All
<1>3. /\ bytes \in Bytes /\ Len(bytes) = n
      /\ Numbered(k.written) \o bytes = Numbered(k.written + n)
  BY <1>1, NumbersGoOn
<1> HIDE DEF bytes, C
<1>4. /\ DOMAIN all = Fields /\ all.handlers = k.handlers /\ all.state = k.state
      /\ all.out = k.out /\ all.sock = k.sock /\ all.written = k.written + n
      /\ all.is_writing = k.is_writing /\ all.held = k.held
  BY <1>0 DEF Fields
<1>5. k.state # "DISCONNECTED" => k.state \in Sending
  BY <1>0 DEF States, Open, Young, Sending
<1>6. k.written + n \in Nat
  BY <1>1
<1> HIDE DEF all
<1>7. ASSUME k.state # "DISCONNECTED", NEW q, DOMAIN q = Fields, q.handlers = k.handlers,
             q.state = k.state, q.out = k.out, q.is_writing = k.is_writing
      PROVE  WriterOK(q)
  <2>1. q.state \in Sending /\ q.state \notin Young /\ q.state \in Open
    BY <1>5, <1>7 DEF Sending, Open
  <2>2. /\ k.is_writing \in BOOLEAN /\ OneWriter(k)
        /\ (k.out.readable_bytes > 0 <=> k.is_writing) /\ (k.is_writing <=> Has(k, "write"))
    <3>1. k.state \in Sending /\ k.state \in Open
      BY <1>7, <2>1
    <3>2. k.is_writing \in BOOLEAN /\ OneWriter(k)
      BY <1>1, <3>1 DEF WriterOK
    <3>3. (k.out.readable_bytes > 0 <=> k.is_writing) /\ (k.is_writing <=> Has(k, "write"))
      BY <1>1, <3>1 DEF WriterOK
    <3> QED BY <3>2, <3>3
  <2>3. OneWriter(q) /\ (Has(q, "write") <=> Has(k, "write"))
    BY <1>7, <2>2 DEF OneWriter, Has
  <2> QED BY <1>7, <2>1, <2>2, <2>3 DEF WriterOK
<1>8. CASE k.state = "DISCONNECTED"
  <2>1. ConnWrite(k, n, reset) = {k}
    BY <1>8, Zenon DEF ConnWrite
  <2> QED BY <2>1
<1>9. CASE k.state # "DISCONNECTED" /\ TryNow(k)
  <2>1. C = <<>>
    <3>1. ~ (k.out.readable_bytes > 0)
      BY <1>1, <1>5, <1>9 DEF WriterOK, TryNow
    <3>2. Len(C) \in Nat
      BY <1>2, LenProperties DEF Bytes
    <3>3. Len(C) = 0
      BY <1>2, <3>1, <3>2
    <3> QED BY <1>2, <3>3, EmptySeq DEF Bytes
  <2>2. k.sock = Numbered(k.written)
    <3>1. k.sock \o <<>> = k.sock
      BY <1>1, ConcatEmptySeq DEF Bytes
    <3> QED BY <1>1, <2>1, <3>1
  <2>3. ASSUME NEW w \in 0 .. n
        PROVE  LET r == Buffered(put(w), SubSeq(bytes, w + 1, n))
               IN Output(r) /\ r.state \notin Young
    <3> DEFINE y == SubSeq(bytes, 1, w)
               x == SubSeq(bytes, w + 1, n)
    <3>1. /\ DOMAIN put(w) = Fields /\ put(w).handlers = k.handlers /\ put(w).state = k.state
          /\ put(w).out = k.out /\ put(w).sock = k.sock \o y /\ put(w).written = k.written + n
          /\ put(w).is_writing = k.is_writing
      BY <1>4 DEF Fields
    <3>2. x \in Bytes /\ y \in Bytes /\ y \o x = bytes
      <4>1. w \in Nat /\ w <= Len(bytes)
        BY <1>3
      <4>2. x = Drop(bytes, w)
        BY <1>3 DEF Drop
      <4> HIDE DEF x
      <4> QED BY <1>3, <4>1, <4>2, DropFacts
    <3>3. PICK q : q = put(w)
      OBVIOUS
    <3> HIDE DEF x, y, put
    <3>4. q.sock \in Bytes
      <4>1. k.sock \in Bytes
        BY <1>1
      <4>2. k.sock \o y \in Bytes
        BY <3>2, <4>1, ConcatFacts
      <4> QED BY <3>1, <3>3, <4>2, Zenon
    <3>5. q.sock \o (Contents(q.out) \o x) = Numbered(q.written)
      <4>1. Contents(q.out) = <<>>
        BY <2>1, <3>1, <3>3 DEF C
      <4>2. <<>> \o x = x
        BY <3>2, ConcatEmptySeq DEF Bytes
      <4>3. (k.sock \o y) \o x = k.sock \o (y \o x)
        BY <1>1, <3>2, Assoc, Zenon
      <4>4. k.sock \o bytes = Numbered(k.written + n)
        BY <1>3, <2>2
      <4>5. q.sock = k.sock \o y /\ q.written = k.written + n
        BY <3>1, <3>3
      <4> QED BY <3>2, <4>1, <4>2, <4>3, <4>4, <4>5
    <3>6. WriterOK(q)
      BY <1>7, <1>9, <3>1, <3>3
    <3>7. /\ DOMAIN q = Fields /\ q.handlers \in Seq(Names) /\ q.state \in Sending
          /\ BufferOK(q.out) /\ q.written \in Nat
      BY <1>0, <1>1, <1>5, <1>6, <1>9, <3>1, <3>3
    <3>8. Output(Buffered(q, x)) /\ Buffered(q, x).state = q.state
      BY <3>2, <3>4, <3>5, <3>6, <3>7, BufferedOutput
    <3> QED BY <3>1, <3>3, <3>8 DEF x
  <2>4. ConnWrite(k, n, reset) \subseteq
          {Buffered(put(w), SubSeq(bytes, w + 1, n)) : w \in 0 .. n} \cup {ConnClose(k)}
    BY <1>9 DEF ConnWrite, all, bytes
  <2>5. Output(ConnClose(k)) /\ ConnClose(k).state \notin Young
    BY CloseOutput
  <2> HIDE DEF put
  <2> QED BY <2>3, <2>4, <2>5
<1>10. CASE k.state # "DISCONNECTED" /\ ~ TryNow(k)
  <2>1. ConnWrite(k, n, reset) = {Buffered(all, bytes)}
    BY <1>10 DEF ConnWrite, all, bytes
  <2>2. all.sock \o (Contents(all.out) \o bytes) = Numbered(all.written)
    <3>1. (k.sock \o C) \o bytes = k.sock \o (C \o bytes)
      BY <1>1, <1>2, <1>3, Assoc, Zenon
    <3>2. Contents(all.out) = C
      BY <1>4 DEF C
    <3> QED BY <1>1, <1>3, <1>4, <3>1, <3>2
  <2>3. WriterOK(all)
    BY <1>4, <1>7, <1>10
  <2>4. /\ DOMAIN all = Fields /\ all.handlers \in Seq(Names) /\ all.state \in Sending
        /\ BufferOK(all.out) /\ all.written \in Nat /\ all.sock \in Bytes
    BY <1>0, <1>1, <1>4, <1>5, <1>6, <1>10
  <2>5. Output(Buffered(all, bytes)) /\ Buffered(all, bytes).state = all.state
    BY <1>3, <2>2, <2>3, <2>4, BufferedOutput
  <2> QED BY <1>4, <2>1, <2>5
<1> QED BY <1>8, <1>9, <1>10

\* tmq_tcp_conn_shutdown.
LEMMA ShutdownOutput ==
  ASSUME NEW k, DOMAIN k = Fields, Output(k), k.state \in Sending
  PROVE  Output(Shutdown(k))
<1> DEFINE r == Shutdown(k)
<1>1. /\ r.handlers = k.handlers /\ r.out = k.out /\ r.sock = k.sock /\ r.written = k.written
      /\ r.is_writing = k.is_writing /\ r.state \in Sending
  <2>1. CASE k.is_writing
    <3>1. r = [k EXCEPT !.state = "DISCONNECTING"]
      BY <2>1 DEF Shutdown, Sending
    <3> HIDE DEF r
    <3> QED BY <3>1 DEF Fields, Sending
  <2>2. CASE ~ k.is_writing
    <3>1. r = [k EXCEPT !.shut = TRUE]
      BY <2>2 DEF Shutdown, Sending
    <3> HIDE DEF r
    <3> QED BY <3>1 DEF Fields, Sending
  <2> QED BY <2>1, <2>2
<1> HIDE DEF r
<1>2. DataOK(r)
  BY <1>1, SameData DEF Output
<1>3. k.state \in Open /\ r.state \in Open /\ r.state \notin Young
  BY <1>1 DEF Sending, Open, Young
<1>4. k.is_writing \in BOOLEAN /\ OneWriter(k)
  BY <1>3 DEF Output, WriterOK
<1>5. (k.out.readable_bytes > 0 <=> k.is_writing) /\ (k.is_writing <=> Has(k, "write"))
  BY DEF Output, WriterOK
<1>6. OneWriter(r) /\ (Has(r, "write") <=> Has(k, "write"))
  BY <1>1, <1>4 DEF OneWriter, Has
<1>7. WriterOK(r)
  BY <1>1, <1>3, <1>4, <1>5, <1>6 DEF WriterOK
<1> QED BY <1>2, <1>7 DEF Output, r

\* write_cb_ moves the first bytes of the buffer to the kernel, and unregisters its handler
\* with the last.
LEMMA FlushOutput ==
  ASSUME NEW k, Alive(k), Output(k), k.state \in Sending, NEW w \in 1 .. k.out.readable_bytes
  PROVE  Output(Flush(k, w))
<1> DEFINE out == BufferRemove(k.out, w)
           u == Unregister(k, "write")
           done == [u EXCEPT !.is_writing = FALSE, !.out = out]
           part == [k EXCEPT !.out = out]
           sent == BufferPeek(k.out, w)
           next == IF out.readable_bytes > 0 THEN part
                   ELSE IF k.state = "DISCONNECTING" THEN Shutdown(done) ELSE done
           r == [next EXCEPT !.sock = @ \o sent]
<1>0. DOMAIN k = Fields /\ k.handlers \in Seq(Names)
  BY DEF Alive, ConnOK
<1>1. /\ BufferOK(k.out) /\ k.sock \in Bytes /\ k.written \in Nat
      /\ k.sock \o Contents(k.out) = Numbered(k.written)
  BY DEF Output, DataOK
<1>2. k.state \in Open /\ k.state \notin Young /\ k.state # "DISCONNECTED"
  BY DEF Sending, Open, Young
<1>3. k.is_writing \in BOOLEAN /\ OneWriter(k)
  BY <1>2 DEF Output, WriterOK
<1>4. (k.out.readable_bytes > 0 <=> k.is_writing) /\ (k.is_writing <=> Has(k, "write"))
  BY DEF Output, WriterOK
<1>5. k.out.readable_bytes \in Nat
  BY <1>1, AllType DEF BufferOK, Contents, All
<1>6. w \in Nat /\ w <= k.out.readable_bytes /\ k.out.readable_bytes > 0
  BY <1>5
<1>7. k.is_writing = TRUE /\ Has(k, "write")
  BY <1>3, <1>4, <1>6
<1>8. /\ BufferOK(out) /\ sent \in Bytes /\ Contents(out) \in Bytes
      /\ sent \o Contents(out) = Contents(k.out)
  BY <1>1, <1>6, RemoveOK
<1>9. Flush(k, w) = r
  BY DEF Flush
<1> HIDE DEF out, sent
<1>10. /\ DOMAIN part = Fields /\ part.handlers = k.handlers /\ part.state = k.state
       /\ part.out = out /\ part.sock = k.sock /\ part.written = k.written
       /\ part.is_writing = TRUE
  BY <1>0, <1>7 DEF Fields
<1>11. ~ Has(u, "write") /\ OneWriter(u)
  BY <1>0, <1>3, WriterUnregistered
<1>12. /\ DOMAIN u = Fields /\ u.sock = k.sock /\ u.written = k.written /\ u.state = k.state
  BY <1>0, UnregisterKeeps
<1> HIDE DEF u, part
<1>13. /\ DOMAIN done = Fields /\ done.handlers = u.handlers /\ done.state = k.state
       /\ done.out = out /\ done.sock = k.sock /\ done.written = k.written
       /\ done.is_writing = FALSE
  BY <1>12 DEF Fields
<1> HIDE DEF done
<1>14. /\ DOMAIN Shutdown(done) = Fields /\ Shutdown(done).handlers = u.handlers
       /\ Shutdown(done).state = k.state /\ Shutdown(done).out = out
       /\ Shutdown(done).sock = k.sock /\ Shutdown(done).written = k.written
       /\ Shutdown(done).is_writing = FALSE
  <2>1. Shutdown(done) = [done EXCEPT !.shut = TRUE]
    BY <1>2, <1>13 DEF Shutdown
  <2> QED BY <1>13, <2>1 DEF Fields
<1>15. /\ DOMAIN next = Fields /\ next.state = k.state /\ next.out = out
       /\ next.sock = k.sock /\ next.written = k.written
       /\ out.readable_bytes > 0 => next.handlers = k.handlers /\ next.is_writing = TRUE
       /\ ~ (out.readable_bytes > 0) => next.handlers = u.handlers /\ next.is_writing = FALSE
  <2>1. CASE out.readable_bytes > 0
    BY <1>10, <2>1
  <2>2. CASE ~ (out.readable_bytes > 0)
    BY <1>13, <1>14, <2>2
  <2> QED BY <2>1, <2>2
<1> HIDE DEF next
<1>16. /\ r.state = k.state /\ r.out = out /\ r.sock = k.sock \o sent
       /\ r.written = k.written /\ r.handlers = next.handlers /\ r.is_writing = next.is_writing
  BY <1>15 DEF Fields
<1> HIDE DEF r
<1>17. DataOK(r)
  <2>1. (k.sock \o sent) \o Contents(out) = k.sock \o (sent \o Contents(out))
    BY <1>1, <1>8, Assoc, Zenon
  <2>2. k.sock \o sent \in Bytes
    BY <1>1, <1>8, Assoc
  <2> QED BY <1>1, <1>8, <1>16, <2>1, <2>2 DEF DataOK
<1>18. WriterOK(r)
  <2>1. CASE out.readable_bytes > 0
    <3>1. OneWriter(r) /\ Has(r, "write") /\ r.is_writing = TRUE
      BY <1>3, <1>7, <1>15, <1>16, <2>1 DEF OneWriter, Has
    <3> QED BY <1>2, <1>16, <2>1, <3>1 DEF WriterOK
  <2>2. CASE ~ (out.readable_bytes > 0)
    <3>1. OneWriter(r) /\ ~ Has(r, "write") /\ r.is_writing = FALSE
      BY <1>11, <1>15, <1>16, <2>2 DEF OneWriter, Has
    <3> QED BY <1>2, <1>16, <2>2, <3>1 DEF WriterOK
  <2> QED BY <2>1, <2>2
<1> QED BY <1>9, <1>17, <1>18 DEF Output

LEMMA WriteCbOutput ==
  ASSUME NEW k, NEW c, Alive(k), Output(k)
  PROVE  \A r \in WriteCb(k, c) : Output(r)
<1>1. CASE k.state = "SSL_HANDSHAKING"
  <2>1. WriteCb(k, c) = Handshake(k, Over(c))
    BY <1>1, Zenon DEF WriteCb
  <2> QED BY <1>1, <2>1, HandshakeOutput
<1>2. CASE k.state # "SSL_HANDSHAKING" /\ (~ k.is_writing \/ k.state = "DISCONNECTED")
  <2>1. WriteCb(k, c) = {k}
    BY <1>2, Zenon DEF WriteCb
  <2> QED BY <2>1
<1>3. ASSUME k.state # "SSL_HANDSHAKING", ~ (~ k.is_writing \/ k.state = "DISCONNECTED")
      PROVE  k.state \in Sending
  BY <1>3 DEF Alive, ConnOK, States, Open, Sending
<1>4. CASE /\ k.state # "SSL_HANDSHAKING" /\ ~ (~ k.is_writing \/ k.state = "DISCONNECTED")
           /\ peer[c] = "reset"
  <2> DEFINE q == [k EXCEPT !.is_writing = FALSE]
  <2>1. WriteCb(k, c) = {ConnClose(q)}
    BY <1>4 DEF WriteCb
  <2>2. /\ DOMAIN q = Fields /\ q.out = k.out /\ q.sock = k.sock /\ q.written = k.written
        /\ q.is_writing = FALSE /\ q.state = k.state
    BY DEF Alive, ConnOK, Fields
  <2>3. DataOK(q)
    BY <2>2, SameData DEF Output
  <2> HIDE DEF q
  <2>4. Output(ConnClose(q))
    BY <1>4, <2>2, <2>3, CloseData
  <2> QED BY <2>1, <2>4
<1>5. CASE /\ k.state # "SSL_HANDSHAKING" /\ ~ (~ k.is_writing \/ k.state = "DISCONNECTED")
           /\ peer[c] # "reset"
  <2>1. WriteCb(k, c) = {Flush(k, w) : w \in 1 .. k.out.readable_bytes}
    BY <1>5 DEF WriteCb
  <2> QED BY <1>3, <1>5, <2>1, FlushOutput
<1> QED BY <1>1, <1>2, <1>4, <1>5

LEMMA ReadCbOutput ==
  ASSUME NEW k, NEW c, Alive(k), Output(k)
  PROVE  \A r \in ReadCb(k, c) : Output(r)
<1> DEFINE q == [k EXCEPT !.held = TRUE, !.ref_cnt = @ + 1]
<1>1. Output(ConnClose(k))
  BY CloseOutput
<1>2. CASE k.state = "SSL_HANDSHAKING"
  BY <1>2, HandshakeOutput DEF ReadCb
<1>3. CASE k.state = "CONNECTED" /\ Over(c)
  <2>1. ReadCb(k, c) = {ConnClose(k)}
    BY <1>3 DEF ReadCb
  <2> QED BY <1>1, <2>1
<1>4. CASE k.state = "CONNECTED" /\ ~ Over(c)
  <2>1. \A r \in ReadCb(k, c) : \/ r = k \/ r = ConnClose(k) \/ r \in ConnWrite(k, 1, FALSE)
                                \/ ~ k.held /\ r = q
    BY <1>4, Decoded DEF ReadCb
  <2>2. /\ q.handlers = k.handlers /\ q.out = k.out /\ q.sock = k.sock /\ q.written = k.written
        /\ q.is_writing = k.is_writing /\ q.state = k.state
    BY DEF Alive, ConnOK, Fields
  <2> HIDE DEF q
  <2>3. DataOK(q)
    BY <2>2, SameData DEF Output
  <2>4. k.state \notin Young /\ k.state \in Open
    BY <1>4 DEF Young, Open
  <2>5. WriterOK(q)
    BY <2>2, <2>4 DEF Output, WriterOK, OneWriter, Has
  <2>6. \A r \in ConnWrite(k, 1, FALSE) : Output(r)
    BY <2>4, WriteOutput
  <2> QED BY <1>1, <2>1, <2>3, <2>5, <2>6 DEF Output
<1>5. CASE k.state \notin {"SSL_HANDSHAKING", "CONNECTED"}
  <2>1. ReadCb(k, c) = {k}
    BY <1>5 DEF ReadCb
  <2> QED BY <2>1
<1> QED BY <1>2, <1>3, <1>4, <1>5

LEMMA CloseCbOutput ==
  ASSUME NEW k, NEW events, Alive(k), Output(k)
  PROVE  \A r \in CloseCb(k, events) : Output(r)
BY CloseOutput DEF CloseCb

-----------------------------------------------------------------------------
(* The output of every connection.                                         *)

OutputInv == \A c \in Conns : Output(conn[c])

\* Nothing is written yet.
LEMMA FreshData ==
  ASSUME NEW k, k.out = EmptyBuffer, k.sock = <<>>, k.written = 0
  PROVE  DataOK(k) /\ k.out.readable_bytes = 0
<1>1. k.out.chunks = <<>> /\ k.out.readable_bytes = 0
  BY DEF EmptyBuffer
<1>2. Contents(k.out) = <<>>
  <2>1. DataUpTo(k.out.chunks, 0) = <<>>
    BY UpTo
  <2>2. Len(k.out.chunks) = 0
    BY <1>1
  <2> QED BY <2>1, <2>2 DEF Contents
<1>3. BufferOK(k.out)
  BY <1>1, <1>2, EmptySeq DEF BufferOK
<1>4. <<>> \in Bytes /\ <<>> \o <<>> = <<>>
  BY EmptySeq DEF Bytes
<1>5. Numbered(0) = <<>>
  <2>1. Numbered(0) \in Seq(Nat)
    BY NumbersGoOn DEF Bytes
  <2>2. DOMAIN Numbered(0) = 1 .. 0
    BY DEF Numbered
  <2>3. Len(Numbered(0)) \in Nat /\ 1 .. Len(Numbered(0)) = 1 .. 0
    BY <2>1, <2>2, LenProperties
  <2>4. Len(Numbered(0)) = 0
    <3>1. PICK n \in Nat : n = Len(Numbered(0)) /\ 1 .. n = 1 .. 0
      BY <2>3
    <3>2. SUFFICES ASSUME n # 0 PROVE FALSE
      BY <3>1
    <3>3. 1 \in 1 .. n
      BY <3>2
    <3>4. 1 \notin 1 .. 0
      OBVIOUS
    <3> QED BY <3>1, <3>3, <3>4
  <2> QED BY <2>1, <2>4, EmptySeq
<1> QED BY <1>1, <1>2, <1>3, <1>4, <1>5 DEF DataOK

\* A connection before and as it is created.
LEMMA NoConnOutput == Output(NoConn)
<1>1. /\ NoConn.out = EmptyBuffer /\ NoConn.sock = <<>> /\ NoConn.written = 0
      /\ NoConn.is_writing = FALSE /\ NoConn.state = "NONE" /\ NoConn.held = FALSE
      /\ NoConn.ref_cnt = 0 /\ NoConn.handlers = <<>> /\ NoConn.removing = 0
      /\ NoConn.in_map = FALSE
  BY DEF NoConn
<1>2. DataOK(NoConn) /\ NoConn.out.readable_bytes = 0
  BY <1>1, FreshData
<1>3. Bal(NoConn) = 0
  <2>1. Len(NoConn.handlers) = 0 /\ One(NoConn.in_map) = 0 /\ One(NoConn.held) = 0
    BY <1>1, Ones
  <2>2. Bal(NoConn) = 0 - (0 + 0 + 0 + 0)
    BY <1>1, <2>1, Zenon DEF Bal, Holders
  <2> QED BY <2>2
<1>4. NoConn.state \notin Open /\ NoConn.state \notin Sending
  BY <1>1 DEF Open, Sending
<1>5. WriterOK(NoConn)
  BY <1>1, <1>2, <1>3, <1>4 DEF WriterOK
<1> QED BY <1>2, <1>5 DEF Output

LEMMA NewConnOutput ==
  ASSUME NEW kind \in Kinds
  PROVE  Output(NewConn(kind))
<1> DEFINE new == [NoConn EXCEPT !.state = IF kind = "mqtts" THEN "SSL_HANDSHAKING" ELSE "CONNECTED",
                                 !.kind = kind, !.in_map = TRUE, !.ref_cnt = 1]
           one == Register(new, "read")
           two == Register(one, "error")
<1>1. /\ DOMAIN new = Fields /\ new.handlers = <<>> /\ new.out = EmptyBuffer /\ new.sock = <<>>
      /\ new.written = 0 /\ new.is_writing = FALSE /\ new.held = FALSE
  BY DEF NoConn, Fields
<1>2. NewConn(kind) = two
  BY DEF NewConn
<1> HIDE DEF new
<1>3. /\ DOMAIN one = Fields /\ one.handlers = <<"read">> \o <<>> /\ one.out = EmptyBuffer
      /\ one.sock = <<>> /\ one.written = 0 /\ one.is_writing = FALSE /\ one.held = FALSE
  BY <1>1, RegisterKeeps
<1> HIDE DEF one
<1>4. /\ two.handlers = <<"error">> \o (<<"read">> \o <<>>) /\ two.out = EmptyBuffer
      /\ two.sock = <<>> /\ two.written = 0 /\ two.is_writing = FALSE /\ two.held = FALSE
  BY <1>3, RegisterKeeps
<1> HIDE DEF two
<1>5. /\ DOMAIN two.handlers = 1 .. 2 /\ two.handlers[1] = "error" /\ two.handlers[2] = "read"
  <2>1. PICK x \in Seq(Names), y \in Seq(Names), z \in Seq(Names) :
          /\ x = <<"error">> /\ y = <<"read">> /\ z = <<>>
          /\ Len(x) = 1 /\ Len(y) = 1 /\ x[1] = "error" /\ y[1] = "read"
    <3>1. ASSUME NEW h \in Names
          PROVE  <<h>> \in Seq(Names) /\ Len(<<h>>) = 1 /\ <<h>>[1] = h
      OBVIOUS
    <3>2. "error" \in Names /\ "read" \in Names
      BY DEF Names
    <3>3. <<>> \in Seq(Names)
      BY EmptySeq
    <3> QED BY <3>1, <3>2, <3>3, Zenon
  <2>2. two.handlers = x \o (y \o z)
    BY <1>4, <2>1
  <2>3. y \o z = y
    BY <2>1, ConcatEmptySeq
  <2>4. /\ x \o y \in Seq(Names) /\ Len(x \o y) = Len(x) + Len(y)
        /\ \A i \in 1 .. Len(x) + Len(y) : (x \o y)[i] = IF i <= Len(x) THEN x[i] ELSE y[i - Len(x)]
    BY ConcatProperties
  <2>5. DOMAIN (x \o y) = 1 .. Len(x \o y)
    BY <2>4, LenProperties
  <2> QED BY <2>1, <2>2, <2>3, <2>4, <2>5
<1>6. ~ Has(two, "write")
  BY <1>5 DEF Has
<1>7. OneWriter(two)
  BY <1>6 DEF Has, OneWriter
<1>8. DataOK(two) /\ two.out.readable_bytes = 0
  BY <1>4, FreshData
<1>9. Bal(two) = 0
  BY <1>2, NewConnOK
<1>10. WriterOK(two)
  <2>1. two.out.readable_bytes > 0 <=> two.is_writing
    BY <1>4, <1>8
  <2>2. two.is_writing \in BOOLEAN /\ ~ two.is_writing /\ ~ two.held
    BY <1>4
  <2> QED BY <1>6, <1>7, <1>8, <1>9, <2>1, <2>2 DEF WriterOK
<1> QED BY <1>2, <1>8, <1>10 DEF Output

\* Who is held, or has packets on their way, is past the handshake.
LEMMA PastHandshake ==
  ASSUME IoInv, NEW c \in Conns, Output(conn[c]), conn[c].held \/ MailsFor(c) >= 1
  PROVE  conn[c].state \notin Young
<1>1. PICK k : k = conn[c]
  OBVIOUS
<1>2. Bal(k) = MailsFor(c)
  <2>1. ConnOK(k) /\ k.ref_cnt = Holders(k) + MailsFor(c) /\ MailsFor(c) \in Nat
    BY <1>1, HeldIsAlive DEF IoInv, RefInv
  <2>2. Holders(k) \in Nat
    BY <2>1, Numbers
  <2> QED BY <2>1, <2>2 DEF Bal
<1>3. k.state \in Young => ~ k.held /\ Bal(k) = 0
  BY <1>1 DEF Output, WriterOK
<1>4. MailsFor(c) = 0 => ~ (MailsFor(c) >= 1)
  OBVIOUS
<1> QED BY <1>1, <1>2, <1>3, <1>4

\* One connection changes.
LEMMA OneOutput ==
  ASSUME IoInv, OutputInv, NEW c \in Conns, NEW r, conn' = [conn EXCEPT ![c] = r], Output(r)
  PROVE  OutputInv'
<1>1. \A d \in Conns : conn'[d] = IF d = c THEN r ELSE conn[d]
  BY DEF IoInv, ConnInv
<1>2. ASSUME NEW d \in Conns
      PROVE  Output(conn'[d])
  <2>1. CASE d = c
    BY <1>1, <2>1
  <2>2. CASE d # c
    BY <1>1, <2>2 DEF OutputInv
  <2> QED BY <2>1, <2>2
<1> QED BY <1>2 DEF OutputInv

\* Every action.
LEMMA PushPacketOutput ==
  ASSUME IoInv, OutputInv, NEW c \in Conns, PushPacket(c)
  PROVE  OutputInv'
<1>1. PICK k : k = conn[c]
  OBVIOUS
<1> DEFINE r == [k EXCEPT !.ref_cnt = @ + 1]
<1>2. conn' = [conn EXCEPT ![c] = r] /\ k.held
  BY <1>1 DEF PushPacket
<1>3. Output(k) /\ DOMAIN k = Fields /\ k.state \notin Young
  BY <1>1, <1>2, PastHandshake DEF OutputInv, IoInv, ConnInv, ConnOK
<1>4. /\ r.out = k.out /\ r.sock = k.sock /\ r.written = k.written /\ r.state = k.state
      /\ r.is_writing = k.is_writing /\ r.handlers = k.handlers
  BY <1>3 DEF Fields
<1> HIDE DEF r
<1>5. Output(r)
  BY <1>3, <1>4, SameOutput
<1> QED BY <1>2, <1>5, OneOutput

LEMMA SessionReleasesOutput ==
  ASSUME IoInv, OutputInv, NEW c \in Conns, SessionReleases(c)
  PROVE  OutputInv'
<1>1. PICK k : k = conn[c]
  OBVIOUS
<1> DEFINE u == [k EXCEPT !.held = FALSE]
           r == Release(u, 1)
<1>2. conn' = [conn EXCEPT ![c] = r] /\ k.held
  BY <1>1 DEF SessionReleases
<1>3. Output(k) /\ DOMAIN k = Fields /\ k.state \notin Young
  BY <1>1, <1>2, PastHandshake DEF OutputInv, IoInv, ConnInv, ConnOK
<1>4. /\ DOMAIN u = Fields /\ u.out = k.out /\ u.sock = k.sock /\ u.written = k.written
      /\ u.state = k.state /\ u.is_writing = k.is_writing /\ u.handlers = k.handlers
  BY <1>3 DEF Fields
<1> HIDE DEF u
<1>5. /\ r.out = k.out /\ r.sock = k.sock /\ r.written = k.written
      /\ r.is_writing = k.is_writing /\ r.handlers = k.handlers
      /\ r.state = k.state \/ r.state = "FREED"
  BY <1>4, ReleaseKeeps
<1> HIDE DEF r
<1>6. Output(r)
  BY <1>3, <1>5, SameOutput
<1> QED BY <1>2, <1>6, OneOutput

LEMMA CallShutdownOutput ==
  ASSUME IoInv, OutputInv, NEW c \in Conns, CallShutdown(c)
  PROVE  OutputInv'
<1>1. PICK k : k = conn[c]
  OBVIOUS
<1>2. conn' = [conn EXCEPT ![c] = Shutdown(k)] /\ k.state = "CONNECTED"
  BY <1>1 DEF CallShutdown
<1>3. Output(k) /\ DOMAIN k = Fields /\ k.state \in Sending
  BY <1>1, <1>2 DEF OutputInv, IoInv, ConnInv, ConnOK, Sending
<1>4. Output(Shutdown(k))
  BY <1>3, ShutdownOutput
<1> QED BY <1>2, <1>4, OneOutput

LEMMA UserOperationDoneOutput ==
  ASSUME IoInv, OutputInv, NEW c \in Conns, UserOperationDone(c)
  PROVE  OutputInv'
<1>1. PICK k : k = conn[c]
  OBVIOUS
<1> DEFINE u == [k EXCEPT !.held = FALSE]
<1>2. PICK q \in ConnWrite(u, 1, peer[c] = "reset") : conn' = [conn EXCEPT ![c] = Release(q, 1)]
  BY <1>1 DEF UserOperationDone
<1> DEFINE r == Release(q, 1)
<1>3. k.held
  BY <1>1 DEF UserOperationDone
<1>4. Output(k) /\ Alive(k) /\ k.state \notin Young
  BY <1>1, <1>3, HeldIsAlive, PastHandshake DEF OutputInv
<1>5. /\ DOMAIN u = Fields /\ u.out = k.out /\ u.sock = k.sock /\ u.written = k.written
      /\ u.state = k.state /\ u.is_writing = k.is_writing /\ u.handlers = k.handlers
      /\ u.in_map = k.in_map /\ u.removing = k.removing /\ u.ref_cnt = k.ref_cnt
      /\ u.held = FALSE
  BY <1>4 DEF Alive, ConnOK, Fields
<1> HIDE DEF u
<1>6. Alive(u)
  BY <1>4, <1>5 DEF Alive, ConnOK
<1>7. Output(u) /\ u.state \notin Young
  BY <1>4, <1>5, SameOutput
<1>8. Output(q) /\ q.state \notin Young
  BY <1>2, <1>6, <1>7, WriteOutput
<1>9. DOMAIN q = Fields
  <2>1. Step(u, q)
    BY <1>2, <1>6, WriteStep
  <2> QED BY <2>1 DEF Step, ConnOK
<1>10. /\ r.out = q.out /\ r.sock = q.sock /\ r.written = q.written
       /\ r.is_writing = q.is_writing /\ r.handlers = q.handlers
       /\ r.state = q.state \/ r.state = "FREED"
  BY <1>9, ReleaseKeeps
<1>11. conn' = [conn EXCEPT ![c] = r]
  BY <1>2
<1> HIDE DEF r
<1>12. Output(r)
  BY <1>8, <1>10, SameOutput
<1> QED BY <1>11, <1>12, OneOutput

LEMMA CallTimerOutput ==
  ASSUME IoInv, OutputInv, NEW silent \in SUBSET Conns, CallTimer(silent)
  PROVE  OutputInv'
<1>1. /\ conn' = [c \in Conns |-> IF c \in silent THEN ConnClose(conn[c]) ELSE conn[c]]
      /\ \A c \in silent : conn[c].in_map
  BY DEF CallTimer
<1>2. ASSUME NEW c \in Conns
      PROVE  Output(conn'[c])
  <2>1. CASE c \in silent
    <3>1. Alive(conn[c]) /\ Output(conn[c])
      BY <1>1, <2>1, HeldIsAlive DEF OutputInv
    <3>2. Output(ConnClose(conn[c]))
      BY <3>1, CloseOutput
    <3>3. conn'[c] = ConnClose(conn[c])
      BY <1>1, <2>1
    <3> QED BY <3>2, <3>3
  <2>2. CASE c \notin silent
    BY <1>1, <2>2 DEF OutputInv
  <2> QED BY <2>1, <2>2
<1> QED BY <1>2 DEF OutputInv

\* Who has a handler registered is alive.
LEMMA RegisteredIsAlive ==
  ASSUME IoInv, NEW c \in Conns, NEW h, Has(conn[c], h)
  PROVE  Alive(conn[c])
<1>1. ConnOK(conn[c])
  BY HeldIsAlive
<1>2. conn[c].handlers \in Seq(Names) /\ conn[c].removing \in Nat
  BY <1>1 DEF ConnOK
<1>3. Len(conn[c].handlers) \in Nat /\ DOMAIN conn[c].handlers = 1 .. Len(conn[c].handlers)
  BY <1>2, LenProperties
<1>4. Len(conn[c].handlers) >= 1
  BY <1>3 DEF Has
<1>5. Handlers(conn[c]) >= 1
  BY <1>2, <1>3, <1>4 DEF Handlers
<1> QED BY <1>5, HeldIsAlive

LEMMA CallConnHandlerOutput ==
  ASSUME IoInv, OutputInv, CallConnHandler
  PROVE  OutputInv'
<1> DEFINE e == Head(active)
           c == e.of
<1>1. /\ active # <<>> /\ active' = Tail(active) /\ reported' = reported
      /\ c \in Conns /\ Has(conn[c], e.handler)
      /\ \E k \in CASE e.handler = "read"  -> ReadCb(conn[c], c)
                    [] e.handler = "write" -> WriteCb(conn[c], c)
                    [] e.handler = "error" -> CloseCb(conn[c], e.events) :
           conn' = [conn EXCEPT ![c] = k]
  BY DEF CallConnHandler, Called
<1>2. e.handler \in Names
  <2>1. e \in Entries
    BY <1>1, OneCalled
  <2> QED BY <1>1, <2>1, ConnsAssumption DEF Entries
<1>3. PICK k \in CASE e.handler = "read"  -> ReadCb(conn[c], c)
                   [] e.handler = "write" -> WriteCb(conn[c], c)
                   [] e.handler = "error" -> CloseCb(conn[c], e.events) :
        conn' = [conn EXCEPT ![c] = k]
  BY <1>1
<1> HIDE DEF e, c
<1>4. Alive(conn[c]) /\ Output(conn[c])
  BY <1>1, RegisteredIsAlive DEF OutputInv
<1>5. Output(k)
  <2>1. CASE e.handler = "read"
    <3>1. k \in ReadCb(conn[c], c)
      BY <1>3, <2>1
    <3> QED BY <1>4, <3>1, ReadCbOutput
  <2>2. CASE e.handler = "write"
    <3>1. k \in WriteCb(conn[c], c)
      BY <1>3, <2>2
    <3> QED BY <1>4, <3>1, WriteCbOutput
  <2>3. CASE e.handler = "error"
    <3>1. k \in CloseCb(conn[c], e.events)
      BY <1>3, <2>3
    <3> QED BY <1>4, <3>1, CloseCbOutput
  <2> QED BY <1>2, <2>1, <2>2, <2>3 DEF Names
<1> QED BY <1>1, <1>3, <1>5, OneOutput

LEMMA HandleMailOutput ==
  ASSUME IoInv, OutputInv, HandleMail
  PROVE  OutputInv'
<1>1. PICK m, c : m = Head(mails) /\ c = m.conn
  OBVIOUS
<1>2. /\ mails # <<>> /\ mails' = Tail(mails) /\ mailbox' = mailbox
      /\ \/ m.box = Pending /\ conn' = [conn EXCEPT ![c] = NewConn(m.kind)]
         \/ /\ m.box = Packets
            /\ \E q \in SendAnyPacket(conn[c], peer[c] = "reset") :
                 conn' = [conn EXCEPT ![c] = Release(q, 1)]
  BY <1>1 DEF HandleMail, Pending, Packets
<1>3. /\ m = mails[1] /\ 1 \in DOMAIN mails /\ c \in Conns
      /\ m \in PendingMails \/ (m \in PacketMails /\ m = PacketMail(c))
  BY <1>1, <1>2, OneMail
<1>4. CASE m.box = Pending /\ conn' = [conn EXCEPT ![c] = NewConn(m.kind)]
  <2>1. m.kind \in Kinds
    BY <1>3, <1>4 DEF PendingMails, PacketMails, Pending, Packets
  <2>2. Output(NewConn(m.kind))
    BY <2>1, NewConnOutput
  <2> QED BY <1>3, <1>4, <2>2, OneOutput
<1>5. ASSUME m.box = Packets, NEW q \in SendAnyPacket(conn[c], peer[c] = "reset"),
             conn' = [conn EXCEPT ![c] = Release(q, 1)]
      PROVE  OutputInv'
  <2>1. m = PacketMail(c)
    BY <1>3, <1>5 DEF PendingMails, Pending, Packets
  <2>2. MailsFor(c) >= 1
    <3> DEFINE x == PacketMail(c)
    <3>1. mails \in Seq(PendingMails \cup PacketMails) /\ mailbox[Packets] \in Seq(PacketMails)
      BY DEF IoInv, BoxInv
    <3>2. \E i \in DOMAIN mails : mails[i] = x
      BY <1>3, <2>1
    <3>3. MailsFor(c) = Count(mails, x) + Count(mailbox[Packets], x)
      BY DEF MailsFor, Packets
    <3> HIDE DEF x
    <3>4. Count(mails, x) \in Nat /\ Count(mails, x) >= 1
      BY <3>1, <3>2, CountType
    <3>5. Count(mailbox[Packets], x) \in Nat
      BY <3>1, CountType
    <3> QED BY <3>3, <3>4, <3>5
  <2>3. PICK k : k = conn[c]
    OBVIOUS
  <2>4. Alive(k) /\ Output(k) /\ k.state \notin Young
    BY <1>3, <2>2, <2>3, HeldIsAlive, PastHandshake DEF OutputInv
  <2>5. PacketLen \in Nat
    BY DEF PacketLen
  <2>6. q = k \/ q \in ConnWrite(k, PacketLen, peer[c] = "reset")
    BY <2>3 DEF SendAnyPacket
  <2>7. Output(q) /\ q.state \notin Young
    BY <2>4, <2>5, <2>6, WriteOutput
  <2>8. DOMAIN q = Fields
    <3>1. Step(k, q)
      BY <2>4, <2>5, <2>6, SelfStep, WriteStep
    <3> QED BY <3>1 DEF Step, ConnOK
  <2> DEFINE r == Release(q, 1)
  <2>9. /\ r.out = q.out /\ r.sock = q.sock /\ r.written = q.written
        /\ r.is_writing = q.is_writing /\ r.handlers = q.handlers
        /\ r.state = q.state \/ r.state = "FREED"
    BY <2>8, ReleaseKeeps
  <2>10. conn' = [conn EXCEPT ![c] = r]
    BY <1>5
  <2> HIDE DEF r
  <2>11. Output(r)
    BY <2>7, <2>9, SameOutput
  <2> QED BY <1>3, <2>10, <2>11, OneOutput
<1> QED BY <1>2, <1>4, <1>5

LEMMA EndRoundOutput ==
  ASSUME IoInv, OutputInv, EndRound
  PROVE  OutputInv'
<1>1. /\ conn' = [c \in Conns |-> IF conn[c].removing = 0 THEN conn[c]
                                  ELSE [Release(conn[c], conn[c].removing) EXCEPT !.removing = 0]]
      /\ mails' = mails /\ mailbox' = mailbox
  BY DEF EndRound
<1>2. IoInv'
  BY EndRoundKeeps
<1>3. ASSUME NEW c \in Conns
      PROVE  Output(conn'[c])
  <2>1. PICK k, r : k = conn[c] /\ r = conn'[c]
    OBVIOUS
  <2>2. Output(k) /\ DOMAIN k = Fields
    BY <2>1 DEF OutputInv, IoInv, ConnInv, ConnOK
  <2>3. r = IF k.removing = 0 THEN k ELSE [Release(k, k.removing) EXCEPT !.removing = 0]
    BY <1>1, <2>1
  <2>4. CASE k.removing = 0
    BY <2>1, <2>2, <2>3, <2>4
  <2>5. CASE k.removing # 0
    <3>1. PICK q : q = Release(k, k.removing)
      OBVIOUS
    <3>2. /\ DOMAIN q = Fields /\ q.out = k.out /\ q.sock = k.sock /\ q.written = k.written
          /\ q.is_writing = k.is_writing /\ q.held = k.held /\ q.handlers = k.handlers
          /\ q.state = k.state \/ q.state = "FREED"
      BY <2>2, <3>1, ReleaseKeeps
    <3>3. r = [q EXCEPT !.removing = 0]
      BY <2>3, <2>5, <3>1
    <3>4. /\ r.out = k.out /\ r.sock = k.sock /\ r.written = k.written
          /\ r.is_writing = k.is_writing /\ r.held = k.held /\ r.handlers = k.handlers
          /\ r.state = k.state \/ r.state = "FREED"
      BY <3>2, <3>3 DEF Fields
    <3>5. Bal(r) = Bal(k)
      <4>1. ConnOK(k) /\ k.ref_cnt = Holders(k) + MailsFor(c) /\ MailsFor(c) \in Nat
        BY <2>1, HeldIsAlive DEF IoInv, RefInv
      <4>2. MailsFor(c)' = MailsFor(c)
        BY <1>1 DEF MailsFor
      <4>3. ConnOK(r) /\ r.ref_cnt = Holders(r) + MailsFor(c)
        BY <1>2, <2>1, <4>2 DEF IoInv, RefInv, ConnInv
      <4>4. Holders(k) \in Nat /\ Holders(r) \in Nat
        BY <4>1, <4>3, Numbers
      <4> QED BY <4>1, <4>3, <4>4 DEF Bal
    <3>6. Output(r)
      BY <2>2, <3>4, <3>5, SameOutput
    <3> QED BY <2>1, <3>6
  <2> QED BY <2>4, <2>5
<1> QED BY <1>3 DEF OutputInv

LEMMA NextOutput ==
  ASSUME IoInv, OutputInv, [Next]_loopVars
  PROVE  OutputInv'
<1>1. ASSUME UNCHANGED conn
      PROVE  OutputInv'
  BY <1>1 DEF OutputInv
<1>2. CASE UNCHANGED loopVars
  BY <1>1, <1>2 DEF loopVars
<1>3. CASE Next
  <2>1. CASE \E c \in Conns : \/ PeerSends(c) \/ PushPacket(c) \/ SessionReleases(c)
                           \/ CallShutdown(c) \/ UserOperationDone(c)
    BY <1>1, <2>1, PushPacketOutput, SessionReleasesOutput, CallShutdownOutput,
       UserOperationDoneOutput DEF PeerSends
  <2>2. CASE \E c \in Conns, how \in {"closed", "reset"} : PeerLeaves(c, how)
    BY <1>1, <2>2 DEF PeerLeaves
  <2>3. CASE \E c \in Conns, kind \in Kinds : Accept(c, kind)
    BY <1>1, <2>3 DEF Accept
  <2>4. CASE \E b \in Boxes : Notify(b)
    BY <1>1, <2>4 DEF Notify
  <2>5. CASE Loop
    <3>1. ASSUME NEW writable, EpollWait(writable)
          PROVE  OutputInv'
      BY <1>1, <3>1 DEF EpollWait
    <3>2. CASE NextFd \/ SkipCanceled \/ CallNotifier \/ SwapMailbox
      BY <1>1, <3>2 DEF NextFd, SkipCanceled, CallNotifier, SwapMailbox
    <3> QED BY <2>5, <3>1, <3>2, CallConnHandlerOutput, CallTimerOutput, HandleMailOutput,
               EndRoundOutput DEF Loop
  <2> QED BY <1>3, <2>1, <2>2, <2>3, <2>4, <2>5 DEF Next
<1> QED BY <1>2, <1>3

\* What the kernel got of a connection and what its buffer holds are the bytes
\* written to it, in order and without a gap, and an open connection has its write
\* handler exactly as long as the buffer is not empty: also when the kernel takes
\* a part, when a chunk is realigned or spilled over, and when a packet of another
\* thread comes between two calls of write_cb_
\* (tmq_tcp_conn_write, write_cb_, net/mqtt_tcp_conn.c; net/mqtt_buffer.c).
THEOREM OutputInOrder == Spec => []OutputExact
<1>1. Init => IoInv /\ OutputInv
  BY InitHolds, NoConnOutput DEF Init, OutputInv
<1>2. IoInv /\ OutputInv /\ [Next]_loopVars => IoInv' /\ OutputInv'
  BY NextKeeps, NextOutput
<1>3. ASSUME OutputInv
      PROVE  OutputExact
  <2> SUFFICES ASSUME NEW c \in Conns
               PROVE  /\ conn[c].sock \o Contents(conn[c].out) = [i \in 1 .. conn[c].written |-> i]
                      /\ conn[c].state \in {"CONNECTED", "DISCONNECTING"} =>
                           /\ (conn[c].out.readable_bytes > 0) = conn[c].is_writing
                           /\ conn[c].is_writing = Has(conn[c], "write")
    BY DEF OutputExact
  <2>1. DataOK(conn[c]) /\ WriterOK(conn[c])
    BY <1>3 DEF OutputInv, Output
  <2>2. conn[c].sock \o Contents(conn[c].out) = [i \in 1 .. conn[c].written |-> i]
    BY <2>1 DEF DataOK, Numbered
  <2>3. ASSUME conn[c].state \in {"CONNECTED", "DISCONNECTING"}
        PROVE  /\ (conn[c].out.readable_bytes > 0) = conn[c].is_writing
               /\ conn[c].is_writing = Has(conn[c], "write")
    <3>1. /\ conn[c].is_writing \in BOOLEAN
          /\ conn[c].out.readable_bytes > 0 <=> conn[c].is_writing
          /\ conn[c].is_writing <=> Has(conn[c], "write")
      BY <2>1, <2>3 DEF WriterOK, Sending
    <3>2. conn[c].is_writing = Has(conn[c], "write")
      <4>1. PICK h \in BOOLEAN : h = Has(conn[c], "write")
        BY DEF Has
      <4>2. PICK w \in BOOLEAN : w = conn[c].is_writing
        BY <3>1
      <4>3. w <=> h
        BY <3>1, <4>1, <4>2
      <4> QED BY <4>1, <4>2, <4>3
    <3>3. (conn[c].out.readable_bytes > 0) = conn[c].is_writing
      <4>1. PICK n \in Nat : n = conn[c].out.readable_bytes
        BY <2>1, AllType DEF DataOK, BufferOK, Contents, All
      <4>2. (n > 0) \in BOOLEAN
        OBVIOUS
      <4> QED BY <3>1, <4>1, <4>2, Zenon
    <3> QED BY <3>2, <3>3
  <2> QED BY <2>2, <2>3
<1> QED BY <1>1, <1>2, <1>3, PTL DEF Spec
=============================================================================
