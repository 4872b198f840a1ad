----------------------------- MODULE ThreadPool -----------------------------
(***************************************************************************)
(* The thread pool (thrdpool/thrdpool.c) and its queue of two lists        *)
(* (thrdpool/msgqueue.c).  Threads put tasks into one list under           *)
(* put_mutex; workers take them from the other under get_mutex, and the    *)
(* one that finds it empty swaps the lists, waiting for a task while it    *)
(* holds get_mutex.  A step is what happens under one lock.                *)
(*                                                                         *)
(* The queue has no limit (msgqueue_create(0, 0): msg_max - 1 wraps), so   *)
(* nobody waits to put.  The pool is destroyed by a thread outside it.     *)
(***************************************************************************)
EXTENDS Integers, Sequences, FiniteSets

CONSTANTS Workers, MaxTasks   \* bound: tasks scheduled

VARIABLES put_list, get_list,
          get_mutex,   \* the worker that holds it, or NoThread
          signals,     \* puts between their unlock and their signal
          nonblock, terminate, nthreads,
          tid,         \* the last thread that left
          wpc,         \* where a worker is
          joins,       \* joins[w]: the thread w joins when it leaves
          dpc,         \* where thrdpool_destroy is
          scheduled,   \* history: number of tasks scheduled, which are numbered
          started,     \* history: the tasks started, in order
          pended       \* history: the tasks that thrdpool_destroy found left

poolVars == <<put_list, get_list, get_mutex, signals, nonblock, terminate, nthreads, tid, wpc,
              joins, dpc, scheduled, started, pended>>

NoThread == "none"

ASSUME WorkersAssumption == IsFiniteSet(Workers) /\ NoThread \notin Workers

\* thrdpool_create, __thrdpool_create_threads.
PoolInit ==
  /\ put_list = <<>> /\ get_list = <<>> /\ get_mutex = NoThread /\ signals = 0
  /\ nonblock = FALSE /\ terminate = FALSE
  /\ nthreads = 0 /\ tid = NoThread
  /\ wpc = [w \in Workers |-> "new"] /\ joins = [w \in Workers |-> NoThread]
  /\ dpc = "idle" /\ scheduled = 0 /\ started = <<>> /\ pended = <<>>

\* thrdpool_increase, and one round of __thrdpool_create_threads.
Create(w) ==
  /\ wpc[w] = "new" /\ dpc = "idle"
  /\ wpc' = [wpc EXCEPT ![w] = "top"]
  /\ nthreads' = nthreads + 1
  /\ UNCHANGED <<put_list, get_list, get_mutex, signals, nonblock, terminate, tid, joins, dpc,
                 scheduled, started, pended>>

\* thrdpool_schedule: msgqueue_put up to its unlock.
Schedule ==
  /\ scheduled < MaxTasks /\ dpc \in {"idle", "nonblock", "signalled"}
  /\ scheduled' = scheduled + 1
  /\ put_list' = Append(put_list, scheduled')
  /\ signals' = signals + 1
  /\ UNCHANGED <<get_list, get_mutex, nonblock, terminate, nthreads, tid, wpc, joins, dpc,
                 started, pended>>

\* pthread_cond_signal of get_cond: at most one thread waits, the holder of
\* get_mutex.
Woken == [w \in Workers |-> IF wpc[w] = "waiting" THEN "swap" ELSE wpc[w]]

SignalGet ==
  /\ signals > 0
  /\ signals' = signals - 1
  /\ wpc' = Woken
  /\ UNCHANGED <<put_list, get_list, get_mutex, nonblock, terminate, nthreads, tid, joins, dpc,
                 scheduled, started, pended>>

(* __thrdpool_routine.                                                     *)

Top(w) ==
  /\ wpc[w] = "top"
  /\ wpc' = [wpc EXCEPT ![w] = IF terminate THEN "leave" ELSE "get"]
  /\ UNCHANGED <<put_list, get_list, get_mutex, signals, nonblock, terminate, nthreads, tid,
                 joins, dpc, scheduled, started, pended>>

\* Mutant: the list to take from is swapped without get_mutex.
NoMutex(w) == TRUE
MayGet(w) == get_mutex = NoThread

\* msgqueue_get, when there is a task in the list, and when there is none.
TakeTask(w) ==
  /\ wpc[w] = "get" /\ MayGet(w) /\ get_list # <<>>
  /\ started' = Append(started, Head(get_list))
  /\ get_list' = Tail(get_list)
  /\ wpc' = [wpc EXCEPT ![w] = "top"]
  /\ UNCHANGED <<put_list, get_mutex, signals, nonblock, terminate, nthreads, tid, joins, dpc,
                 scheduled, pended>>

EnterSwap(w) ==
  /\ wpc[w] = "get" /\ MayGet(w) /\ get_list = <<>>
  /\ get_mutex' = w
  /\ wpc' = [wpc EXCEPT ![w] = "swap"]
  /\ UNCHANGED <<put_list, get_list, signals, nonblock, terminate, nthreads, tid, joins, dpc,
                 scheduled, started, pended>>

\* __msgqueue_swap, and the rest of msgqueue_get.
SwapWaits(w) ==
  /\ wpc[w] = "swap" /\ put_list = <<>> /\ ~ nonblock
  /\ wpc' = [wpc EXCEPT ![w] = "waiting"]
  /\ UNCHANGED <<put_list, get_list, get_mutex, signals, nonblock, terminate, nthreads, tid,
                 joins, dpc, scheduled, started, pended>>

Swap(w) ==
  /\ wpc[w] = "swap" /\ (put_list # <<>> \/ nonblock)
  /\ get_list' = IF put_list = <<>> THEN <<>> ELSE Tail(put_list)
  /\ started' = IF put_list = <<>> THEN started ELSE Append(started, Head(put_list))
  /\ wpc' = [wpc EXCEPT ![w] = IF put_list = <<>> THEN "leave" ELSE "top"]
  /\ put_list' = <<>>
  /\ get_mutex' = NoThread
  /\ UNCHANGED <<signals, nonblock, terminate, nthreads, tid, joins, dpc, scheduled, pended>>

\* A thread leaves; it joins the one that left before it.
Leave(w) ==
  /\ wpc[w] = "leave" /\ dpc \in {"idle", "waiting"}     \* pool->mutex is free
  /\ joins' = [joins EXCEPT ![w] = tid]
  /\ tid' = w
  /\ nthreads' = nthreads - 1
  /\ wpc' = [wpc EXCEPT ![w] = "joining"]
  /\ UNCHANGED <<put_list, get_list, get_mutex, signals, nonblock, terminate, dpc, scheduled,
                 started, pended>>

Exit(w) ==
  /\ wpc[w] = "joining" /\ (joins[w] # NoThread => wpc[joins[w]] = "exited")
  /\ wpc' = [wpc EXCEPT ![w] = "exited"]
  /\ UNCHANGED <<put_list, get_list, get_mutex, signals, nonblock, terminate, nthreads, tid,
                 joins, dpc, scheduled, started, pended>>

(* thrdpool_destroy.                                                       *)

\* __thrdpool_terminate: msgqueue_set_nonblock sets the flag without a lock ...
SetNonblock ==
  /\ dpc = "idle"
  /\ nonblock' = TRUE
  /\ dpc' = "nonblock"
  /\ UNCHANGED <<put_list, get_list, get_mutex, signals, terminate, nthreads, tid, wpc, joins,
                 scheduled, started, pended>>

\* ... and signals under put_mutex.  Mutant: it does not.
SignalNobody == wpc
SignalAll == Woken

SignalNonblock ==
  /\ dpc = "nonblock"
  /\ wpc' = SignalAll
  /\ dpc' = "signalled"
  /\ UNCHANGED <<put_list, get_list, get_mutex, signals, nonblock, terminate, nthreads, tid,
                 joins, scheduled, started, pended>>

SetTerminate ==
  /\ dpc = "signalled"
  /\ terminate' = TRUE
  /\ dpc' = "waiting"
  /\ UNCHANGED <<put_list, get_list, get_mutex, signals, nonblock, nthreads, tid, wpc, joins,
                 scheduled, started, pended>>

\* No thread is left and the last one is joined; what is queued goes to pending.
Drain ==
  /\ dpc = "waiting" /\ nthreads = 0 /\ (tid # NoThread => wpc[tid] = "exited")
  /\ pended' = get_list \o put_list
  /\ get_list' = <<>> /\ put_list' = <<>>
  /\ dpc' = "done"
  /\ UNCHANGED <<get_mutex, signals, nonblock, terminate, nthreads, tid, wpc, joins, scheduled,
                 started>>

Routine(w) ==
  Top(w) \/ TakeTask(w) \/ EnterSwap(w) \/ SwapWaits(w) \/ Swap(w) \/ Leave(w) \/ Exit(w)
Terminate == SignalNonblock \/ SetTerminate \/ Drain

PoolNext ==
  \/ Schedule \/ SignalGet \/ SetNonblock \/ Terminate
  \/ \E w \in Workers : Create(w) \/ Routine(w)

\* Every thread goes on when it can: the workers, the destroyer once it has
\* started, and a putter between its unlock and its signal.
PoolFairness ==
  /\ \A w \in Workers : WF_poolVars(Routine(w))
  /\ WF_poolVars(Terminate)
  /\ WF_poolVars(SignalGet)

PoolSpec == PoolInit /\ [][PoolNext]_poolVars /\ PoolFairness

-----------------------------------------------------------------------------
\* Tasks start in the order in which they were scheduled, each once, and those
\* that have not started when the pool is destroyed are handed to `pending'
\* (__msgqueue_swap under two mutexes).
PoolFifo ==
  started \o pended \o get_list \o put_list = [i \in 1 .. scheduled |-> i]

\* thrdpool_destroy returns: the thread that waits in the queue is woken, every
\* thread behind it on get_mutex finds the queue closed, and the chain of joins
\* ends (thrdpool.c:75-112).
DestroyReturns == dpc = "nonblock" ~> dpc = "done"

=============================================================================
