------------------------------ MODULE Executor ------------------------------
(***************************************************************************)
(* The broker's logic thread: mqtt/mqtt_executor.c.                        *)
(*                                                                         *)
(* IO threads post tasks of a priority; one thread runs them.  A batch is  *)
(* taken out of the highest non-empty priority under the lock and run      *)
(* without it; a post of a higher priority raises preempt, and the thread  *)
(* then hands the rest of its batch back as aux_buf, to be resumed at      *)
(* break_point.  Critical sections contain no blocking call, so each one   *)
(* is a single action; pthread_cond_signal happens after the unlock and is *)
(* an action of its own.                                                   *)
(***************************************************************************)
EXTENDS Integers, Sequences, FiniteSets

CONSTANTS Posters,    \* threads that call tmq_executor_post
          max_pri,    \* highest priority (tmq_executor_init's pri_num - 1)
          MaxPosts    \* bound on the number of posts

ASSUME PriAssumption == max_pri \in Nat
ASSUME PostsAssumption == MaxPosts \in Nat

Pri  == 0 .. max_pri
Task == 1 .. MaxPosts    \* a task is named by its place in the order of posts

VARIABLES
  main_buf, aux_buf, break_point,         \* task_exec_ctx, one per priority
  executing_pri, preempt, task_total,     \* tmq_executor_t
  worker,     \* where thread_routine_ is
  tasks, t,   \* its locals: the batch and the index of its next task
  poster,     \* where each caller of tmq_executor_post is
  num_posted, \* history: number of posts so far
  posted,     \* history: tasks posted, per priority
  executed    \* history: tasks run, per priority

buffers == <<main_buf, aux_buf, break_point>>
history == <<num_posted, posted, executed>>
executorVars == <<main_buf, aux_buf, break_point, executing_pri, preempt, task_total,
          worker, tasks, t, poster, num_posted, posted, executed>>

\* Mutant: an interrupted batch does not count as work.
ReadyMainOnly(p) == main_buf[p] # <<>>

Ready(p) == main_buf[p] # <<>> \/ aux_buf[p] # <<>>

\* The scan from max_pri downwards.
HighestReady(p) == Ready(p) /\ \A q \in Pri : q > p => ~ Ready(q)
-----------------------------------------------------------------------------
ExecutorInit ==
  /\ main_buf = [p \in Pri |-> <<>>]
  /\ aux_buf = [p \in Pri |-> <<>>]
  /\ break_point = [p \in Pri |-> 0]
  /\ executing_pri = -1
  /\ preempt = FALSE
  /\ task_total = 0
  /\ worker = "lock"
  /\ tasks = <<>>
  /\ t = 0
  /\ poster = [c \in Posters |-> "idle"]
  /\ num_posted = 0
  /\ posted = [p \in Pri |-> <<>>]
  /\ executed = [p \in Pri |-> <<>>]
-----------------------------------------------------------------------------
\* Mutant: the comparison of the priorities is reversed.
PreemptReversed(p) == preempt \/ executing_pri > p

\* PreemptAfterPost(p): the value of preempt once a task of priority p is in.
PreemptAfterPost(p) == preempt \/ executing_pri < p

\* tmq_executor_post up to the unlock, by thread c.
Post(c, p) ==
  /\ poster[c] = "idle"
  /\ num_posted < MaxPosts
  /\ LET task == num_posted + 1 IN
       /\ main_buf' = [main_buf EXCEPT ![p] = Append(@, task)]
       /\ posted' = [posted EXCEPT ![p] = Append(@, task)]
  /\ num_posted' = num_posted + 1
  /\ task_total' = task_total + 1
  /\ preempt' = PreemptAfterPost(p)
  /\ poster' = [poster EXCEPT ![c] = "signal"]
  /\ UNCHANGED <<aux_buf, break_point, executing_pri, worker, tasks, t, executed>>

\* Mutant: the signal is left out.
SignalOmitted(c) ==
  /\ poster[c] = "signal"
  /\ poster' = [poster EXCEPT ![c] = "idle"]
  /\ UNCHANGED <<buffers, executing_pri, preempt, task_total, worker, tasks, t, history>>

\* pthread_cond_signal: wakes the thread if it is waiting, else does nothing.
Signal(c) ==
  /\ poster[c] = "signal"
  /\ poster' = [poster EXCEPT ![c] = "idle"]
  /\ worker' = IF worker = "wait" THEN "lock" ELSE worker
  /\ UNCHANGED <<buffers, executing_pri, preempt, task_total, tasks, t, history>>

\* pthread_cond_wait may return without a signal.
SpuriousWakeup ==
  /\ worker = "wait"
  /\ worker' = "lock"
  /\ UNCHANGED <<buffers, executing_pri, preempt, task_total, tasks, t, poster, history>>

\* Nothing to do: wait, which releases the lock.
Wait ==
  /\ worker = "lock"
  /\ task_total = 0
  /\ worker' = "wait"
  /\ UNCHANGED <<buffers, executing_pri, preempt, task_total, tasks, t, poster, history>>

\* Where an interrupted batch is resumed.
ResumeAt(p) == break_point[p]

\* Mutant: the fresh batch goes before the interrupted one.
TakeFreshFirst(p) ==
  IF main_buf[p] # <<>>
  THEN /\ tasks' = main_buf[p]
       /\ t' = 0
       /\ main_buf' = [main_buf EXCEPT ![p] = <<>>]
       /\ UNCHANGED aux_buf
  ELSE /\ tasks' = aux_buf[p]
       /\ t' = ResumeAt(p)
       /\ aux_buf' = [aux_buf EXCEPT ![p] = <<>>]
       /\ UNCHANGED main_buf

\* Take the batch of priority p out: the interrupted one first.
TakeBatch(p) ==
  IF aux_buf[p] # <<>>
  THEN /\ tasks' = aux_buf[p]
       /\ t' = ResumeAt(p)
       /\ aux_buf' = [aux_buf EXCEPT ![p] = <<>>]
       /\ UNCHANGED main_buf
  ELSE /\ tasks' = main_buf[p]
       /\ t' = 0
       /\ main_buf' = [main_buf EXCEPT ![p] = <<>>]
       /\ UNCHANGED aux_buf

Take ==
  /\ worker = "lock"
  /\ task_total > 0
  /\ \E p \in Pri :
       /\ HighestReady(p)
       /\ executing_pri' = p
       /\ TakeBatch(p)
  /\ preempt' = FALSE
  /\ task_total' = task_total - (Len(tasks') - t')
  /\ worker' = "loop"
  /\ UNCHANGED <<break_point, poster, history>>

\* atomicGet(preempt), without the lock, before each task of the batch.
CheckPreempt ==
  /\ worker = "loop"
  /\ t < Len(tasks)
  /\ worker' = IF preempt THEN "save" ELSE "exec"
  /\ UNCHANGED <<buffers, executing_pri, preempt, task_total, tasks, t, poster, history>>

\* Hand the batch back, to be resumed at index at, with count tasks to go; what
\* aux_buf held goes to tmq_vec_free.
HandBack(count, at) ==
  /\ worker = "save"
  /\ task_total' = task_total + count
  /\ aux_buf' = [aux_buf EXCEPT ![executing_pri] = tasks]
  /\ break_point' = [break_point EXCEPT ![executing_pri] = at]
  /\ tasks' = <<>>
  /\ t' = 0
  /\ worker' = "lock"
  /\ UNCHANGED <<main_buf, executing_pri, preempt, poster, history>>

\* Mutants: the tasks are not counted again; the next one is skipped.
SaveUncounted == HandBack(0, t)
SaveSkipping == HandBack(Len(tasks) - t, t + 1)

Save == HandBack(Len(tasks) - t, t)

\* task->exec(task->arg).
Exec ==
  /\ worker = "exec"
  /\ executed' = [executed EXCEPT ![executing_pri] = Append(@, tasks[t + 1])]
  /\ t' = t + 1
  /\ worker' = "loop"
  /\ UNCHANGED <<buffers, executing_pri, preempt, task_total, tasks, poster, num_posted, posted>>

\* The batch is done: tmq_vec_free(tasks), back to the lock.
EndBatch ==
  /\ worker = "loop"
  /\ t = Len(tasks)
  /\ tasks' = <<>>
  /\ t' = 0
  /\ worker' = "lock"
  /\ UNCHANGED <<buffers, executing_pri, preempt, task_total, poster, history>>

Worker == Wait \/ Take \/ CheckPreempt \/ Save \/ Exec \/ EndBatch

ExecutorNext ==
  \/ \E c \in Posters, p \in Pri : Post(c, p)
  \/ \E c \in Posters : Signal(c)
  \/ SpuriousWakeup
  \/ Worker

ExecutorSpec == ExecutorInit /\ [][ExecutorNext]_executorVars

\* The OS schedules the logic thread and lets a poster finish its call; no
\* thread is obliged to post.
ExecutorFairness == WF_executorVars(Worker) /\ \A c \in Posters : WF_executorVars(Signal(c))

ExecutorFairSpec == ExecutorSpec /\ ExecutorFairness
-----------------------------------------------------------------------------
\* A batch is in hand while the thread is in its for loop.
InLoop == worker \in {"loop", "exec", "save"}

\* What is left of the batch in hand, and of an interrupted one.
InHand(p) ==
  IF InLoop /\ executing_pri = p
  THEN SubSeq(tasks, t + 1, Len(tasks)) ELSE <<>>
Interrupted(p) ==
  IF aux_buf[p] = <<>> THEN <<>>
  ELSE SubSeq(aux_buf[p], break_point[p] + 1, Len(aux_buf[p]))

\* Tasks of priority p not yet run, in the order they will be.
Outstanding(p) == InHand(p) \o Interrupted(p) \o main_buf[p]

\* Type invariant.
ExecutorTypeOK ==
  /\ main_buf \in [Pri -> Seq(Task)]
  /\ aux_buf \in [Pri -> Seq(Task)]
  /\ break_point \in [Pri -> Nat]
  /\ executing_pri \in Pri \cup {-1}
  /\ preempt \in BOOLEAN
  /\ task_total \in Int
  /\ worker \in {"lock", "wait", "loop", "exec", "save"}
  /\ tasks \in Seq(Task)
  /\ t \in Nat
  /\ poster \in [Posters -> {"idle", "signal"}]
  /\ num_posted \in 0 .. MaxPosts
  /\ posted \in [Pri -> Seq(Task)]
  /\ executed \in [Pri -> Seq(Task)]

\* FIFO without loss or duplication, however batches are interrupted and
\* resumed: per priority, what was posted is what ran followed by what is
\* still outstanding, in that order (mqtt_executor.c:61-87).
FifoPerPriority ==
  \A p \in Pri : posted[p] = executed[p] \o Outstanding(p)

\* How many tasks of priority p the buffers hold.
Waiting(p) == Len(Interrupted(p)) + Len(main_buf[p])

\* task_total counts exactly the tasks in the buffers, an interrupted batch
\* only from its break point on (mqtt_executor.c:72, 80, 118).  A waiting task
\* is a place in the queue of its priority.
TaskTotalExact ==
  task_total = Cardinality(UNION {{p} \X (1 .. Waiting(p)) : p \in Pri})

\* No wake-up is lost: if the thread sleeps although there is work, the poster
\* of some of it has still to signal (mqtt_executor.c:42-43, 122-123).
NoLostWakeup ==
  worker = "wait" /\ task_total > 0 => \E c \in Posters : poster[c] = "signal"

\* The thread never starts a task while one of a higher priority was already
\* waiting when it looked at preempt (mqtt_executor.c:57-58, 77, 119-120).
PriorityRespected ==
  [][worker = "loop" /\ worker' = "exec"
       => \A q \in Pri : q > executing_pri => ~ Ready(q)]_executorVars

\* Every task posted is eventually run, the interrupted ones included
\* (for finitely many posts: a flood of priority 1 starves priority 0).
EveryTaskRuns ==
  \A p \in Pri : \A n \in Task : Len(posted[p]) >= n ~> Len(executed[p]) >= n

\* The executor implements one FIFO queue per priority: an outstanding task is
\* queued, running it dequeues it, and taking, interrupting and resuming
\* batches are invisible.
Queues == INSTANCE TaskQueues WITH
            queue <- [p \in Pri |-> Outstanding(p)], done <- executed
ImplementsTaskQueues == Queues!Spec
=============================================================================
