----------------------------- MODULE TaskQueues -----------------------------
(***************************************************************************)
(* What the executor promises its clients: a FIFO queue of tasks for every *)
(* priority, from which tasks are run one at a time.                       *)
(***************************************************************************)
EXTENDS Naturals, Sequences

CONSTANTS Pri, Task

VARIABLES queue,  \* tasks not yet run, per priority
          done    \* tasks run, per priority

Init ==
  /\ queue = [p \in Pri |-> <<>>]
  /\ done = [p \in Pri |-> <<>>]

Post(p, task) ==
  /\ queue' = [queue EXCEPT ![p] = Append(@, task)]
  /\ UNCHANGED done

Run(p) ==
  /\ queue[p] # <<>>
  /\ done' = [done EXCEPT ![p] = Append(@, Head(queue[p]))]
  /\ queue' = [queue EXCEPT ![p] = Tail(@)]

Next == \E p \in Pri : Run(p) \/ \E task \in Task : Post(p, task)

Spec == Init /\ [][Next]_<<queue, done>>
=============================================================================
