--------------------------- MODULE Executor_proofs ---------------------------
(***************************************************************************)
(* The executor is FIFO per priority, loses no wake-up, respects           *)
(* priorities and implements TaskQueues, for any number of posters,        *)
(* priorities and posts.                                                   *)
(***************************************************************************)
EXTENDS Executor, TLAPS, SequenceTheorems, FiniteSetTheorems, FunctionTheorems

\* The batch in hand: its index is in range, and no interrupted batch of its
\* own priority waits behind it.
BatchInv ==
  /\ InLoop => /\ executing_pri \in Pri
               /\ t <= Len(tasks)
               /\ aux_buf[executing_pri] = <<>>
  /\ worker \in {"exec", "save"} => t < Len(tasks)

\* A batch handed back still has tasks to run.
AuxInv ==
  \A p \in Pri : aux_buf[p] # <<>> => break_point[p] < Len(aux_buf[p])

\* While a batch is in hand, work of a higher priority has raised preempt.
PreemptInv ==
  InLoop => \A q \in Pri : q > executing_pri /\ Ready(q) => preempt

IInv == ExecutorTypeOK /\ BatchInv /\ AuxInv /\ PreemptInv /\ NoLostWakeup

-----------------------------------------------------------------------------
\* What Take does: the batch is an interrupted one, resumed at its break point,
\* or a fresh one, and comes from the highest priority with work.
LEMMA TakeEffect ==
  ASSUME Take
  PROVE  \E p \in Pri :
           /\ HighestReady(p)
           /\ executing_pri' = p
           /\ \/ /\ aux_buf[p] # <<>>
                 /\ tasks' = aux_buf[p]
                 /\ t' = break_point[p]
                 /\ aux_buf' = [aux_buf EXCEPT ![p] = <<>>]
                 /\ main_buf' = main_buf
              \/ /\ aux_buf[p] = <<>>
                 /\ tasks' = main_buf[p]
                 /\ t' = 0
                 /\ main_buf' = [main_buf EXCEPT ![p] = <<>>]
                 /\ aux_buf' = aux_buf
  BY Zenon DEF Take, TakeBatch, ResumeAt

\* Every action preserves the type invariant.
LEMMA TypeStep == ExecutorTypeOK /\ BatchInv /\ [ExecutorNext]_executorVars => ExecutorTypeOK'
<1> SUFFICES ASSUME ExecutorTypeOK, BatchInv, [ExecutorNext]_executorVars PROVE ExecutorTypeOK'
  OBVIOUS
<1> USE PriAssumption, PostsAssumption DEF ExecutorTypeOK, buffers, history
<1>0. <<>> \in Seq(Task)
  BY EmptySeq
<1>1. ASSUME NEW c \in Posters, NEW p \in Pri, Post(c, p) PROVE ExecutorTypeOK'
  <2>1. num_posted + 1 \in Task
    BY <1>1 DEF Post, Task
  <2> QED BY <1>1, <2>1 DEF Post, PreemptAfterPost
<1>2. ASSUME NEW c \in Posters, Signal(c) PROVE ExecutorTypeOK'
  BY <1>2 DEF Signal
<1>3. CASE SpuriousWakeup
  BY <1>3 DEF SpuriousWakeup
<1>4. CASE Wait
  BY <1>4 DEF Wait
<1>5. CASE Take
  <2>1. PICK p \in Pri :
          /\ executing_pri' = p
          /\ \/ /\ tasks' = aux_buf[p]
                /\ t' = break_point[p]
                /\ aux_buf' = [aux_buf EXCEPT ![p] = <<>>]
                /\ main_buf' = main_buf
             \/ /\ tasks' = main_buf[p]
                /\ t' = 0
                /\ main_buf' = [main_buf EXCEPT ![p] = <<>>]
                /\ aux_buf' = aux_buf
    BY <1>5, TakeEffect
  <2>2. /\ tasks' \in Seq(Task)
        /\ t' \in Nat
        /\ aux_buf' \in [Pri -> Seq(Task)]
        /\ main_buf' \in [Pri -> Seq(Task)]
    <3>1. \A f \in [Pri -> Seq(Task)] :
            f[p] \in Seq(Task) /\ [f EXCEPT ![p] = <<>>] \in [Pri -> Seq(Task)]
      BY <1>0
    <3>2. CASE /\ tasks' = aux_buf[p]
               /\ t' = break_point[p]
               /\ aux_buf' = [aux_buf EXCEPT ![p] = <<>>]
               /\ main_buf' = main_buf
      BY <3>1, <3>2
    <3>3. CASE /\ tasks' = main_buf[p]
               /\ t' = 0
               /\ main_buf' = [main_buf EXCEPT ![p] = <<>>]
               /\ aux_buf' = aux_buf
      BY <3>1, <3>3
    <3> QED BY <2>1, <3>2, <3>3
  <2>3. task_total' \in Int
    BY <1>5, <2>2 DEF Take
  <2> QED BY <1>5, <2>1, <2>2, <2>3 DEF Take
<1>6. CASE CheckPreempt
  BY <1>6 DEF CheckPreempt
<1>7. CASE Save
  <2>1. executing_pri \in Pri
    BY <1>7 DEF Save, HandBack, BatchInv, InLoop
  <2> QED BY <1>0, <1>7, <2>1 DEF Save, HandBack
<1>8. CASE Exec
  <2>1. tasks[t + 1] \in Task /\ executing_pri \in Pri
    BY <1>8 DEF Exec, BatchInv, InLoop
  <2> QED BY <1>8, <2>1 DEF Exec
<1>9. CASE EndBatch
  BY <1>0, <1>9 DEF EndBatch
<1>10. CASE UNCHANGED executorVars
  BY <1>10 DEF executorVars
<1> QED BY <1>1, <1>2, <1>3, <1>4, <1>5, <1>6, <1>7, <1>8, <1>9, <1>10
        DEF ExecutorNext, Worker

\* The other conjuncts of IInv are preserved with it.
LEMMA InvStep == IInv /\ [ExecutorNext]_executorVars => IInv'
<1> SUFFICES ASSUME IInv, [ExecutorNext]_executorVars PROVE IInv'
  OBVIOUS
<1> USE PriAssumption, PostsAssumption DEF ExecutorTypeOK, buffers, history
<1>0. ExecutorTypeOK /\ ExecutorTypeOK'
  BY TypeStep DEF IInv
<1>1. ASSUME NEW c \in Posters, NEW p \in Pri, Post(c, p) PROVE IInv'
  <2>1. BatchInv' /\ AuxInv'
    BY <1>0, <1>1 DEF IInv, Post, BatchInv, AuxInv, InLoop
  <2>2. PreemptInv'
    BY <1>0, <1>1 DEF IInv, Post, PreemptAfterPost, PreemptInv, InLoop, Ready
  <2>3. NoLostWakeup'
    BY <1>0, <1>1 DEF Post, NoLostWakeup
  <2> QED BY <1>0, <2>1, <2>2, <2>3 DEF IInv
<1>2. ASSUME NEW c \in Posters, Signal(c) PROVE IInv'
  <2>1. BatchInv' /\ AuxInv' /\ PreemptInv' /\ NoLostWakeup'
    BY <1>0, <1>2 DEF IInv, Signal, BatchInv, AuxInv, PreemptInv, NoLostWakeup, InLoop, Ready
  <2> QED BY <1>0, <2>1 DEF IInv
<1>3. CASE SpuriousWakeup \/ Wait
  <2>1. BatchInv' /\ AuxInv' /\ PreemptInv' /\ NoLostWakeup'
    BY <1>0, <1>3
       DEF IInv, SpuriousWakeup, Wait, BatchInv, AuxInv, PreemptInv, NoLostWakeup, InLoop, Ready
  <2> QED BY <1>0, <2>1 DEF IInv
<1>4. CASE Take
  <2>1. PICK p \in Pri :
           /\ HighestReady(p)
           /\ executing_pri' = p
           /\ \/ /\ aux_buf[p] # <<>>
                 /\ tasks' = aux_buf[p]
                 /\ t' = break_point[p]
                 /\ aux_buf' = [aux_buf EXCEPT ![p] = <<>>]
                 /\ main_buf' = main_buf
              \/ /\ aux_buf[p] = <<>>
                 /\ tasks' = main_buf[p]
                 /\ t' = 0
                 /\ main_buf' = [main_buf EXCEPT ![p] = <<>>]
                 /\ aux_buf' = aux_buf
    BY <1>4, TakeEffect
  <2>2. worker' = "loop" /\ break_point' = break_point
    BY <1>4 DEF Take
  <2>3. AuxInv'
    BY <1>0, <2>1, <2>2 DEF IInv, AuxInv
  <2>4. BatchInv'
    <3>1. t' <= Len(tasks')
      BY <1>0, <2>1 DEF IInv, AuxInv
    <3> QED BY <1>0, <2>1, <2>2, <3>1 DEF BatchInv, InLoop
  <2>5. PreemptInv'
    <3>1. \A q \in Pri : q > p => main_buf[q] = <<>> /\ aux_buf[q] = <<>>
      BY <2>1 DEF HighestReady, Ready
    <3>2. \A q \in Pri : q > p => main_buf'[q] = <<>> /\ aux_buf'[q] = <<>>
      BY <1>0, <2>1, <3>1
    <3> QED BY <2>1, <3>2 DEF PreemptInv, Ready
  <2>6. NoLostWakeup'
    BY <2>2 DEF NoLostWakeup
  <2> QED BY <1>0, <2>3, <2>4, <2>5, <2>6 DEF IInv
<1>5. CASE CheckPreempt
  <2>1. BatchInv' /\ AuxInv' /\ PreemptInv' /\ NoLostWakeup'
    BY <1>0, <1>5 DEF IInv, CheckPreempt, BatchInv, AuxInv, PreemptInv, NoLostWakeup, InLoop, Ready
  <2> QED BY <1>0, <2>1 DEF IInv
<1>6. CASE Save
  <2>1. executing_pri \in Pri /\ t < Len(tasks)
    BY <1>6 DEF IInv, Save, HandBack, BatchInv, InLoop
  <2>2. AuxInv'
    BY <1>0, <1>6, <2>1 DEF IInv, Save, HandBack, AuxInv
  <2>3. BatchInv' /\ PreemptInv' /\ NoLostWakeup'
    BY <1>6 DEF Save, HandBack, BatchInv, PreemptInv, NoLostWakeup, InLoop
  <2> QED BY <1>0, <2>2, <2>3 DEF IInv
<1>7. CASE Exec
  <2>1. t + 1 <= Len(tasks)
    BY <1>0, <1>7 DEF IInv, Exec, BatchInv
  <2>2. BatchInv' /\ AuxInv' /\ PreemptInv' /\ NoLostWakeup'
    BY <1>0, <1>7, <2>1 DEF IInv, Exec, BatchInv, AuxInv, PreemptInv, NoLostWakeup, InLoop, Ready
  <2> QED BY <1>0, <2>2 DEF IInv
<1>8. CASE EndBatch
  <2>1. BatchInv' /\ AuxInv' /\ PreemptInv' /\ NoLostWakeup'
    BY <1>0, <1>8 DEF IInv, EndBatch, BatchInv, AuxInv, PreemptInv, NoLostWakeup, InLoop
  <2> QED BY <1>0, <2>1 DEF IInv
<1>9. CASE UNCHANGED executorVars
  BY <1>9 DEF executorVars, IInv, BatchInv, AuxInv, PreemptInv, NoLostWakeup, InLoop, Ready
<1> QED BY <1>1, <1>2, <1>3, <1>4, <1>5, <1>6, <1>7, <1>8, <1>9 DEF ExecutorNext, Worker

\* The inductive invariant holds initially.
LEMMA InvInit == ExecutorInit => IInv
<1> SUFFICES ASSUME ExecutorInit PROVE IInv
  OBVIOUS
<1>1. <<>> \in Seq(Task)
  BY EmptySeq
<1>2. [p \in Pri |-> <<>>] \in [Pri -> Seq(Task)]
  BY <1>1
<1>3. ExecutorTypeOK
  <2>1. /\ main_buf \in [Pri -> Seq(Task)]
        /\ aux_buf \in [Pri -> Seq(Task)]
        /\ posted \in [Pri -> Seq(Task)]
        /\ executed \in [Pri -> Seq(Task)]
        /\ tasks \in Seq(Task)
    BY <1>1, <1>2, Zenon DEF ExecutorInit
  <2>2. /\ break_point \in [Pri -> Nat]
        /\ executing_pri \in Pri \cup {-1}
        /\ task_total \in Int
        /\ t \in Nat
        /\ num_posted \in 0 .. MaxPosts
    BY PostsAssumption DEF ExecutorInit
  <2>3. /\ worker \in {"lock", "wait", "loop", "exec", "save"}
        /\ poster \in [Posters -> {"idle", "signal"}]
        /\ preempt \in BOOLEAN
    BY Zenon DEF ExecutorInit
  <2> QED BY <2>1, <2>2, <2>3, Zenon DEF ExecutorTypeOK
<1> QED BY <1>3 DEF ExecutorInit, IInv, BatchInv, AuxInv, PreemptInv, NoLostWakeup, InLoop

\* The inductive invariant, and with it the type invariant and the absence of
\* lost wake-ups, holds in every reachable state.
THEOREM Invariance == ExecutorSpec => []IInv
  BY InvInit, InvStep, PTL DEF ExecutorSpec

\* Type correctness of the executor's state and of the thread's locals.
THEOREM TypeCorrect == ExecutorSpec => []ExecutorTypeOK
<1>1. IInv => ExecutorTypeOK
  BY DEF IInv
<1> QED BY <1>1, Invariance, PTL
-----------------------------------------------------------------------------
\* Appending at the end of a concatenation.
LEMMA ConcatAppend ==
  ASSUME NEW S, NEW s \in Seq(S), NEW v \in Seq(S), NEW x \in S
  PROVE  s \o Append(v, x) = Append(s \o v, x)
<1>1. <<x>> \in Seq(S)
  OBVIOUS
<1>2. Append(v, x) = v \o <<x>> /\ Append(s \o v, x) = (s \o v) \o <<x>>
  BY AppendIsConcat, ConcatProperties
<1> QED BY <1>1, <1>2, ConcatAssociative

\* Taking the head off a non-empty sequence in front of another.
LEMMA ConcatHeadTail ==
  ASSUME NEW S, NEW s \in Seq(S), NEW v \in Seq(S), s # <<>>
  PROVE  /\ s \o v # <<>>
         /\ Head(s \o v) = Head(s)
         /\ Tail(s \o v) = Tail(s) \o v
<1>1. s \o v \in Seq(S) /\ Len(s \o v) = Len(s) + Len(v) /\ Len(s) \in Nat \ {0} /\ Len(v) \in Nat
  BY ConcatProperties, EmptySeq, LenProperties
<1>2. s \o v # <<>>
  BY <1>1, EmptySeq
<1>3. Head(s \o v) = Head(s)
  BY <1>1, <1>2, ConcatProperties
<1>4. Tail(s) \in Seq(S) /\ Len(Tail(s)) = Len(s) - 1 /\ \A i \in 1 .. Len(Tail(s)) : Tail(s)[i] = s[i + 1]
  BY HeadTailProperties
<1>5. /\ Tail(s \o v) \in Seq(S)
      /\ Len(Tail(s \o v)) = Len(s) + Len(v) - 1
      /\ \A i \in 1 .. Len(s) + Len(v) - 1 : Tail(s \o v)[i] = (s \o v)[i + 1]
  BY <1>1, <1>2, HeadTailProperties
<1>6. Tail(s) \o v \in Seq(S) /\ Len(Tail(s) \o v) = Len(s) + Len(v) - 1
  BY <1>1, <1>4, ConcatProperties
<1>7. ASSUME NEW i \in 1 .. Len(s) + Len(v) - 1
      PROVE  Tail(s \o v)[i] = (Tail(s) \o v)[i]
  <2>1. Tail(s \o v)[i] = IF i + 1 <= Len(s) THEN s[i + 1] ELSE v[i + 1 - Len(s)]
    BY <1>1, <1>5, ConcatProperties
  <2>2. (Tail(s) \o v)[i] = IF i <= Len(s) - 1 THEN s[i + 1] ELSE v[i - (Len(s) - 1)]
    BY <1>1, <1>4, ConcatProperties
  <2> QED BY <1>1, <2>1, <2>2
<1>8. Tail(s \o v) = Tail(s) \o v
  BY <1>5, <1>6, <1>7, SeqEqual
<1> QED BY <1>2, <1>3, <1>8

\* The rest of a batch from index k on is a sequence of tasks; it is empty at
\* the end of the batch and otherwise starts with the task at k.
LEMMA RestOfBatch ==
  ASSUME NEW b \in Seq(Task), NEW k \in Nat, k <= Len(b)
  PROVE  /\ SubSeq(b, k + 1, Len(b)) \in Seq(Task)
         /\ k = Len(b) => SubSeq(b, k + 1, Len(b)) = <<>>
         /\ k = 0 => SubSeq(b, k + 1, Len(b)) = b
         /\ k < Len(b) => /\ SubSeq(b, k + 1, Len(b)) # <<>>
                          /\ Head(SubSeq(b, k + 1, Len(b))) = b[k + 1]
                          /\ Tail(SubSeq(b, k + 1, Len(b))) = SubSeq(b, k + 2, Len(b))
<1>0. Len(b) \in Nat
  BY LenProperties
<1>1. /\ SubSeq(b, k + 1, Len(b)) \in Seq(Task)
      /\ Len(SubSeq(b, k + 1, Len(b))) = Len(b) - k
  <2>1. \A i \in k + 1 .. Len(b) : b[i] \in Task
    BY <1>0, ElementOfSeq
  <2> QED BY <1>0, <2>1, SubSeqProperties
<1>2. k = Len(b) => SubSeq(b, k + 1, Len(b)) = <<>>
  BY <1>0, SubSeqEmpty
<1>3. k = 0 => SubSeq(b, k + 1, Len(b)) = b
  BY SubSeqFull
<1>4. ASSUME k < Len(b)
      PROVE  /\ SubSeq(b, k + 1, Len(b)) # <<>>
             /\ Head(SubSeq(b, k + 1, Len(b))) = b[k + 1]
             /\ Tail(SubSeq(b, k + 1, Len(b))) = SubSeq(b, k + 2, Len(b))
  <2>1. k + 1 \in 1 .. Len(b) /\ Len(b) \in k + 1 .. Len(b) /\ (k + 1) + 1 = k + 2
    BY <1>0, <1>4
  <2>2. SubSeq(b, k + 1, Len(b)) # <<>>
    <3>1. Len(SubSeq(b, k + 1, Len(b))) # 0
      BY <1>0, <1>1, <1>4
    <3>2. Len(<<>>) = 0
      BY EmptySeq
    <3> QED BY <3>1, <3>2
  <2> QED BY <2>1, <2>2, HeadTailOfSubSeq
<1> QED BY <1>1, <1>2, <1>3, <1>4
-----------------------------------------------------------------------------
\* The pieces of Outstanding(p) are sequences of tasks.
LEMMA OutstandingType ==
  ASSUME IInv, NEW p \in Pri
  PROVE  /\ InHand(p) \in Seq(Task)
         /\ Interrupted(p) \in Seq(Task)
         /\ main_buf[p] \in Seq(Task)
         /\ Outstanding(p) \in Seq(Task)
<1>0. <<>> \in Seq(Task)
  BY EmptySeq
<1>1. main_buf[p] \in Seq(Task) /\ aux_buf[p] \in Seq(Task) /\ break_point[p] \in Nat
  BY DEF IInv, ExecutorTypeOK
<1>2. InHand(p) \in Seq(Task)
  BY <1>0, RestOfBatch DEF InHand, IInv, ExecutorTypeOK, BatchInv
<1>3. Interrupted(p) \in Seq(Task)
  <2>1. CASE aux_buf[p] = <<>>
    BY <1>0, <2>1 DEF Interrupted
  <2>2. CASE aux_buf[p] # <<>>
    <3>1. break_point[p] <= Len(aux_buf[p])
      BY <1>1, <2>2, LenProperties DEF IInv, AuxInv
    <3> QED BY <1>1, <2>2, <3>1, RestOfBatch DEF Interrupted
  <2> QED BY <2>1, <2>2
<1> QED BY <1>1, <1>2, <1>3, ConcatProperties DEF Outstanding

\* A post appends its task to what is outstanding of its priority.
LEMMA PostOutstanding ==
  ASSUME IInv, NEW c \in Posters, NEW p \in Pri, Post(c, p), NEW q \in Pri
  PROVE  Outstanding(q)' = IF q = p THEN Append(Outstanding(q), num_posted + 1)
                                    ELSE Outstanding(q)
<1>1. InHand(q)' = InHand(q) /\ Interrupted(q)' = Interrupted(q)
  BY DEF Post, InHand, Interrupted, InLoop
<1>2. main_buf'[q] = IF q = p THEN Append(main_buf[q], num_posted + 1) ELSE main_buf[q]
  BY DEF Post, IInv, ExecutorTypeOK
<1>3. num_posted + 1 \in Task
  BY PostsAssumption DEF Post, IInv, ExecutorTypeOK, Task
<1>4. InHand(q) \o Interrupted(q) \in Seq(Task) /\ main_buf[q] \in Seq(Task)
  BY OutstandingType, ConcatProperties
<1>5. (InHand(q) \o Interrupted(q)) \o Append(main_buf[q], num_posted + 1)
        = Append(Outstanding(q), num_posted + 1)
  <2>1. PICK a \in Seq(Task) : a = InHand(q) \o Interrupted(q)
    BY <1>4
  <2>2. a \o Append(main_buf[q], num_posted + 1) = Append(a \o main_buf[q], num_posted + 1)
    <3>1. \A y, z \in Seq(Task), x \in Task : y \o Append(z, x) = Append(y \o z, x)
      BY ConcatAppend
    <3> QED BY <1>3, <1>4, <3>1, Zenon
  <2> QED BY <2>1, <2>2 DEF Outstanding
<1>6. Outstanding(q)' = (InHand(q) \o Interrupted(q)) \o main_buf'[q]
  BY <1>1 DEF Outstanding
<1>7. CASE q = p
  BY <1>2, <1>5, <1>6, <1>7
<1>8. CASE q # p
  BY <1>2, <1>6, <1>8 DEF Outstanding
<1> QED BY <1>7, <1>8

\* Running a task takes the first outstanding one of its priority.
LEMMA ExecOutstanding ==
  ASSUME IInv, Exec, NEW q \in Pri
  PROVE  /\ executing_pri \in Pri
         /\ q = executing_pri => /\ Outstanding(q) # <<>>
                                 /\ Head(Outstanding(q)) = tasks[t + 1]
         /\ Outstanding(q)' = IF q = executing_pri THEN Tail(Outstanding(q))
                                                   ELSE Outstanding(q)
<1>1. /\ executing_pri \in Pri
      /\ t \in Nat /\ t < Len(tasks)
      /\ tasks \in Seq(Task)
  BY DEF Exec, IInv, ExecutorTypeOK, BatchInv, InLoop
<1>2. Interrupted(q)' = Interrupted(q) /\ main_buf'[q] = main_buf[q]
  BY DEF Exec, Interrupted, buffers
<1>3. CASE q # executing_pri
  <2>1. InHand(q) = <<>> /\ InHand(q)' = <<>>
    BY <1>3 DEF Exec, InHand
  <2> QED BY <1>1, <1>2, <1>3, <2>1 DEF Outstanding
<1>4. CASE q = executing_pri
  <2>1. InHand(q) = SubSeq(tasks, t + 1, Len(tasks))
    BY <1>4 DEF Exec, InHand, InLoop
  <2>2. InHand(q)' = SubSeq(tasks, t + 2, Len(tasks))
    <3>1. (t + 1) + 1 = t + 2
      BY <1>1
    <3> QED BY <1>4, <3>1 DEF Exec, InHand, InLoop
  <2>3. /\ InHand(q) # <<>>
        /\ Head(InHand(q)) = tasks[t + 1]
        /\ Tail(InHand(q)) = InHand(q)'
    BY <1>1, <2>1, <2>2, RestOfBatch, LenProperties
  <2>4. /\ InHand(q) \in Seq(Task)
        /\ Interrupted(q) \in Seq(Task)
        /\ main_buf[q] \in Seq(Task)
        /\ InHand(q) \o Interrupted(q) \in Seq(Task)
    BY OutstandingType, ConcatProperties
  <2>5. /\ InHand(q) \o Interrupted(q) # <<>>
        /\ Head(InHand(q) \o Interrupted(q)) = tasks[t + 1]
        /\ Tail(InHand(q) \o Interrupted(q)) = InHand(q)' \o Interrupted(q)
    <3>1. PICK a \in Seq(Task), b \in Seq(Task) : a = InHand(q) /\ b = Interrupted(q)
      BY <2>4
    <3>2. a \o b # <<>> /\ Head(a \o b) = Head(a) /\ Tail(a \o b) = Tail(a) \o b
      BY <2>3, <3>1, ConcatHeadTail
    <3> QED BY <2>3, <3>1, <3>2
  <2>6. /\ Outstanding(q) # <<>>
        /\ Head(Outstanding(q)) = tasks[t + 1]
        /\ Tail(Outstanding(q)) = (InHand(q)' \o Interrupted(q)) \o main_buf[q]
    <3>1. PICK a \in Seq(Task), b \in Seq(Task) :
            a = InHand(q) \o Interrupted(q) /\ b = main_buf[q]
      BY <2>4
    <3>2. a \o b # <<>> /\ Head(a \o b) = Head(a) /\ Tail(a \o b) = Tail(a) \o b
      BY <2>5, <3>1, ConcatHeadTail
    <3>3. Outstanding(q) = a \o b
      BY <3>1 DEF Outstanding
    <3> QED BY <2>5, <3>1, <3>2, <3>3
  <2> QED BY <1>1, <1>2, <1>4, <2>6 DEF Outstanding
<1> QED BY <1>3, <1>4

\* Taking, handing back and finishing a batch leave what is outstanding alone.
LEMMA TakeOutstanding ==
  ASSUME IInv, Take, NEW q \in Pri
  PROVE  Outstanding(q)' = Outstanding(q)
<1>0. <<>> \in Seq(Task)
  BY EmptySeq
<1>1. PICK p \in Pri :
           /\ executing_pri' = p
           /\ \/ /\ aux_buf[p] # <<>>
                 /\ tasks' = aux_buf[p]
                 /\ t' = break_point[p]
                 /\ aux_buf' = [aux_buf EXCEPT ![p] = <<>>]
                 /\ main_buf' = main_buf
              \/ /\ aux_buf[p] = <<>>
                 /\ tasks' = main_buf[p]
                 /\ t' = 0
                 /\ main_buf' = [main_buf EXCEPT ![p] = <<>>]
                 /\ aux_buf' = aux_buf
  BY TakeEffect
<1>2. worker = "lock" /\ worker' = "loop" /\ break_point' = break_point
  BY DEF Take
<1>3. InHand(q) = <<>>
  BY <1>2 DEF InHand, InLoop
<1>4. /\ Interrupted(q) \in Seq(Task)
      /\ main_buf[q] \in Seq(Task)
      /\ aux_buf \in [Pri -> Seq(Task)]
      /\ main_buf \in [Pri -> Seq(Task)]
  BY OutstandingType DEF IInv, ExecutorTypeOK
<1>5. Outstanding(q) = Interrupted(q) \o main_buf[q]
  BY <1>3, <1>4, ConcatEmptySeq DEF Outstanding
<1>6. CASE q # p
  <2>1. InHand(q)' = <<>>
    BY <1>1, <1>6 DEF InHand
  <2>2. aux_buf'[q] = aux_buf[q] /\ main_buf'[q] = main_buf[q]
    BY <1>1, <1>4, <1>6
  <2>3. Interrupted(q)' = Interrupted(q)
    BY <1>2, <2>2 DEF Interrupted
  <2> QED BY <1>3, <2>1, <2>2, <2>3 DEF Outstanding
<1>7. CASE q = p /\ aux_buf[p] # <<>>
  <2>1. tasks' = aux_buf[q] /\ t' = break_point[q] /\ aux_buf'[q] = <<>> /\ main_buf'[q] = main_buf[q]
    BY <1>1, <1>4, <1>7
  <2>2. InHand(q)' = Interrupted(q)
    BY <1>1, <1>2, <1>7, <2>1 DEF InHand, Interrupted, InLoop
  <2>3. Interrupted(q)' = <<>>
    BY <2>1 DEF Interrupted
  <2>4. Outstanding(q)' = (Interrupted(q) \o <<>>) \o main_buf[q]
    BY <2>1, <2>2, <2>3 DEF Outstanding
  <2> QED BY <1>4, <1>5, <2>4, ConcatEmptySeq
<1>8. CASE q = p /\ aux_buf[p] = <<>>
  <2>1. tasks' = main_buf[q] /\ t' = 0 /\ aux_buf'[q] = <<>> /\ main_buf'[q] = <<>>
    BY <1>1, <1>4, <1>8
  <2>2. InHand(q)' = SubSeq(main_buf[q], 0 + 1, Len(main_buf[q]))
    BY <1>1, <1>2, <1>8, <2>1 DEF InHand, InLoop
  <2>3. InHand(q)' = main_buf[q]
    BY <1>4, <2>2, SubSeqFull
  <2>4. Interrupted(q)' = <<>> /\ Interrupted(q) = <<>>
    BY <1>8, <2>1 DEF Interrupted
  <2>5. Outstanding(q)' = (main_buf[q] \o <<>>) \o <<>>
    BY <2>1, <2>3, <2>4 DEF Outstanding
  <2> QED BY <1>4, <1>5, <2>4, <2>5, ConcatEmptySeq
<1> QED BY <1>6, <1>7, <1>8

\* Handing the rest of the batch back to aux_buf keeps every priority's tasks
\* and their order (mqtt_executor.c:79-84).
LEMMA SaveOutstanding ==
  ASSUME IInv, Save, NEW q \in Pri
  PROVE  Outstanding(q)' = Outstanding(q)
<1>1. /\ executing_pri \in Pri
      /\ t \in Nat /\ t < Len(tasks)
      /\ tasks \in Seq(Task)
      /\ aux_buf[executing_pri] = <<>>
      /\ aux_buf \in [Pri -> Seq(Task)]
      /\ break_point \in [Pri -> Nat]
      /\ main_buf' = main_buf
      /\ worker = "save" /\ worker' = "lock"
      /\ aux_buf' = [aux_buf EXCEPT ![executing_pri] = tasks]
      /\ break_point' = [break_point EXCEPT ![executing_pri] = t]
  BY DEF Save, HandBack, IInv, ExecutorTypeOK, BatchInv, InLoop
<1>2. InHand(q)' = <<>>
  BY <1>1 DEF InHand, InLoop
<1>3. CASE q # executing_pri
  <2>1. InHand(q) = <<>>
    BY <1>3 DEF InHand
  <2>2. Interrupted(q)' = Interrupted(q)
    <3>1. aux_buf'[q] = aux_buf[q] /\ break_point'[q] = break_point[q]
      BY <1>1, <1>3
    <3> QED BY <3>1 DEF Interrupted
  <2> QED BY <1>1, <1>2, <2>1, <2>2 DEF Outstanding
<1>4. CASE q = executing_pri
  <2>1. InHand(q) = SubSeq(tasks, t + 1, Len(tasks)) /\ Interrupted(q) = <<>>
    BY <1>1, <1>4 DEF InHand, InLoop, Interrupted
  <2>2. tasks # <<>>
    BY <1>1, EmptySeq
  <2>3. Interrupted(q)' = SubSeq(tasks, t + 1, Len(tasks))
    <3>1. aux_buf'[q] = tasks /\ break_point'[q] = t
      BY <1>1, <1>4
    <3> QED BY <2>2, <3>1 DEF Interrupted
  <2>4. InHand(q) \in Seq(Task)
    BY OutstandingType
  <2>5. InHand(q) \o <<>> = <<>> \o InHand(q)
    BY <2>4, ConcatEmptySeq
  <2> QED BY <1>1, <1>2, <2>1, <2>3, <2>5 DEF Outstanding
<1> QED BY <1>3, <1>4

\* A finished batch leaves nothing behind (mqtt_executor.c:75, 89).
LEMMA EndBatchOutstanding ==
  ASSUME IInv, EndBatch, NEW q \in Pri
  PROVE  Outstanding(q)' = Outstanding(q)
<1>1. tasks \in Seq(Task) /\ t \in Nat /\ t = Len(tasks)
  BY DEF EndBatch, IInv, ExecutorTypeOK
<1>2. SubSeq(tasks, t + 1, Len(tasks)) = <<>>
  BY <1>1, RestOfBatch
<1>3. InHand(q) = <<>> /\ InHand(q)' = <<>>
  BY <1>2 DEF EndBatch, InHand, InLoop
<1> QED BY <1>3 DEF EndBatch, Outstanding, Interrupted, buffers

\* The other steps change neither buffers nor histories.
LEMMA IdleOutstanding ==
  ASSUME \/ \E c \in Posters : Signal(c)
         \/ SpuriousWakeup \/ Wait \/ CheckPreempt
         \/ UNCHANGED executorVars,
         NEW q \in Pri
  PROVE  Outstanding(q)' = Outstanding(q) /\ posted' = posted /\ executed' = executed
<1>1. CASE \E c \in Posters : Signal(c)
  BY <1>1 DEF Signal, Outstanding, InHand, Interrupted, InLoop, buffers, history
<1>2. CASE SpuriousWakeup \/ Wait
  BY <1>2 DEF SpuriousWakeup, Wait, Outstanding, InHand, Interrupted, InLoop, buffers, history
<1>3. CASE CheckPreempt
  BY <1>3 DEF CheckPreempt, Outstanding, InHand, Interrupted, InLoop, buffers, history
<1>4. CASE UNCHANGED executorVars
  BY <1>4 DEF executorVars, Outstanding, InHand, Interrupted, InLoop
<1> QED BY <1>1, <1>2, <1>3, <1>4

\* The FIFO relation between what was posted, run and is outstanding is
\* preserved by every step.
LEMMA FifoStep == IInv /\ FifoPerPriority /\ [ExecutorNext]_executorVars => FifoPerPriority'
<1> SUFFICES ASSUME IInv, FifoPerPriority, [ExecutorNext]_executorVars, NEW q \in Pri
             PROVE  posted'[q] = executed'[q] \o Outstanding(q)'
  BY DEF FifoPerPriority
<1>1. /\ posted[q] = executed[q] \o Outstanding(q)
      /\ Outstanding(q) \in Seq(Task)
      /\ executed[q] \in Seq(Task)
      /\ posted \in [Pri -> Seq(Task)]
      /\ executed \in [Pri -> Seq(Task)]
  BY OutstandingType DEF FifoPerPriority, IInv, ExecutorTypeOK
<1>2. ASSUME NEW c \in Posters, NEW p \in Pri, Post(c, p)
      PROVE  posted'[q] = executed'[q] \o Outstanding(q)'
  <2>1. executed' = executed /\ posted' = [posted EXCEPT ![p] = Append(@, num_posted + 1)]
    BY <1>2 DEF Post
  <2>2. num_posted + 1 \in Task
    BY <1>2, PostsAssumption DEF Post, IInv, ExecutorTypeOK, Task
  <2>3. CASE q = p
    <3>1. Outstanding(q)' = Append(Outstanding(q), num_posted + 1)
      BY <1>2, <2>3, PostOutstanding
    <3>2. PICK o \in Seq(Task) : o = Outstanding(q)
      BY <1>1
    <3>3. executed[q] \o Append(o, num_posted + 1) = Append(executed[q] \o o, num_posted + 1)
      BY <1>1, <2>2, ConcatAppend
    <3> QED BY <1>1, <2>1, <2>3, <3>1, <3>2, <3>3
  <2>4. CASE q # p
    BY <1>1, <1>2, <2>1, <2>4, PostOutstanding
  <2> QED BY <2>3, <2>4
<1>3. CASE Exec
  <2>1. executed' = [executed EXCEPT ![executing_pri] = Append(@, tasks[t + 1])] /\ posted' = posted
    BY <1>3 DEF Exec
  <2>2. CASE q # executing_pri
    BY <1>1, <1>3, <2>1, <2>2, ExecOutstanding
  <2>3. CASE q = executing_pri
    <3>1. PICK o \in Seq(Task) : o = Outstanding(q)
      BY <1>1
    <3>2. o # <<>> /\ Head(o) = tasks[t + 1] /\ Outstanding(q)' = Tail(o)
      BY <1>3, <2>3, <3>1, ExecOutstanding
    <3>3. Head(o) \in Task /\ Tail(o) \in Seq(Task) /\ o = <<Head(o)>> \o Tail(o)
      BY <3>2, HeadTailProperties
    <3>4. executed'[q] = executed[q] \o <<Head(o)>>
      BY <1>1, <2>1, <2>3, <3>2, <3>3, AppendIsConcat
    <3>5. (executed[q] \o <<Head(o)>>) \o Tail(o) = executed[q] \o (<<Head(o)>> \o Tail(o))
      <4>1. <<Head(o)>> \in Seq(Task)
        BY <3>3
      <4>2. \A x, y, z \in Seq(Task) : (x \o y) \o z = x \o (y \o z)
        BY ConcatAssociative
      <4> QED BY <1>1, <3>3, <4>1, <4>2, Zenon
    <3>6. posted'[q] = executed[q] \o (<<Head(o)>> \o Tail(o))
      BY <1>1, <2>1, <3>1, <3>3, Zenon
    <3>7. posted'[q] = executed'[q] \o Tail(o)
      BY <3>4, <3>5, <3>6, Zenon
    <3> QED BY <3>2, <3>7, Zenon
  <2> QED BY <2>2, <2>3
<1>4. CASE Take
  BY <1>1, <1>4, TakeOutstanding DEF Take, history
<1>5. CASE Save
  BY <1>1, <1>5, SaveOutstanding DEF Save, HandBack, history
<1>6. CASE EndBatch
  BY <1>1, <1>6, EndBatchOutstanding DEF EndBatch, history
<1>7. CASE \/ \E c \in Posters : Signal(c)
           \/ SpuriousWakeup \/ Wait \/ CheckPreempt
           \/ UNCHANGED executorVars
  BY <1>1, <1>7, IdleOutstanding
<1> QED BY <1>2, <1>3, <1>4, <1>5, <1>6, <1>7 DEF ExecutorNext, Worker

\* Initially nothing is outstanding.
LEMMA OutstandingInit ==
  ASSUME ExecutorInit, NEW q \in Pri
  PROVE  Outstanding(q) = <<>> /\ posted[q] = <<>> /\ executed[q] = <<>>
<1>1. InHand(q) = <<>> /\ Interrupted(q) = <<>> /\ main_buf[q] = <<>>
  BY DEF ExecutorInit, InHand, Interrupted, InLoop
<1>2. (<<>> \o <<>>) \o <<>> = <<>>
  BY EmptySeq, ConcatEmptySeq
<1> QED BY <1>1, <1>2 DEF ExecutorInit, Outstanding

\* Every priority is served in order, without loss or duplication, in spite of
\* preemption (thread_routine_'s hand-over of aux_buf and break_point).
THEOREM Fifo == ExecutorSpec => []FifoPerPriority
<1>1. ExecutorInit => FifoPerPriority
  <2>1. <<>> \o <<>> = <<>>
    BY EmptySeq, ConcatEmptySeq
  <2> QED BY <2>1, OutstandingInit DEF FifoPerPriority
<1> QED BY <1>1, FifoStep, Invariance, PTL DEF ExecutorSpec

\* A waiting thread with work to do will be signalled: tmq_executor_post's
\* signal after the unlock is never too early.
THEOREM WakeupsNotLost == ExecutorSpec => []NoLostWakeup
<1>1. IInv => NoLostWakeup
  BY DEF IInv
<1> QED BY <1>1, Invariance, PTL

\* No task is started while one of a higher priority was waiting at the check
\* of preempt.
THEOREM Priorities == ExecutorSpec => PriorityRespected
<1>1. ASSUME IInv, [ExecutorNext]_executorVars, worker = "loop", worker' = "exec", NEW q \in Pri, q > executing_pri
      PROVE  ~ Ready(q)
  <2>1. CheckPreempt
    BY <1>1 DEF ExecutorNext, Worker, Post, Signal, SpuriousWakeup, Wait, Take, Save, HandBack, Exec, EndBatch, executorVars
  <2>2. ~ preempt
    BY <1>1, <2>1 DEF CheckPreempt
  <2> QED BY <1>1, <2>2 DEF IInv, PreemptInv, InLoop
<1>2. IInv /\ [ExecutorNext]_executorVars =>
        [worker = "loop" /\ worker' = "exec" => \A q \in Pri : q > executing_pri => ~ Ready(q)]_executorVars
  BY <1>1
<1> QED BY <1>2, Invariance, PTL DEF ExecutorSpec, PriorityRespected
-----------------------------------------------------------------------------
(* The count of the waiting tasks.                                         *)

\* The places that w waiting tasks per priority take.
Places(w) == UNION {{p} \X (1 .. w[p]) : p \in Pri}

waiting == [p \in Pri |-> Waiting(p)]

CountInv == IsFiniteSet(Places(waiting)) /\ task_total = Cardinality(Places(waiting))

LEMMA RowCount ==
  ASSUME NEW p, NEW n \in Nat
  PROVE  IsFiniteSet({p} \X (1 .. n)) /\ Cardinality({p} \X (1 .. n)) = n
<1> DEFINE I == 1 .. n
           R == {p} \X I
           f == [i \in I |-> <<p, i>>]
<1>1. IsFiniteSet(I) /\ Cardinality(I) = n
  BY FS_Interval
<1>2. f \in Bijection(I, R)
  <2>1. f \in [I -> R]
    OBVIOUS
  <2>2. \A i, j \in I : f[i] = f[j] => i = j
    OBVIOUS
  <2>3. \A r \in R : \E i \in I : f[i] = r
    <3> SUFFICES ASSUME NEW r \in R PROVE \E i \in I : f[i] = r
      OBVIOUS
    <3>1. PICK i \in I : r = <<p, i>>
      OBVIOUS
    <3> QED BY <3>1
  <2> HIDE DEF I, R, f
  <2> QED BY <2>1, <2>2, <2>3, Fun_IsBij
<1> HIDE DEF I, R, f
<1>3. ExistsBijection(I, R)
  BY <1>2 DEF ExistsBijection
<1>4. IsFiniteSet(R) /\ Cardinality(R) = n
  BY <1>1, <1>3, FS_Bijection
<1> QED BY <1>4 DEF R, I

\* When the waiting tasks of one priority change, so does their number.
LEMMA PlacesChange ==
  ASSUME NEW w \in [Pri -> Nat], NEW v \in [Pri -> Nat], NEW p \in Pri,
         \A q \in Pri : q # p => v[q] = w[q], IsFiniteSet(Places(w))
  PROVE  /\ IsFiniteSet(Places(v))
         /\ Cardinality(Places(v)) = (Cardinality(Places(w)) - w[p]) + v[p]
<1> DEFINE Rest == UNION {{q} \X (1 .. w[q]) : q \in Pri \ {p}}
           Old == {p} \X (1 .. w[p])
           New == {p} \X (1 .. v[p])
<1>1. Places(w) = Rest \cup Old
  BY DEF Places
<1>2. Places(v) = Rest \cup New
  BY DEF Places
<1>3. Rest \cap Old = {} /\ Rest \cap New = {}
  OBVIOUS
<1>4. IsFiniteSet(Old) /\ Cardinality(Old) = w[p] /\ IsFiniteSet(New) /\ Cardinality(New) = v[p]
  <2>1. w[p] \in Nat /\ v[p] \in Nat
    OBVIOUS
  <2> QED BY <2>1, RowCount
<1> HIDE DEF Rest, Old, New
<1>5. IsFiniteSet(Rest)
  <2>1. Rest \in SUBSET Places(w)
    BY <1>1
  <2> QED BY <2>1, FS_Subset
<1>6. Cardinality(Rest) \in Nat /\ Cardinality({}) = 0
  BY <1>5, FS_CardinalityType, FS_EmptySet
<1>7. Cardinality(Rest \cup Old) = Cardinality(Rest) + Cardinality(Old) - Cardinality({})
  BY <1>3, <1>4, <1>5, FS_Union
<1>8. /\ Cardinality(Rest \cup New) = Cardinality(Rest) + Cardinality(New) - Cardinality({})
      /\ IsFiniteSet(Rest \cup New)
  BY <1>3, <1>4, <1>5, FS_Union
<1>9. w[p] \in Nat /\ v[p] \in Nat
  OBVIOUS
<1>10. Cardinality(Places(w)) = Cardinality(Rest) + w[p]
  BY <1>1, <1>4, <1>6, <1>7, <1>9
<1>11. Cardinality(Places(v)) = Cardinality(Rest) + v[p]
  BY <1>2, <1>4, <1>6, <1>8, <1>9
<1>12. Cardinality(Places(v)) = (Cardinality(Places(w)) - w[p]) + v[p]
  BY <1>6, <1>9, <1>10, <1>11
<1> QED BY <1>2, <1>8, <1>12

\* The length of what is left of an interrupted batch.
LEMMA LeftLen ==
  ASSUME NEW b \in Seq(Task), NEW k \in Nat, b # <<>> => k < Len(b)
  PROVE  LET rest == IF b = <<>> THEN <<>> ELSE SubSeq(b, k + 1, Len(b))
         IN Len(rest) \in Nat /\ Len(rest) = IF b = <<>> THEN 0 ELSE Len(b) - k
<1>1. CASE b = <<>>
  BY <1>1
<1>2. CASE b # <<>>
  <2>1. Len(b) \in Nat /\ k < Len(b)
    BY <1>2, LenProperties
  <2>2. \A i \in k + 1 .. Len(b) : b[i] \in Task
    BY <2>1, ElementOfSeq
  <2>3. Len(SubSeq(b, k + 1, Len(b))) = Len(b) - k
    BY <2>1, <2>2, SubSeqProperties
  <2> QED BY <1>2, <2>1, <2>3
<1> QED BY <1>1, <1>2

LEMMA WaitingLen ==
  ASSUME IInv, NEW q \in Pri
  PROVE  /\ Waiting(q) = (IF aux_buf[q] = <<>> THEN 0 ELSE Len(aux_buf[q]) - break_point[q])
                           + Len(main_buf[q])
         /\ Waiting(q) \in Nat /\ Len(main_buf[q]) \in Nat
<1>1. /\ aux_buf[q] \in Seq(Task) /\ main_buf[q] \in Seq(Task) /\ break_point[q] \in Nat
      /\ aux_buf[q] # <<>> => break_point[q] < Len(aux_buf[q])
  BY DEF IInv, ExecutorTypeOK, AuxInv
<1>2. Len(Interrupted(q)) \in Nat /\ Len(Interrupted(q))
        = IF aux_buf[q] = <<>> THEN 0 ELSE Len(aux_buf[q]) - break_point[q]
  BY <1>1, LeftLen DEF Interrupted
<1>3. Len(main_buf[q]) \in Nat
  BY <1>1, LenProperties
<1> QED BY <1>2, <1>3 DEF Waiting

\* One priority changes by d waiting tasks, and task_total by as much.
LEMMA CountChange ==
  ASSUME IInv, CountInv, NEW p \in Pri, NEW d \in Int,
         \A q \in Pri : q # p => Waiting(q)' = Waiting(q),
         Waiting(p)' = Waiting(p) + d, Waiting(p)' \in Nat,
         task_total' = task_total + d
  PROVE  CountInv'
<1>1. \A q \in Pri : Waiting(q) \in Nat
  BY WaitingLen
<1>2. waiting \in [Pri -> Nat]
  BY <1>1 DEF waiting
<1>3. \A q \in Pri : Waiting(q)' \in Nat
  BY <1>1
<1>4. PICK v : v = waiting'
  OBVIOUS
<1>5. v = [q \in Pri |-> Waiting(q)']
  BY <1>4 DEF waiting
<1>6. v \in [Pri -> Nat] /\ v[p] = Waiting(p)' /\ \A q \in Pri : v[q] = Waiting(q)'
  BY <1>3, <1>5
<1>7. PICK w : w = waiting
  OBVIOUS
<1>8. w \in [Pri -> Nat] /\ w[p] = Waiting(p) /\ \A q \in Pri : w[q] = Waiting(q)
  BY <1>2, <1>7 DEF waiting
<1>9. /\ IsFiniteSet(Places(v))
      /\ Cardinality(Places(v)) = (Cardinality(Places(w)) - w[p]) + v[p]
  <2>1. IsFiniteSet(Places(w))
    BY <1>7 DEF CountInv
  <2>2. \A q \in Pri : q # p => v[q] = w[q]
    BY <1>6, <1>8
  <2>3. v \in [Pri -> Nat] /\ w \in [Pri -> Nat]
    BY <1>6, <1>8
  <2> QED BY <2>1, <2>2, <2>3, PlacesChange
<1>10. task_total = Cardinality(Places(w)) /\ Cardinality(Places(w)) \in Nat
  BY <1>7, FS_CardinalityType DEF CountInv
<1>11. task_total' = Cardinality(Places(v))
  <2>1. v[p] = w[p] + d /\ w[p] \in Nat
    BY <1>1, <1>6, <1>8
  <2> QED BY <1>9, <1>10, <2>1
<1>12. Places(v) = Places(waiting)'
  BY <1>4 DEF Places
<1> QED BY <1>9, <1>11, <1>12 DEF CountInv

LEMMA CountSame ==
  ASSUME CountInv, UNCHANGED <<buffers, task_total>>
  PROVE  CountInv'
<1>1. waiting' = waiting
  BY DEF waiting, Waiting, Interrupted, buffers
<1>2. Places(waiting)' = Places(waiting)
  BY <1>1 DEF Places
<1> QED BY <1>2 DEF CountInv

LEMMA CountStep == IInv /\ IInv' /\ CountInv /\ [ExecutorNext]_executorVars => CountInv'
<1> SUFFICES ASSUME IInv, IInv', CountInv, [ExecutorNext]_executorVars PROVE CountInv'
  OBVIOUS
<1>0. /\ \A q \in Pri : aux_buf[q] \in Seq(Task) /\ main_buf[q] \in Seq(Task)
      /\ \A q \in Pri : break_point[q] \in Nat
      /\ \A q \in Pri : aux_buf[q] # <<>> => break_point[q] < Len(aux_buf[q])
      /\ tasks \in Seq(Task) /\ t \in Nat /\ task_total \in Int
      /\ DOMAIN aux_buf = Pri /\ DOMAIN main_buf = Pri /\ DOMAIN break_point = Pri
  BY DEF IInv, ExecutorTypeOK, AuxInv
<1>w. \A q \in Pri :
        /\ Waiting(q) = (IF aux_buf[q] = <<>> THEN 0 ELSE Len(aux_buf[q]) - break_point[q])
                          + Len(main_buf[q])
        /\ Waiting(q) \in Nat /\ Len(main_buf[q]) \in Nat
  BY WaitingLen
<1>1. ASSUME NEW c \in Posters, NEW p \in Pri, Post(c, p) PROVE CountInv'
  <2>1. /\ main_buf' = [main_buf EXCEPT ![p] = Append(main_buf[p], num_posted + 1)]
        /\ task_total' = task_total + 1 /\ UNCHANGED <<aux_buf, break_point>>
    BY <1>1 DEF Post
  <2>2. \A q \in Pri : Interrupted(q)' = Interrupted(q)
    BY <2>1 DEF Interrupted
  <2>3. \A q \in Pri : q # p => Waiting(q)' = Waiting(q)
    BY <1>0, <2>1, <2>2 DEF Waiting
  <2>4. Len(main_buf'[p]) = Len(main_buf[p]) + 1
    <3>1. num_posted + 1 \in Task
      BY <1>1, PostsAssumption DEF Post, IInv, ExecutorTypeOK, Task
    <3>2. main_buf'[p] = Append(main_buf[p], num_posted + 1)
      BY <1>0, <2>1
    <3> QED BY <1>0, <3>1, <3>2, AppendProperties
  <2>5. Waiting(p)' = Waiting(p) + 1
    <3>1. Len(Interrupted(p)) \in Nat
      <4>1. /\ aux_buf[p] \in Seq(Task) /\ break_point[p] \in Nat
            /\ aux_buf[p] # <<>> => break_point[p] < Len(aux_buf[p])
        BY <1>0
      <4> QED BY <4>1, LeftLen DEF Interrupted
    <3>2. Waiting(p)' = Len(Interrupted(p)) + Len(main_buf'[p])
      BY <2>2 DEF Waiting
    <3> QED BY <1>w, <2>4, <3>1, <3>2 DEF Waiting
  <2>6. Waiting(p)' \in Nat
    BY <1>w, <2>5
  <2> QED BY <2>1, <2>3, <2>5, <2>6, CountChange
<1>2. CASE Take
  <2>1. PICK p \in Pri :
           \/ /\ aux_buf[p] # <<>>
              /\ tasks' = aux_buf[p]
              /\ t' = break_point[p]
              /\ aux_buf' = [aux_buf EXCEPT ![p] = <<>>]
              /\ main_buf' = main_buf
           \/ /\ aux_buf[p] = <<>>
              /\ tasks' = main_buf[p]
              /\ t' = 0
              /\ main_buf' = [main_buf EXCEPT ![p] = <<>>]
              /\ aux_buf' = aux_buf
    BY <1>2, TakeEffect
  <2>2. break_point' = break_point /\ task_total' = task_total - (Len(tasks') - t')
    BY <1>2 DEF Take
  <2>3. \A q \in Pri : q # p => aux_buf'[q] = aux_buf[q] /\ main_buf'[q] = main_buf[q]
    BY <1>0, <2>1
  <2>4. \A q \in Pri : q # p => Waiting(q)' = Waiting(q)
    BY <2>2, <2>3 DEF Waiting, Interrupted
  <2>5. Len(<<>>) = 0 /\ Len(aux_buf[p]) \in Nat
    BY <1>0, LenProperties
  <2>6. Interrupted(p)' = <<>> /\ Waiting(p)' = 0 + Len(main_buf'[p])
    <3>1. aux_buf'[p] = <<>>
      BY <1>0, <2>1
    <3>2. Interrupted(p)' = <<>>
      BY <3>1 DEF Interrupted
    <3> QED BY <2>5, <3>2 DEF Waiting
  <2> DEFINE d == 0 - (Len(tasks') - t')
  <2>7. Waiting(p)' = Waiting(p) + d /\ Waiting(p)' \in Nat /\ d \in Int
    <3>1. CASE /\ aux_buf[p] # <<>>
               /\ tasks' = aux_buf[p]
               /\ t' = break_point[p]
               /\ main_buf' = main_buf
      <4>1. d = 0 - (Len(aux_buf[p]) - break_point[p])
        BY <3>1
      <4>2. break_point[p] \in Nat /\ Len(main_buf'[p]) = Len(main_buf[p])
        BY <1>0, <3>1
      <4>3. Waiting(p) = (Len(aux_buf[p]) - break_point[p]) + Len(main_buf[p]) /\ Len(main_buf[p]) \in Nat
        BY <1>w, <3>1
      <4>4. PICK n \in Int : n = Len(aux_buf[p]) - break_point[p]
        BY <2>5, <4>2
      <4>5. PICK m \in Nat : m = Len(main_buf[p])
        BY <4>3
      <4>6. d = 0 - n /\ Waiting(p)' = 0 + m /\ Waiting(p) = n + m
        BY <2>6, <4>1, <4>2, <4>3, <4>4, <4>5
      <4> HIDE DEF d
      <4> QED BY <4>6
    <3>2. CASE /\ aux_buf[p] = <<>>
               /\ tasks' = main_buf[p]
               /\ t' = 0
               /\ main_buf' = [main_buf EXCEPT ![p] = <<>>]
      <4>1. d = 0 - (Len(main_buf[p]) - 0)
        BY <3>2
      <4>2. Len(main_buf'[p]) = 0
        BY <1>0, <2>5, <3>2
      <4>3. Waiting(p) = 0 + Len(main_buf[p]) /\ Len(main_buf[p]) \in Nat
        BY <1>w, <3>2
      <4> QED BY <2>6, <4>1, <4>2, <4>3
    <3> QED BY <2>1, <3>1, <3>2
  <2>8. PICK e \in Int : e = d
    BY <2>7
  <2>9. task_total' = task_total + e
    <3>1. PICK n \in Int : n = Len(tasks') - t'
      <4>1. /\ Len(aux_buf[p]) \in Nat /\ break_point[p] \in Nat
            /\ Len(main_buf[p]) \in Nat
        BY <1>0, <1>w, <2>5
      <4>2. Len(tasks') \in Nat /\ t' \in Nat
        BY <2>1, <4>1
      <4> QED BY <4>2
    <3>2. e = 0 - n /\ task_total' = task_total - n
      BY <2>2, <2>8, <3>1
    <3> QED BY <1>0, <3>2
  <2> QED BY <2>4, <2>7, <2>8, <2>9, CountChange
<1>3. CASE Save
  <2>1. PICK e \in Pri : e = executing_pri /\ aux_buf[e] = <<>> /\ t < Len(tasks)
    BY <1>3 DEF Save, HandBack, IInv, BatchInv, InLoop
  <2>2. /\ aux_buf' = [aux_buf EXCEPT ![e] = tasks] /\ break_point' = [break_point EXCEPT ![e] = t]
        /\ main_buf' = main_buf /\ task_total' = task_total + (Len(tasks) - t)
    BY <1>3, <2>1 DEF Save, HandBack
  <2>3. \A q \in Pri : q # e => Waiting(q)' = Waiting(q)
    <3>1. \A q \in Pri : q # e => aux_buf'[q] = aux_buf[q] /\ break_point'[q] = break_point[q]
      BY <1>0, <2>2
    <3>2. \A q \in Pri : q # e => Interrupted(q)' = Interrupted(q)
      BY <3>1 DEF Interrupted
    <3> QED BY <2>2, <3>2 DEF Waiting
  <2>4. aux_buf'[e] = tasks /\ break_point'[e] = t /\ Len(tasks) \in Nat /\ tasks # <<>>
    <3>1. Len(tasks) \in Nat /\ Len(<<>>) = 0
      BY <1>0, LenProperties
    <3>2. tasks # <<>>
      BY <1>0, <2>1, <3>1
    <3> QED BY <1>0, <2>2, <3>1, <3>2
  <2>5. Len(Interrupted(e)') = Len(tasks) - t
    <3>1. Interrupted(e)' = IF tasks = <<>> THEN <<>> ELSE SubSeq(tasks, t + 1, Len(tasks))
      BY <2>4 DEF Interrupted
    <3> QED BY <1>0, <2>1, <2>4, <3>1, LeftLen
  <2>6. PICK d \in Int : d = Len(tasks) - t
    <3>1. Len(tasks) \in Nat /\ t \in Nat
      BY <1>0, <2>4
    <3> QED BY <3>1
  <2>7. Waiting(e)' = Waiting(e) + d /\ Waiting(e)' \in Nat
    <3>1. Waiting(e)' = (Len(tasks) - t) + Len(main_buf[e])
      BY <2>2, <2>5 DEF Waiting
    <3>2. Waiting(e) = 0 + Len(main_buf[e]) /\ Len(main_buf[e]) \in Nat
      BY <1>w, <2>1
    <3> QED BY <1>0, <2>1, <2>4, <2>6, <3>1, <3>2
  <2>8. task_total' = task_total + d
    BY <2>2, <2>6
  <2> QED BY <2>3, <2>6, <2>7, <2>8, CountChange
<1>4. ASSUME NEW c \in Posters, Signal(c) PROVE CountInv'
  BY <1>4, CountSame DEF Signal
<1>5. CASE SpuriousWakeup \/ Wait \/ CheckPreempt \/ Exec \/ EndBatch
  BY <1>5, CountSame DEF SpuriousWakeup, Wait, CheckPreempt, Exec, EndBatch
<1>6. CASE UNCHANGED executorVars
  BY <1>6, CountSame DEF executorVars, buffers
<1> QED BY <1>1, <1>2, <1>3, <1>4, <1>5, <1>6 DEF ExecutorNext, Worker

\* task_total is at every moment the number of tasks in the buffers, an
\* interrupted batch counted from its break point on, for any interleaving of
\* posts with batches taken, handed back and resumed (mqtt_executor.c:72, 80, 118).
THEOREM TotalExact == ExecutorSpec => []TaskTotalExact
<1>1. ExecutorInit => CountInv
  <2> SUFFICES ASSUME ExecutorInit PROVE CountInv
    OBVIOUS
  <2>1. Len(<<>>) = 0
    OBVIOUS
  <2>2. \A q \in Pri : Interrupted(q) = <<>> /\ main_buf[q] = <<>>
    BY DEF ExecutorInit, Interrupted
  <2>3. \A q \in Pri : Waiting(q) = 0
    BY <2>1, <2>2 DEF Waiting
  <2>4. \A q \in Pri : waiting[q] = 0
    BY <2>3 DEF waiting
  <2>5. Places(waiting) = {}
    BY <2>4 DEF Places
  <2> QED BY <2>5, FS_EmptySet DEF CountInv, ExecutorInit
<1>2. CountInv => TaskTotalExact
  <2> SUFFICES ASSUME CountInv PROVE TaskTotalExact
    OBVIOUS
  <2>1. Places(waiting) = UNION {{p} \X (1 .. Waiting(p)) : p \in Pri}
    BY DEF Places, waiting
  <2> QED BY <2>1 DEF CountInv, TaskTotalExact
<1> QED BY <1>1, <1>2, CountStep, Invariance, PTL DEF ExecutorSpec
-----------------------------------------------------------------------------
\* The executor implements its abstract specification, one FIFO queue per
\* priority: a post enqueues, running a task dequeues it, and every other step
\* of the thread is a stuttering step.
THEOREM Refinement == ExecutorSpec => ImplementsTaskQueues
<1> DEFINE q == [p \in Pri |-> Outstanding(p)]
<1>1. ExecutorInit => Queues!Init
  BY OutstandingInit DEF Queues!Init, ExecutorInit
<1>2. ASSUME IInv, [ExecutorNext]_executorVars PROVE [Queues!Next]_<<q, executed>>
  <2>0. executed \in [Pri -> Seq(Task)]
    BY <1>2 DEF IInv, ExecutorTypeOK
  <2>1. ASSUME NEW c \in Posters, NEW p \in Pri, Post(c, p) PROVE Queues!Next
    <3>1. num_posted + 1 \in Task /\ executed' = executed
      BY <1>2, <2>1, PostsAssumption DEF Post, IInv, ExecutorTypeOK, Task
    <3>2. \A r \in Pri : Outstanding(r)' = IF r = p THEN Append(Outstanding(r), num_posted + 1)
                                                    ELSE Outstanding(r)
      BY <1>2, <2>1, PostOutstanding
    <3>3. q' = [q EXCEPT ![p] = Append(q[p], num_posted + 1)]
      BY <3>2
    <3>4. Queues!Post(p, num_posted + 1)
      BY <3>1, <3>3 DEF Queues!Post
    <3> QED BY <3>1, <3>4 DEF Queues!Next
  <2>2. CASE Exec
    <3>1. PICK p \in Pri : p = executing_pri
      BY <1>2, <2>2, ExecOutstanding DEF IInv, BatchInv, Exec, InLoop
    <3>2. \A r \in Pri : Outstanding(r)' = IF r = p THEN Tail(Outstanding(r)) ELSE Outstanding(r)
      BY <1>2, <2>2, <3>1, ExecOutstanding
    <3>3. Outstanding(p) # <<>> /\ Head(Outstanding(p)) = tasks[t + 1]
      BY <1>2, <2>2, <3>1, ExecOutstanding
    <3>4. executed' = [executed EXCEPT ![p] = Append(@, Head(q[p]))]
      BY <2>2, <3>1, <3>3 DEF Exec
    <3>5. q' = [q EXCEPT ![p] = Tail(q[p])]
      BY <3>2
    <3>6. Queues!Run(p)
      BY <3>3, <3>4, <3>5 DEF Queues!Run
    <3> QED BY <3>6 DEF Queues!Next
  <2>3. CASE Take \/ Save \/ EndBatch
    <3>1. \A r \in Pri : Outstanding(r)' = Outstanding(r)
      BY <1>2, <2>3, TakeOutstanding, SaveOutstanding, EndBatchOutstanding
    <3>2. executed' = executed
      BY <2>3 DEF Take, Save, HandBack, EndBatch, history
    <3> QED BY <3>1, <3>2
  <2>4. CASE \/ \E c \in Posters : Signal(c)
             \/ SpuriousWakeup \/ Wait \/ CheckPreempt
             \/ UNCHANGED executorVars
    <3>1. \A r \in Pri : Outstanding(r)' = Outstanding(r)
      BY <2>4, IdleOutstanding
    <3>2. executed' = executed
      BY <2>4 DEF Signal, SpuriousWakeup, Wait, CheckPreempt, executorVars, history
    <3> QED BY <3>1, <3>2
  <2> QED BY <1>2, <2>1, <2>2, <2>3, <2>4 DEF ExecutorNext, Worker
<1> QED BY <1>1, <1>2, Invariance, PTL DEF ExecutorSpec, ImplementsTaskQueues, Queues!Spec
=============================================================================
