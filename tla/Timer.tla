-------------------------------- MODULE Timer --------------------------------
(***************************************************************************)
(* The timers of an event loop (ev/mqtt_timer.c): a binary heap of timers, *)
(* ordered by their time of expiry, and one timerfd, armed for the first.  *)
(* A unit of time is the shortest timeout the timerfd is given (100 us).   *)
(* Callbacks run while expired_timers is worked off; they may add timers   *)
(* and cancel or resume any timer, also one that waits in the same list.   *)
(* The heap's memory is that of TIMER_HEAP_INITIAL_SIZE pointers, and its  *)
(* growth is wrong: a write beyond the memory is undefined, so a behaviour *)
(* ends there (overrun).                                                   *)
(***************************************************************************)
EXTENDS Integers, Sequences, SequencesExt

CONSTANTS Timers,       \* the timers in memory
          TIMER_HEAP_INITIAL_SIZE,  \* 16 in the code
          Cancelable,   \* bound: the timers that are cancelled and resumed
          Timeouts,     \* the timeouts that timers are made with
          Repeatable,   \* bound: the timeouts of timers that repeat
          MaxTime       \* bound: the clock stops

ASSUME TimerAssumption ==
  /\ MaxTime \in Nat /\ Timeouts \subseteq Nat
  /\ TIMER_HEAP_INITIAL_SIZE \in Nat

VARIABLES timer,        \* timer[t]: tmq_timer_t, NoTimer when it is free
          heap,         \* heap[1 .. size]
          overrun,      \* the heap was written beyond its memory
          expired_timers,
          called,       \* how many of them the first loop has passed, or Outside
          started,      \* `now' of the running timer_heap_timeout
          armed,        \* when the timerfd expires; None when it is disarmed
          clock

timerVars == <<timer, heap, overrun, expired_timers, called, started, armed, clock>>

None == MaxTime + 100
Outside == -1           \* timer_heap_timeout is not running
NoTimer == [expire |-> None, timeout |-> 0, repeat |-> FALSE, canceled |-> FALSE]

Registered == {t \in Timers : timer[t] # NoTimer}

\* timerfd_set_timeout.
SetTimeout(when, now) == IF when <= now THEN now + 1 ELSE when

\* heap[idx] = t.
Put(h, idx, t) == [h EXCEPT ![idx] = t]

\* timer_swim: x rises from position idx; its ancestors move down.
Swim(h, tm, x, idx) ==
  LET up[i \in 1 .. idx] ==
        IF i > 1 /\ tm[x].expire < tm[h[i \div 2]].expire
        THEN Put(up[i \div 2], i, h[i \div 2])
        ELSE Put(h, i, x)
  IN up[idx]

\* timer_sink: x falls from the top.  Mutant: the right child is never looked at.
LeftChild(h, tm, i) == 2 * i
SmallerChild(h, tm, i) ==
  IF 2 * i + 1 <= Len(h) /\ tm[h[2 * i + 1]].expire < tm[h[2 * i]].expire
  THEN 2 * i + 1 ELSE 2 * i
Sink(h, tm, x) ==
  LET down[i \in 1 .. Len(h)] ==
        IF 2 * i <= Len(h) /\ tm[h[SmallerChild(h, tm, i)]].expire < tm[x].expire
        THEN LET c == SmallerChild(h, tm, i) IN Put(down[c], i, h[c])
        ELSE Put(h, i, x)
  IN down[1]

\* The memory of the heap, in bytes, when a timer is inserted into one of this
\* size: that of tmq_timer_heap_init, or what the realloc of timer_heap_insert
\* leaves of it once size = cap, which takes the doubled capacity for bytes.  (For a
\* second realloc the heap would have to be overrun before.)
PointerSize == 8
HeapBytes(size) ==
  IF size < TIMER_HEAP_INITIAL_SIZE THEN PointerSize * TIMER_HEAP_INITIAL_SIZE + 1
  ELSE TIMER_HEAP_INITIAL_SIZE * 2 + 1

\* heap[++size] = timer of a heap that has then n timers lies in the memory: heap[0]
\* is not used.
Fits(n) == n = 0 \/ PointerSize * (n + 1) <= HeapBytes(n - 1)

\* timer_heap_insert, timer_heap_pop.
Insert(h, tm, x) == Swim(Append(h, x), tm, x, Len(h) + 1)
Pop(h, tm) ==
  LET rest == SubSeq(h, 1, Len(h) - 1)
  IN IF Len(rest) > 1 THEN Sink(rest, tm, Last(h))
     ELSE IF rest = <<>> THEN rest ELSE <<Last(h)>>

\* The loop of timer_heap_timeout that takes the expired timers off the heap.
PopExpired(h, tm, now) ==
  LET n == Len(h)
      step[i \in 0 .. n] ==
        IF i = 0 THEN [heap |-> h, expired |-> <<>>]
        ELSE LET s == step[i - 1]
             IN IF s.heap # <<>> /\ tm[s.heap[1]].expire <= now
                THEN [heap |-> Pop(s.heap, tm), expired |-> Append(s.expired, s.heap[1])]
                ELSE s
  IN step[n]

TimerInit ==
  /\ timer = [t \in Timers |-> NoTimer]
  /\ heap = <<>> /\ overrun = FALSE /\ expired_timers = <<>>
  /\ called = Outside /\ started = 0 /\ armed = None /\ clock = 0

Tick ==
  /\ clock < MaxTime
  /\ clock' = clock + 1
  /\ UNCHANGED <<timer, heap, overrun, expired_timers, called, started, armed>>

\* The loop thread is between two handlers, or in the callback of a timer.
InLoop == called # 0

\* tmq_timer_new and tmq_timer_heap_add.
Add(timeout, repeat) ==
  /\ InLoop /\ Registered # Timers
  /\ LET t == CHOOSE t \in Timers : t \notin Registered
         tm == [timer EXCEPT ![t] = [expire |-> clock + timeout, timeout |-> timeout,
                                     repeat |-> repeat, canceled |-> FALSE]]
         h == Insert(heap, tm, t)
     IN /\ timer' = tm
        /\ heap' = h /\ overrun' = ~ Fits(Len(h))
        /\ armed' = IF h[1] = t THEN SetTimeout(clock + timeout, clock) ELSE armed
  /\ UNCHANGED <<expired_timers, called, started, clock>>

\* tmq_cancel_timer, tmq_resume_timer.
SetCanceled(t, canceled) ==
  /\ InLoop /\ t \in Registered
  /\ timer' = [timer EXCEPT ![t].canceled = canceled]
  /\ UNCHANGED <<heap, overrun, expired_timers, called, started, armed, clock>>

\* timer_heap_timeout, up to its first callback.
Timeout ==
  /\ called = Outside /\ armed <= clock
  /\ armed' = None
  /\ IF heap = <<>> THEN UNCHANGED <<heap, expired_timers, called, started>>
     ELSE LET popped == PopExpired(heap, timer, clock)
          IN /\ heap' = popped.heap /\ expired_timers' = popped.expired
             /\ called' = 0 /\ started' = clock
  /\ UNCHANGED <<timer, overrun, clock>>

\* The next callback, or none if the timer is cancelled.
Call ==
  /\ called # Outside /\ called < Len(expired_timers)
  /\ called' = called + 1
  /\ UNCHANGED <<timer, heap, overrun, expired_timers, started, armed, clock>>

\* Its second loop: of the expired timers ts the repeated ones go back.
PutBack(h, tm, ts, again) ==
  LET back[i \in 0 .. Len(ts)] ==
        IF i = 0 THEN h
        ELSE IF ts[i] \in again THEN Insert(back[i - 1], tm, ts[i]) ELSE back[i - 1]
  IN back[Len(ts)]

\* The rest of timer_heap_timeout: repeated timers go back, the others are freed,
\* and the timerfd is armed again.
Requeue ==
  /\ called = Len(expired_timers)
  /\ LET expired == Range(expired_timers)
         again == {t \in expired : timer[t].repeat /\ ~ timer[t].canceled}
         tm == [t \in Timers |->
                  IF t \notin expired THEN timer[t]
                  ELSE IF t \in again THEN [timer[t] EXCEPT !.expire = started + timer[t].timeout]
                  ELSE NoTimer]
         h == PutBack(heap, tm, expired_timers, again)
     IN /\ timer' = tm
        /\ heap' = h /\ overrun' = (again # {} /\ ~ Fits(Len(h)))
        /\ armed' = IF h # <<>> THEN SetTimeout(tm[h[1]].expire, clock) ELSE armed
  /\ expired_timers' = <<>> /\ called' = Outside
  /\ UNCHANGED <<started, clock>>

TimerNext ==
  /\ ~ overrun
  /\ \/ Tick \/ Timeout \/ Call \/ Requeue
     \/ \E timeout \in Timeouts, repeat \in BOOLEAN :
          (repeat => timeout \in Repeatable) /\ Add(timeout, repeat)
     \/ \E t \in Cancelable, canceled \in BOOLEAN : SetCanceled(t, canceled)

TimerSpec == TimerInit /\ [][TimerNext]_timerVars

-----------------------------------------------------------------------------
\* Between two handlers every registered timer is in the heap once, and the
\* timerfd goes off no later than it expires, as long as the heap keeps to its
\* memory: its top is its minimum through any sequence of insertions, and no path
\* leaves the timerfd disarmed or armed for a later timer (timer_swim, timer_sink,
\* timer_heap_timeout).
TimersArmed ==
  called = Outside /\ ~ overrun =>
    \A t \in Registered :
      /\ \E i \in DOMAIN heap :
           heap[i] = t /\ \A j \in DOMAIN heap : heap[j] = t => j = i
      /\ armed <= timer[t].expire \/ armed <= clock + 1

\* The heap is never written beyond its memory: what the growth of
\* timer_heap_insert is for (mqtt_timer.c:97-105).
HeapInMemory == ~ overrun

=============================================================================
