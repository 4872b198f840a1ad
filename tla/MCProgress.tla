----------------------------- MODULE MCProgress -----------------------------
(***************************************************************************)
(* The three parts where something must go on: the logic thread with the   *)
(* threads that post to it, at the broker's two priorities, a session with *)
(* its subscriber, and the thread pool.  part says which of them a         *)
(* behaviour is about; the variables of the others keep their initial      *)
(* values.  The fairness is that of the three specifications.              *)
(***************************************************************************)
EXTENDS Executor, Delivery, ThreadPool

CONSTANTS c1, c2
MCPosters == {c1, c2}

VARIABLE part

PartsInit ==
  /\ part \in {"logic", "session", "pool"}
  /\ ExecutorInit /\ Init /\ PoolInit
  /\ part # "session" => next_packet_id = 0

\* A step of the logic thread's part, of the session's and of the thread pool's.
InLogic(A)   == part = "logic" /\ A /\ UNCHANGED <<part, vars, poolVars>>
InSession(A) == part = "session" /\ A /\ UNCHANGED <<part, executorVars, poolVars>>
InPool(A)    == part = "pool" /\ A /\ UNCHANGED <<part, executorVars, vars>>

PartsNext == InLogic(ExecutorNext) \/ InSession(Next) \/ InPool(PoolNext)

progressVars == <<part, executorVars, vars, poolVars>>

PartsFairness ==
  /\ WF_progressVars(InLogic(Worker))
  /\ \A c \in Posters : WF_progressVars(InLogic(Signal(c)))
  /\ WF_progressVars(InSession(CloseSession)) /\ WF_progressVars(InSession(ConnectComplete))
  /\ WF_progressVars(InSession(HandleBroadcast)) /\ WF_progressVars(InSession(ReceiveAck))
  /\ WF_progressVars(InSession(PeerReceivesPublish))
  /\ WF_progressVars(InSession(PeerReceivesPubrel))
  /\ \A w \in Workers : WF_progressVars(InPool(Routine(w)))
  /\ WF_progressVars(InPool(Terminate)) /\ WF_progressVars(InPool(SignalGet))

PartsSpec == PartsInit /\ [][PartsNext]_progressVars /\ PartsFairness
=============================================================================
