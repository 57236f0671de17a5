----------------------------- MODULE ServeProofs -----------------------------
(***************************************************************************)
(* Proofs about Serve, for every set of events, any number of calls of the *)
(* handler, and all capacities.                                            *)
(*                                                                         *)
(* QuietAfterReturn and NoSendOnClosed rest on ShutdownInv: what each      *)
(* deferred line has done stays done while the next ones run.  The         *)
(* refinement of Inbox rests on OnceInv: a message that a call of the      *)
(* handler has is nowhere else.  With FlowInv -- one that has left its     *)
(* call is in one place further on -- it gives InOnePlace.  StopIsHeard    *)
(* rests on StopInv: the control server was started when Serve waits for   *)
(* events, and a cancelled context stays so.                               *)
(***************************************************************************)
EXTENDS Serve, SequenceTheorems, TLAPS

Workers == [pc : {"select", "done"}, msg : {None}] \cup [pc : {"handle"}, msg : Messages]

LEMMA WorkerMembership ==
    /\ [pc |-> "select", msg |-> None] \in Workers
    /\ [pc |-> "done", msg |-> None] \in Workers
    /\ \A m \in Messages : [pc |-> "handle", msg |-> m] \in Workers
    /\ \A w \in Workers : w.pc = "handle" => w.msg \in Messages
    /\ \A w \in Workers : w.pc # "handle" => w.msg = None
  BY DEF Workers

LEMMA QueueMembership ==
    ASSUME NEW q \in Seq(Messages), Len(q) <= QueueCap
    PROVE  /\ \A m \in Messages : Append(q, m) \in Seq(Messages)
           /\ \A m \in Messages : Len(q) < QueueCap => Len(Append(q, m)) <= QueueCap
           /\ q # << >> => /\ Head(q) \in Messages /\ Tail(q) \in Seq(Messages)
                           /\ Len(Tail(q)) <= QueueCap
<1>1. Len(q) \in Nat /\ QueueCap \in Nat
  BY CapAssumption, LenProperties
<1>2. \A m \in Messages : Append(q, m) \in Seq(Messages) /\ Len(Append(q, m)) = Len(q) + 1
  BY AppendProperties
<1>3. q # << >> => /\ Head(q) \in Messages /\ Tail(q) \in Seq(Messages)
                   /\ Len(Tail(q)) = Len(q) - 1
  BY HeadTailProperties
<1> QED
  BY <1>1, <1>2, <1>3

LEMMA InitTyped == Init => TypeOK
<1> SUFFICES ASSUME Init PROVE TypeOK
  OBVIOUS
<1>1. queue \in Seq(Messages) /\ Len(queue) <= QueueCap
  BY EmptySeq, CapAssumption DEF Init
<1>2. worker \in [pc : {"select", "done"}, msg : {None}] \cup [pc : {"handle"}, msg : Messages]
  BY WorkerMembership DEF Init, Workers
<1>3. sync \in [Syncs -> SyncPCs] /\ results \in 0..ResultCap
  BY CapAssumption DEF Init, SyncPCs
<1>4. call \in [Calls -> Events \cup {None}] /\ phase \in Phases
  BY DEF Init, Phases
<1>5. /\ signalled \in BOOLEAN /\ cancelled \in BOOLEAN /\ online \in BOOLEAN
      /\ registered \in BOOLEAN /\ syncClosed \in BOOLEAN
      /\ resultsClosed \in BOOLEAN /\ failed \in BOOLEAN
  BY DEF Init
<1>6. /\ connected \in 0..1 /\ fatal \in 0..1
      /\ server \in {"off", "up", "closing", "closed"}
      /\ delivered \subseteq Events /\ handled \subseteq Messages /\ refused \subseteq Messages
  BY DEF Init
<1> QED
  BY <1>1, <1>2, <1>3, <1>4, <1>5, <1>6 DEF TypeOK

LEMMA StepTyped == TypeOK /\ [Next]_vars => TypeOK'
<1> SUFFICES ASSUME TypeOK, [Next]_vars PROVE TypeOK'
  OBVIOUS
<1>w. worker \in Workers /\ (worker' \in Workers => worker' \in [pc : {"select", "done"}, msg : {None}] \cup [pc : {"handle"}, msg : Messages])
  BY DEF TypeOK, Workers
<1>q. queue \in Seq(Messages) /\ Len(queue) <= QueueCap
  BY DEF TypeOK
<1>p. phase \in Phases
  BY DEF TypeOK
<1>t. /\ signalled \in BOOLEAN /\ cancelled \in BOOLEAN /\ online \in BOOLEAN
      /\ registered \in BOOLEAN /\ connected \in 0..1 /\ fatal \in 0..1
      /\ syncClosed \in BOOLEAN /\ sync \in [Syncs -> SyncPCs]
      /\ results \in 0..ResultCap /\ resultsClosed \in BOOLEAN
      /\ server \in {"off", "up", "closing", "closed"}
      /\ call \in [Calls -> Events \cup {None}] /\ delivered \subseteq Events
      /\ handled \subseteq Messages /\ refused \subseteq Messages /\ failed \in BOOLEAN
  BY DEF TypeOK
<1>1. CASE Signal
  BY <1>1, <1>w, <1>q, <1>p, <1>t DEF Signal, TypeOK, client, queueing, syncing
<1>2. CASE ChangeConnection
  BY <1>2, <1>w, <1>q, <1>p, <1>t DEF ChangeConnection, TypeOK, client, queueing, syncing
<1>3. ASSUME NEW k \in Calls, NEW e \in Events, Deliver(k, e) PROVE TypeOK'
  BY <1>3, <1>w, <1>q, <1>p, <1>t DEF Deliver, TypeOK, client, queueing, syncing
<1>4. ASSUME NEW k \in Calls, HandleConnected(k) PROVE TypeOK'
  BY <1>4, <1>w, <1>q, <1>p, <1>t DEF HandleConnected, TypeOK, Return, client, queueing, syncing
<1>5. ASSUME NEW k \in Calls, HandleFatal(k) PROVE TypeOK'
  BY <1>5, <1>w, <1>q, <1>p, <1>t DEF HandleFatal, TypeOK, Return, client, queueing, syncing
<1>6. ASSUME NEW k \in Calls, HandleMessage(k) PROVE TypeOK'
  <2>1. queue' \in Seq(Messages) /\ Len(queue') <= QueueCap
    BY <1>6, <1>q, QueueMembership DEF HandleMessage
  <2>2. call' \in [Calls -> Events \cup {None}] /\ refused' \subseteq Messages
    BY <1>6, <1>t DEF HandleMessage, Return
  <2> QED
    BY <1>6, <1>w, <1>p, <1>t, <2>1, <2>2 DEF HandleMessage, TypeOK, client, syncing
<1>7. ASSUME NEW k \in Calls, HandleSync(k) PROVE TypeOK'
  BY <1>7, <1>w, <1>q, <1>p, <1>t DEF HandleSync, TypeOK, StartSync, SyncPCs, Return, client, queueing, syncing
<1>8. CASE TakeMessage
  <2>1. queue' \in Seq(Messages) /\ Len(queue') <= QueueCap /\ worker' \in Workers
    BY <1>8, <1>q, QueueMembership, WorkerMembership DEF TakeMessage
  <2> QED
    BY <1>8, <1>w, <1>p, <1>t, <2>1 DEF TakeMessage, TypeOK, client, syncing
<1>9. CASE FinishMessage
  <2>1. worker' \in Workers /\ handled' \subseteq Messages
    BY <1>9, <1>w, <1>t, WorkerMembership DEF FinishMessage
  <2> QED
    BY <1>9, <1>w, <1>q, <1>p, <1>t, <2>1 DEF FinishMessage, TypeOK, client, syncing
<1>10. CASE StopWorker
  <2>1. worker' \in Workers
    BY <1>10, WorkerMembership DEF StopWorker
  <2> QED
    BY <1>10, <1>w, <1>q, <1>p, <1>t, <2>1 DEF StopWorker, TypeOK, client, syncing
<1>11. ASSUME NEW s \in Syncs, NextInSync(s) PROVE TypeOK'
  BY <1>11, <1>w, <1>q, <1>p, <1>t DEF NextInSync, TypeOK, SyncPCs, client, queueing, syncing
<1>12. ASSUME NEW s \in Syncs, WriteInSync(s) PROVE TypeOK'
  BY <1>12, <1>w, <1>q, <1>p, <1>t DEF WriteInSync, TypeOK, SyncPCs, client, queueing, syncing
<1>13. ASSUME NEW s \in Syncs, SendResult(s) PROVE TypeOK'
  <2>1. results' \in 0..ResultCap
    BY <1>13, <1>t, CapAssumption DEF SendResult
  <2> QED
    BY <1>13, <1>w, <1>q, <1>p, <1>t, <2>1 DEF SendResult, TypeOK, SyncPCs, client, queueing
<1>14. CASE TakeResult
  <2>1. results' \in 0..ResultCap
    BY <1>14, <1>t, CapAssumption DEF TakeResult
  <2> QED
    BY <1>14, <1>w, <1>q, <1>p, <1>t, <2>1 DEF TakeResult, TypeOK, SyncPCs, client, queueing
<1>15. CASE Connect
  BY <1>15, <1>w, <1>q, <1>p, <1>t DEF Connect, TypeOK, GoTo, Phases, client, queueing, syncing
<1>16. CASE WaitReady
  BY <1>16, <1>w, <1>q, <1>p, <1>t DEF WaitReady, TypeOK, GoTo, Phases, client, queueing, syncing
<1>17. CASE GiveUp
  BY <1>17, <1>w, <1>q, <1>p, <1>t DEF GiveUp, TypeOK, GoTo, Phases, client, queueing, syncing
<1>18. CASE StartServer
  BY <1>18, <1>w, <1>q, <1>p, <1>t DEF StartServer, TypeOK, GoTo, Phases, client, queueing, syncing
<1>19. CASE EndRun
  BY <1>19, <1>w, <1>q, <1>p, <1>t DEF EndRun, TypeOK, GoTo, Phases, client, queueing, syncing
<1>20. CASE ServerClosed
  BY <1>20, <1>w, <1>q, <1>p, <1>t DEF ServerClosed, TypeOK, GoTo, Phases, client, queueing, syncing
<1>21. CASE RemoveHandler
  BY <1>21, <1>w, <1>q, <1>p, <1>t DEF RemoveHandler, TypeOK, GoTo, Phases, client, queueing, syncing
<1>22. CASE Disconnect
  BY <1>22, <1>w, <1>q, <1>p, <1>t DEF Disconnect, TypeOK, GoTo, Phases, client, queueing, syncing
<1>23. CASE CloseSyncs
  BY <1>23, <1>w, <1>q, <1>p, <1>t DEF CloseSyncs, TypeOK, GoTo, Phases, client, queueing, syncing
<1>24. CASE Cancel
  BY <1>24, <1>w, <1>q, <1>p, <1>t DEF Cancel, TypeOK, GoTo, Phases, client, queueing, syncing
<1>25. CASE JoinSyncs
  BY <1>25, <1>w, <1>q, <1>p, <1>t DEF JoinSyncs, TypeOK, GoTo, Phases, client, queueing, syncing
<1>26. CASE CloseResults
  BY <1>26, <1>w, <1>q, <1>p, <1>t DEF CloseResults, TypeOK, GoTo, Phases, client, queueing, syncing
<1>27. CASE JoinWorker
  BY <1>27, <1>w, <1>q, <1>p, <1>t DEF JoinWorker, TypeOK, GoTo, Phases, client, queueing, syncing
<1>28. CASE CloseStore
  BY <1>28, <1>w, <1>q, <1>p, <1>t DEF CloseStore, TypeOK, GoTo, Phases, client, queueing, syncing
<1>29. CASE CloseServer
  BY <1>29, <1>w, <1>q, <1>p, <1>t DEF CloseServer, TypeOK, client, queueing, syncing
<1>30. CASE EndAcceptLoop
  BY <1>30, <1>w, <1>q, <1>p, <1>t DEF EndAcceptLoop, TypeOK, client, queueing, syncing
<1>31. CASE UNCHANGED vars
  BY <1>31, <1>w, <1>q, <1>p, <1>t DEF vars, TypeOK, client, queueing, syncing
<1> QED
  BY <1>1, <1>2, <1>3, <1>4, <1>5, <1>6, <1>7, <1>8, <1>9, <1>10, <1>11, <1>12, <1>13, <1>14, <1>15, <1>16, <1>17, <1>18, <1>19, <1>20, <1>21, <1>22, <1>23, <1>24, <1>25, <1>26, <1>27, <1>28, <1>29, <1>30, <1>31
     DEF Next, Library, Handler, Worker, Sync, Main, Server, Exited

(* The types of the variables, the capacities of the queue and of the      *)
(* results among them, hold in every state of Serve.                       *)
THEOREM TypeCorrect == Spec => []TypeOK
<1>1. Init => TypeOK
  BY InitTyped
<1>2. TypeOK /\ [Next]_vars => TypeOK'
  BY StepTyped
<1> QED
  BY <1>1, <1>2, PTL DEF Spec

-----------------------------------------------------------------------------
ShutdownInv ==
    /\ phase \in {"cancel", "joinSyncs", "closeResults", "joinWorker", "returned", "exit"} =>
          syncClosed
    /\ phase \in {"closeResults", "joinWorker", "returned", "exit"} =>
          \A s \in Syncs : ~SyncRuns(s)
    /\ phase \in {"returned", "exit"} => worker.pc = "done"
    /\ resultsClosed => phase \in {"joinWorker", "returned", "exit"}

LEMMA ShutdownInvStep == TypeOK /\ ShutdownInv /\ [Next]_vars => ShutdownInv'
<1> SUFFICES ASSUME TypeOK, ShutdownInv, [Next]_vars PROVE ShutdownInv'
  OBVIOUS
<1>t. sync \in [Syncs -> SyncPCs]
  BY DEF TypeOK
<1>1. CASE Signal
  BY <1>1, <1>t DEF Signal, ShutdownInv, SyncRuns, syncing, queueing
<1>2. CASE ChangeConnection
  BY <1>2, <1>t DEF ChangeConnection, ShutdownInv, SyncRuns, syncing, queueing
<1>3. ASSUME NEW k \in Calls, NEW e \in Events, Deliver(k, e) PROVE ShutdownInv'
  BY <1>3, <1>t DEF Deliver, ShutdownInv, SyncRuns, syncing, queueing
<1>4. ASSUME NEW k \in Calls, HandleConnected(k) PROVE ShutdownInv'
  BY <1>4, <1>t DEF HandleConnected, ShutdownInv, SyncRuns, syncing, queueing
<1>5. ASSUME NEW k \in Calls, HandleFatal(k) PROVE ShutdownInv'
  BY <1>5, <1>t DEF HandleFatal, ShutdownInv, SyncRuns, syncing, queueing
<1>6. ASSUME NEW k \in Calls, HandleMessage(k) PROVE ShutdownInv'
  BY <1>6, <1>t DEF HandleMessage, ShutdownInv, SyncRuns, syncing, queueing
<1>7. ASSUME NEW k \in Calls, HandleSync(k) PROVE ShutdownInv'
  BY <1>7, <1>t DEF HandleSync, ShutdownInv, SyncRuns, StartSync, syncing, queueing
<1>8. CASE TakeMessage
  BY <1>8, <1>t DEF TakeMessage, ShutdownInv, SyncRuns, syncing, queueing
<1>9. CASE FinishMessage
  BY <1>9, <1>t DEF FinishMessage, ShutdownInv, SyncRuns, syncing, queueing
<1>10. CASE StopWorker
  BY <1>10, <1>t DEF StopWorker, ShutdownInv, SyncRuns, syncing, queueing
<1>11. ASSUME NEW g \in Syncs, NextInSync(g) PROVE ShutdownInv'
  BY <1>11, <1>t DEF NextInSync, ShutdownInv, SyncRuns, syncing, queueing
<1>12. ASSUME NEW g \in Syncs, WriteInSync(g) PROVE ShutdownInv'
  BY <1>12, <1>t DEF WriteInSync, ShutdownInv, SyncRuns, syncing, queueing
<1>13. ASSUME NEW g \in Syncs, SendResult(g) PROVE ShutdownInv'
  BY <1>13, <1>t DEF SendResult, ShutdownInv, SyncRuns, syncing, queueing
<1>14. CASE TakeResult
  BY <1>14, <1>t DEF TakeResult, ShutdownInv, SyncRuns, syncing, queueing
<1>15. CASE Connect
  BY <1>15, <1>t DEF Connect, ShutdownInv, SyncRuns, GoTo, syncing, queueing
<1>16. CASE WaitReady
  BY <1>16, <1>t DEF WaitReady, ShutdownInv, SyncRuns, GoTo, syncing, queueing
<1>17. CASE GiveUp
  BY <1>17, <1>t DEF GiveUp, ShutdownInv, SyncRuns, GoTo, syncing, queueing
<1>18. CASE StartServer
  BY <1>18, <1>t DEF StartServer, ShutdownInv, SyncRuns, GoTo, syncing, queueing
<1>19. CASE EndRun
  BY <1>19, <1>t DEF EndRun, ShutdownInv, SyncRuns, GoTo, syncing, queueing
<1>20. CASE ServerClosed
  BY <1>20, <1>t DEF ServerClosed, ShutdownInv, SyncRuns, GoTo, syncing, queueing
<1>21. CASE RemoveHandler
  BY <1>21, <1>t DEF RemoveHandler, ShutdownInv, SyncRuns, GoTo, syncing, queueing
<1>22. CASE Disconnect
  BY <1>22, <1>t DEF Disconnect, ShutdownInv, SyncRuns, GoTo, syncing, queueing
<1>23. CASE CloseSyncs
  BY <1>23, <1>t DEF CloseSyncs, ShutdownInv, SyncRuns, GoTo, syncing, queueing
<1>24. CASE Cancel
  BY <1>24, <1>t DEF Cancel, ShutdownInv, SyncRuns, GoTo, syncing, queueing
<1>25. CASE JoinSyncs
  BY <1>25, <1>t DEF JoinSyncs, ShutdownInv, SyncRuns, GoTo, syncing, queueing
<1>26. CASE CloseResults
  BY <1>26, <1>t DEF CloseResults, ShutdownInv, SyncRuns, GoTo, syncing, queueing
<1>27. CASE JoinWorker
  BY <1>27, <1>t DEF JoinWorker, ShutdownInv, SyncRuns, GoTo, syncing, queueing
<1>28. CASE CloseStore
  BY <1>28, <1>t DEF CloseStore, ShutdownInv, SyncRuns, GoTo, syncing, queueing
<1>29. CASE CloseServer
  BY <1>29, <1>t DEF CloseServer, ShutdownInv, SyncRuns, syncing, queueing
<1>30. CASE EndAcceptLoop
  BY <1>30, <1>t DEF EndAcceptLoop, ShutdownInv, SyncRuns, syncing, queueing
<1>31. CASE UNCHANGED vars
  BY <1>31 DEF vars, ShutdownInv, SyncRuns
<1> QED
  BY <1>1, <1>2, <1>3, <1>4, <1>5, <1>6, <1>7, <1>8, <1>9, <1>10, <1>11, <1>12, <1>13, <1>14, <1>15, <1>16, <1>17, <1>18, <1>19, <1>20, <1>21, <1>22, <1>23, <1>24, <1>25, <1>26, <1>27, <1>28, <1>29, <1>30, <1>31
     DEF Next, Library, Handler, Worker, Sync, Main, Server, Exited

LEMMA ShutdownOrder == Spec => [](TypeOK /\ ShutdownInv)
<1>1. Init => TypeOK /\ ShutdownInv
  BY InitTyped DEF Init, ShutdownInv
<1>2. TypeOK /\ ShutdownInv /\ [Next]_vars => (TypeOK /\ ShutdownInv)'
  BY StepTyped, ShutdownInvStep
<1> QED
  BY <1>1, <1>2, PTL DEF Spec

(* When Serve has returned and the store is closed, neither the worker nor *)
(* a history sync is at work (auth.go, the deferred shutdown).             *)
THEOREM NobodyLeft == Spec => []QuietAfterReturn
<1>1. ShutdownInv => QuietAfterReturn
  BY DEF ShutdownInv, QuietAfterReturn
<1> QED
  BY <1>1, ShutdownOrder, PTL

(* No history sync can send on the channel of results once it is closed    *)
(* (auth.go, close(onDemandProcessed)).                                    *)
THEOREM NoSenderLeft == Spec => []NoSendOnClosed
<1>1. ShutdownInv => NoSendOnClosed
  BY DEF ShutdownInv, NoSendOnClosed
<1> QED
  BY <1>1, ShutdownOrder, PTL

-----------------------------------------------------------------------------
(* A message is nowhere but in the call that has it.                       *)
Elsewhere(m) ==
    \/ \E i \in 1..Len(queue) : queue[i] = m
    \/ worker.pc = "handle" /\ worker.msg = m
    \/ m \in handled \cup refused

OnceInv ==
    /\ \A m \in Messages : Elsewhere(m) => m \in delivered
    /\ \A k \in Calls : call[k] \in Messages => call[k] \in delivered /\ ~Elsewhere(call[k])
    /\ \A k, l \in Calls : k # l /\ call[k] \in Messages => call[k] # call[l]

LEMMA AppendElements ==
    ASSUME NEW q \in Seq(Messages), NEW m \in Messages, NEW n,
           NEW i \in 1..Len(Append(q, m)), Append(q, m)[i] = n
    PROVE  n = m \/ \E j \in 1..Len(q) : q[j] = n
<1>1. Len(q) \in Nat /\ Len(Append(q, m)) = Len(q) + 1 /\ Append(q, m)[Len(q) + 1] = m
  BY AppendProperties, LenProperties
<1>2. \A j \in 1..Len(q) : Append(q, m)[j] = q[j]
  BY AppendProperties
<1>3. i \in 1..Len(q) \/ i = Len(q) + 1
  BY <1>1
<1> QED
  BY <1>1, <1>2, <1>3

LEMMA TailElements ==
    ASSUME NEW q \in Seq(Messages), q # << >>
    PROVE  /\ \E j \in 1..Len(q) : q[j] = Head(q)
           /\ \A i \in 1..Len(Tail(q)) : \E j \in 1..Len(q) : q[j] = Tail(q)[i]
<1>1. Len(q) \in Nat \ {0} /\ Len(Tail(q)) = Len(q) - 1
  BY EmptySeq, HeadTailProperties
<1>2. \A i \in 1..Len(Tail(q)) : Tail(q)[i] = q[i + 1]
  BY HeadTailProperties
<1>3. Head(q) = q[1]
  OBVIOUS
<1>5. 1 \in 1..Len(q)
  BY <1>1
<1>4. \A i \in 1..Len(Tail(q)) : i + 1 \in 1..Len(q)
  BY <1>1
<1> QED
  BY <1>2, <1>3, <1>4, <1>5

(* What a step can do to messages.                                         *)
ReturnElse(k) ==
    /\ call[k] \notin Messages
    /\ Return(k)
    /\ UNCHANGED <<queue, worker, handled, refused, delivered>>

Untouched == UNCHANGED <<queue, worker, handled, refused, call, delivered>>

LEMMA StepKinds ==
    ASSUME [Next]_vars
    PROVE  \/ Untouched
           \/ \E k \in Calls, e \in Events : Deliver(k, e)
           \/ \E k \in Calls : HandleMessage(k) \/ ReturnElse(k)
           \/ TakeMessage \/ FinishMessage \/ StopWorker
<1>1. CASE Library
  BY <1>1 DEF Library, Signal, ChangeConnection, Untouched, queueing
<1>2. ASSUME NEW k \in Calls, Handler(k)
      PROVE  HandleMessage(k) \/ ReturnElse(k)
  BY <1>2, EventsAssumption
     DEF Handler, HandleConnected, HandleFatal, HandleSync, ReturnElse, client, queueing
<1>3. ASSUME NEW s \in Syncs, Sync(s) PROVE Untouched
  BY <1>3 DEF Sync, NextInSync, WriteInSync, SendResult, Untouched, client, queueing
<1>4. CASE TakeResult
  BY <1>4 DEF TakeResult, Untouched, client, queueing
<1>5. CASE Main
  <2>1. CASE Connect \/ WaitReady \/ GiveUp \/ StartServer \/ EndRun \/ ServerClosed
    BY <2>1 DEF Connect, WaitReady, GiveUp, StartServer, EndRun, ServerClosed, Untouched,
                client, queueing
  <2>2. CASE RemoveHandler \/ Disconnect \/ CloseSyncs \/ Cancel
    BY <2>2 DEF RemoveHandler, Disconnect, CloseSyncs, Cancel, Untouched, client, queueing
  <2>3. CASE JoinSyncs \/ CloseResults \/ JoinWorker \/ CloseStore
    BY <2>3 DEF JoinSyncs, CloseResults, JoinWorker, CloseStore, Untouched, client, queueing
  <2> QED
    BY <1>5, <2>1, <2>2, <2>3 DEF Main
<1>6. CASE Server
  BY <1>6 DEF Server, CloseServer, EndAcceptLoop, Untouched, client, queueing
<1>7. CASE UNCHANGED vars
  BY <1>7 DEF vars, Untouched
<1> QED
  BY <1>1, <1>2, <1>3, <1>4, <1>5, <1>6, <1>7 DEF Next, Worker, Exited

LEMMA OnceInvStep == TypeOK /\ OnceInv /\ [Next]_vars => OnceInv'
<1> SUFFICES ASSUME TypeOK, OnceInv, [Next]_vars PROVE OnceInv'
  OBVIOUS
<1>t. /\ call \in [Calls -> Events \cup {None}] /\ queue \in Seq(Messages)
      /\ worker.pc = "handle" => worker.msg \in Messages
  BY WorkerMembership DEF TypeOK, Workers
<1>n. None \notin Messages
  BY EventsAssumption
<1>1. CASE Untouched
  <2>1. \A m : Elsewhere(m)' = Elsewhere(m)
    BY <1>1 DEF Untouched, Elsewhere
  <2> QED
    BY <1>1, <2>1 DEF Untouched, OnceInv
<1>2. ASSUME NEW k \in Calls, NEW e \in Events, Deliver(k, e) PROVE OnceInv'
  <2>1. \A m : Elsewhere(m)' = Elsewhere(m)
    BY <1>2 DEF Deliver, Elsewhere, queueing
  <2>2. /\ call' = [call EXCEPT ![k] = e] /\ delivered' = delivered \cup {e}
        /\ e \in Messages => e \notin delivered
    BY <1>2, EventsAssumption DEF Deliver
  <2> QED
    BY <1>t, <2>1, <2>2 DEF OnceInv
<1>3. ASSUME NEW k \in Calls, ReturnElse(k) PROVE OnceInv'
  <2>1. \A m : Elsewhere(m)' = Elsewhere(m)
    BY <1>3 DEF ReturnElse, Elsewhere
  <2>2. call' = [call EXCEPT ![k] = None] /\ delivered' = delivered
    BY <1>3 DEF ReturnElse, Return
  <2> QED
    BY <1>t, <1>n, <2>1, <2>2 DEF OnceInv
<1>4. ASSUME NEW k \in Calls, HandleMessage(k) PROVE OnceInv'
  <2>1. /\ call[k] \in Messages /\ call' = [call EXCEPT ![k] = None]
        /\ delivered' = delivered
    BY <1>4 DEF HandleMessage, Return, client
  <2>2. \A m : Elsewhere(m)' => Elsewhere(m) \/ m = call[k]
    <3>1. CASE queue' = Append(queue, call[k]) /\ refused' = refused
      <4>1. UNCHANGED <<worker, handled>>
        BY <1>4 DEF HandleMessage
      <4>2. \A m : (\E i \in 1..Len(queue') : queue'[i] = m) =>
                   m = call[k] \/ \E j \in 1..Len(queue) : queue[j] = m
        BY <1>t, <2>1, <3>1, AppendElements
      <4> QED
        BY <3>1, <4>1, <4>2 DEF Elsewhere
    <3>2. CASE refused' = refused \cup {call[k]} /\ queue' = queue
      BY <1>4, <3>2 DEF HandleMessage, Elsewhere
    <3> QED
      BY <1>4, <3>1, <3>2 DEF HandleMessage
  <2> QED
    BY <1>t, <1>n, <2>1, <2>2 DEF OnceInv
<1>5. CASE TakeMessage
  <2>1. \A m : Elsewhere(m)' => Elsewhere(m)
    <3>1. /\ queue # << >> /\ queue' = Tail(queue) /\ worker'.msg = Head(queue)
          /\ UNCHANGED <<handled, refused>>
      BY <1>5 DEF TakeMessage
    <3> QED
      BY <1>t, <3>1, TailElements DEF Elsewhere
  <2>2. UNCHANGED <<call, delivered>>
    BY <1>5 DEF TakeMessage, client
  <2> QED
    BY <2>1, <2>2 DEF OnceInv
<1>6. CASE FinishMessage
  <2>1. \A m : Elsewhere(m)' => Elsewhere(m)
    BY <1>6 DEF FinishMessage, Elsewhere
  <2>2. UNCHANGED <<call, delivered>>
    BY <1>6 DEF FinishMessage, client
  <2> QED
    BY <2>1, <2>2 DEF OnceInv
<1>7. CASE StopWorker
  <2>1. \A m : Elsewhere(m)' => Elsewhere(m)
    BY <1>7 DEF StopWorker, Elsewhere
  <2>2. UNCHANGED <<call, delivered>>
    BY <1>7 DEF StopWorker, client
  <2> QED
    BY <2>1, <2>2 DEF OnceInv
<1> QED
  BY <1>1, <1>2, <1>3, <1>4, <1>5, <1>6, <1>7, StepKinds

LEMMA OnceInit == Init => OnceInv
<1> SUFFICES ASSUME Init PROVE OnceInv
  OBVIOUS
<1>1. \A m : ~Elsewhere(m)
  <2>1. queue = << >> /\ worker.pc = "select" /\ handled = {} /\ refused = {}
    BY DEF Init
  <2>2. Len(queue) = 0
    BY <2>1
  <2> QED
    BY <2>1, <2>2 DEF Elsewhere
<1>2. \A k \in Calls : call[k] \notin Messages
  BY EventsAssumption DEF Init
<1> QED
  BY <1>1, <1>2 DEF OnceInv

LEMMA PromiseStep == TypeOK /\ OnceInv /\ [Next]_vars => [Promise!Next]_(Promise!vars)
<1> SUFFICES ASSUME TypeOK, OnceInv, [Next]_vars PROVE [Promise!Next]_(Promise!vars)
  OBVIOUS
<1>t. /\ queue \in Seq(Messages) /\ Len(queue) <= QueueCap
      /\ worker \in Workers
  BY DEF TypeOK, Workers
<1>1. ASSUME UNCHANGED <<queue, worker, handled, refused>> PROVE UNCHANGED Promise!vars
  BY <1>1 DEF Promise!vars
<1>2. CASE Untouched
  BY <1>1, <1>2 DEF Untouched
<1>3. ASSUME NEW k \in Calls, NEW e \in Events, Deliver(k, e) PROVE UNCHANGED Promise!vars
  BY <1>1, <1>3 DEF Deliver, queueing
<1>4. ASSUME NEW k \in Calls, ReturnElse(k) PROVE UNCHANGED Promise!vars
  BY <1>1, <1>4 DEF ReturnElse
<1>5. ASSUME NEW k \in Calls, HandleMessage(k) PROVE Promise!Next
  <2>1. call[k] \in Messages /\ ~Elsewhere(call[k])
    BY <1>5 DEF HandleMessage, OnceInv
  <2>2. Promise!Fresh(call[k])
    <3>1. DOMAIN queue = 1..Len(queue)
      BY <1>t, LenProperties
    <3> QED
      BY <2>1, <3>1 DEF Promise!Fresh, Elsewhere
  <2>3. UNCHANGED <<worker, handled>>
    BY <1>5 DEF HandleMessage
  <2>4. Promise!Accept(call[k]) \/ Promise!Refuse(call[k])
    BY <1>5, <2>2, <2>3 DEF HandleMessage, Promise!Accept, Promise!Refuse
  <2> QED
    BY <2>1, <2>4 DEF Promise!Next
<1>6. CASE TakeMessage
  BY <1>6 DEF TakeMessage, Promise!Next, Promise!Take
<1>7. CASE FinishMessage
  BY <1>6, <1>7 DEF FinishMessage, Promise!Next, Promise!Finish
<1>8. CASE StopWorker
  BY <1>8 DEF StopWorker, Promise!Next, Promise!Stop
<1> QED
  BY <1>2, <1>3, <1>4, <1>5, <1>6, <1>7, <1>8, StepKinds

(* The bounded queue and its worker implement Inbox: each message that the *)
(* library hands over is refused on arrival, or handled once and in turn,  *)
(* or given up with the worker (auth.go:154-171, 185-195).                 *)
THEOREM PromiseKept == Spec => KeepsPromise
<1>1. Init => Promise!Init
  BY DEF Init, Promise!Init
<1>2. Init => TypeOK /\ OnceInv
  BY InitTyped, OnceInit
<1>3. TypeOK /\ OnceInv /\ [Next]_vars => (TypeOK /\ OnceInv)'
  BY StepTyped, OnceInvStep
<1>4. TypeOK /\ OnceInv /\ [Next]_vars => [Promise!Next]_(Promise!vars)
  BY PromiseStep
<1> QED
  BY <1>1, <1>2, <1>3, <1>4, PTL DEF Spec, KeepsPromise, Promise!Spec

-----------------------------------------------------------------------------
(* What StopIsHeard needs: the control server runs while Serve waits for   *)
(* an event, and a cancelled context stays so.                             *)
StopInv ==
    /\ StopIsHeard
    /\ phase = "run" => server # "off"
    /\ phase \in {"closeResults", "returned", "exit"} => cancelled

LEMMA StopInvStep == TypeOK /\ StopInv /\ [Next]_vars => StopInv'
<1> SUFFICES ASSUME TypeOK, StopInv, [Next]_vars PROVE StopInv'
  OBVIOUS
<1>t. phase \in Phases
  BY DEF TypeOK
<1>0. ASSUME UNCHANGED <<phase, server, cancelled, failed, fatal>> PROVE StopInv'
  BY <1>0 DEF StopInv, StopIsHeard
<1>1. CASE Library
  <2>1. UNCHANGED <<phase, server, cancelled, failed, fatal>>
    BY <1>1 DEF Library, Signal, ChangeConnection, Deliver
  <2> QED
    BY <1>0, <2>1
<1>2. ASSUME NEW k \in Calls, Handler(k) PROVE StopInv'
  <2>1. CASE HandleFatal(k)
    BY <2>1 DEF HandleFatal, StopInv, StopIsHeard
  <2>2. CASE HandleConnected(k) \/ HandleMessage(k) \/ HandleSync(k)
    <3>1. UNCHANGED <<phase, server, cancelled, failed, fatal>>
      BY <2>2 DEF HandleConnected, HandleMessage, HandleSync
    <3> QED
      BY <1>0, <3>1
  <2> QED
    BY <1>2, <2>1, <2>2 DEF Handler
<1>3. CASE Worker \/ TakeResult \/ \E g \in Syncs : Sync(g)
  <2>1. UNCHANGED <<phase, server, cancelled, failed, fatal>>
    BY <1>3 DEF Worker, TakeMessage, FinishMessage, StopWorker, TakeResult, Sync,
                NextInSync, WriteInSync, SendResult
  <2> QED
    BY <1>0, <2>1
<1>4. CASE Main
  <2>1. CASE Connect \/ WaitReady \/ GiveUp
    BY <2>1 DEF Connect, WaitReady, GiveUp, GoTo, StopInv, StopIsHeard
  <2>2. CASE StartServer
    BY <2>2 DEF StartServer, GoTo, StopInv, StopIsHeard
  <2>3. CASE EndRun
    BY <2>3 DEF EndRun, GoTo, StopInv, StopIsHeard
  <2>4. CASE ServerClosed \/ RemoveHandler \/ Disconnect \/ CloseSyncs
    BY <2>4 DEF ServerClosed, RemoveHandler, Disconnect, CloseSyncs, GoTo, StopInv, StopIsHeard
  <2>5. CASE Cancel
    BY <2>5 DEF Cancel, GoTo, StopInv, StopIsHeard
  <2>6. CASE JoinSyncs \/ CloseResults \/ JoinWorker \/ CloseStore
    BY <2>6 DEF JoinSyncs, CloseResults, JoinWorker, CloseStore, GoTo, StopInv, StopIsHeard
  <2> QED
    BY <1>4, <2>1, <2>2, <2>3, <2>4, <2>5, <2>6 DEF Main
<1>5. CASE Server
  BY <1>5 DEF Server, CloseServer, EndAcceptLoop, StopInv, StopIsHeard
<1>6. CASE UNCHANGED vars
  BY <1>0, <1>6 DEF vars
<1> QED
  BY <1>1, <1>2, <1>3, <1>4, <1>5, <1>6 DEF Next, Exited

(* A fatal event is in the channel until Serve takes it or ends for        *)
(* another reason, whatever phase it arrives in, and Serve never waits for *)
(* a server that was not started or for goroutines nobody has told to stop *)
(* (auth.go:152-247).  That the daemon then ends needs fairness, and TLC.  *)
THEOREM StopsAreHeard == Spec => []StopIsHeard
<1>1. Init => TypeOK /\ StopInv
  BY InitTyped DEF Init, StopInv, StopIsHeard
<1>2. TypeOK /\ StopInv /\ [Next]_vars => (TypeOK /\ StopInv)'
  BY StepTyped, StopInvStep
<1>3. StopInv => StopIsHeard
  BY DEF StopInv
<1> QED
  BY <1>1, <1>2, <1>3, PTL DEF Spec

-----------------------------------------------------------------------------
(* The converse of AppendElements and TailElements: no element is lost but *)
(* the head.                                                               *)
LEMMA AppendKeeps ==
    ASSUME NEW q \in Seq(Messages), NEW m \in Messages
    PROVE  /\ Len(Append(q, m)) = Len(q) + 1 /\ Len(q) \in Nat
           /\ Append(q, m)[Len(q) + 1] = m
           /\ \A i \in 1..Len(q) : Append(q, m)[i] = q[i]
  BY AppendProperties, LenProperties

LEMMA TailKeeps ==
    ASSUME NEW q \in Seq(Messages), q # << >>
    PROVE  /\ Len(Tail(q)) = Len(q) - 1 /\ Len(q) \in Nat \ {0}
           /\ Head(q) = q[1]
           /\ \A i \in 1..Len(Tail(q)) : Tail(q)[i] = q[i + 1]
<1>1. Len(q) \in Nat \ {0} /\ Len(Tail(q)) = Len(q) - 1
  BY EmptySeq, HeadTailProperties
<1>2. \A i \in 1..Len(Tail(q)) : Tail(q)[i] = q[i + 1]
  BY HeadTailProperties
<1>3. Head(q) = q[1]
  OBVIOUS
<1> QED
  BY <1>1, <1>2, <1>3

InCall(m) == \E k \in Calls : call[k] = m
InQueue(m) == \E i \in 1..Len(queue) : queue[i] = m
AtWorker(m) == worker.pc = "handle" /\ worker.msg = m

(* A message that is handed over is with a call or further on, and those   *)
(* further on are in one place only.  With OnceInv this is InOnePlace.     *)
FlowInv ==
    /\ \A m \in Messages \cap delivered : InCall(m) \/ Elsewhere(m)
    /\ \A i, j \in 1..Len(queue) : queue[i] = queue[j] => i = j
    /\ \A m \in Messages :
          /\ InQueue(m) => ~AtWorker(m) /\ m \notin handled \cup refused
          /\ AtWorker(m) => m \notin handled \cup refused
    /\ handled \cap refused = {}

LEMMA FlowInvStep == TypeOK /\ OnceInv /\ FlowInv /\ [Next]_vars => FlowInv'
<1> SUFFICES ASSUME TypeOK, OnceInv, FlowInv, [Next]_vars PROVE FlowInv'
  OBVIOUS
<1>t. /\ call \in [Calls -> Events \cup {None}] /\ queue \in Seq(Messages)
      /\ handled \subseteq Messages /\ refused \subseteq Messages
      /\ worker.pc = "handle" => worker.msg \in Messages
  BY WorkerMembership DEF TypeOK, Workers
<1>n. None \notin Messages
  BY EventsAssumption
<1>1. CASE Untouched
  BY <1>1 DEF Untouched, FlowInv, InCall, InQueue, AtWorker, Elsewhere
<1>2. ASSUME NEW k \in Calls, NEW e \in Events, Deliver(k, e) PROVE FlowInv'
  <2>1. \A m : Elsewhere(m)' = Elsewhere(m) /\ InQueue(m)' = InQueue(m) /\ AtWorker(m)' = AtWorker(m)
    BY <1>2 DEF Deliver, Elsewhere, InQueue, AtWorker, queueing
  <2>2. /\ call' = [call EXCEPT ![k] = e] /\ delivered' = delivered \cup {e}
        /\ call[k] = None /\ UNCHANGED <<queue, worker, handled, refused>>
    BY <1>2 DEF Deliver, queueing
  <2>3. \A m \in Messages : InCall(m) => InCall(m)'
    BY <1>t, <1>n, <2>2 DEF InCall
  <2>4. InCall(e)'
    BY <1>t, <2>2 DEF InCall
  <2> QED
    BY <2>1, <2>2, <2>3, <2>4 DEF FlowInv
<1>3. ASSUME NEW k \in Calls, ReturnElse(k) PROVE FlowInv'
  <2>1. \A m : Elsewhere(m)' = Elsewhere(m) /\ InQueue(m)' = InQueue(m) /\ AtWorker(m)' = AtWorker(m)
    BY <1>3 DEF ReturnElse, Elsewhere, InQueue, AtWorker
  <2>2. /\ call' = [call EXCEPT ![k] = None] /\ call[k] \notin Messages
        /\ UNCHANGED <<queue, handled, refused, delivered>>
    BY <1>3 DEF ReturnElse, Return
  <2>3. \A m \in Messages : InCall(m) => InCall(m)'
    BY <1>t, <2>2 DEF InCall
  <2> QED
    BY <2>1, <2>2, <2>3 DEF FlowInv
<1>4. ASSUME NEW k \in Calls, HandleMessage(k) PROVE FlowInv'
  <2>1. /\ call[k] \in Messages /\ call' = [call EXCEPT ![k] = None] /\ ~Elsewhere(call[k])
        /\ UNCHANGED <<delivered, worker, handled>>
    BY <1>4 DEF HandleMessage, Return, client, OnceInv
  <2>2. \A m \in Messages : InCall(m) => InCall(m)' \/ m = call[k]
    BY <1>t, <2>1 DEF InCall
  <2>3. CASE queue' = Append(queue, call[k]) /\ refused' = refused
    <3>1. /\ Len(queue') = Len(queue) + 1 /\ Len(queue) \in Nat
          /\ queue'[Len(queue) + 1] = call[k]
          /\ \A i \in 1..Len(queue) : queue'[i] = queue[i]
      BY <1>t, <2>1, <2>3, AppendKeeps
    <3>2. /\ \A i \in 1..Len(queue') : i \in 1..Len(queue) \/ i = Len(queue) + 1
          /\ Len(queue) + 1 \in 1..Len(queue')
          /\ \A i \in 1..Len(queue) : i \in 1..Len(queue')
      BY <3>1
    <3>3. \A m : InQueue(m)' <=> InQueue(m) \/ m = call[k]
      BY <3>1, <3>2 DEF InQueue
    <3>4. \A m : Elsewhere(m)' <=> Elsewhere(m) \/ m = call[k]
      BY <2>1, <2>3, <3>3 DEF Elsewhere, InQueue
    <3>5. \A i, j \in 1..Len(queue') : queue'[i] = queue'[j] => i = j
      BY <2>1, <3>1, <3>2 DEF FlowInv, Elsewhere
    <3>6. ~InQueue(call[k]) /\ ~AtWorker(call[k]) /\ call[k] \notin handled \cup refused
      BY <2>1 DEF Elsewhere, InQueue, AtWorker
    <3> QED
      BY <2>1, <2>2, <2>3, <3>3, <3>4, <3>5, <3>6 DEF FlowInv, AtWorker
  <2>4. CASE queue' = queue /\ refused' = refused \cup {call[k]}
    <3>1. \A m : Elsewhere(m)' <=> Elsewhere(m) \/ m = call[k]
      BY <2>1, <2>4 DEF Elsewhere
    <3>2. ~InQueue(call[k]) /\ ~AtWorker(call[k]) /\ call[k] \notin handled
      BY <2>1 DEF Elsewhere, InQueue, AtWorker
    <3> QED
      BY <2>1, <2>2, <2>4, <3>1, <3>2 DEF FlowInv, InQueue, AtWorker
  <2> QED
    BY <1>4, <2>3, <2>4 DEF HandleMessage
<1>5. CASE TakeMessage
  <2>1. /\ queue # << >> /\ queue' = Tail(queue) /\ worker.pc = "select"
        /\ worker' = [pc |-> "handle", msg |-> Head(queue)]
        /\ UNCHANGED <<handled, refused, call, delivered>>
    BY <1>5 DEF TakeMessage, client
  <2>2. /\ Len(queue') = Len(queue) - 1 /\ Len(queue) \in Nat \ {0}
        /\ Head(queue) = queue[1]
        /\ \A i \in 1..Len(queue') : queue'[i] = queue[i + 1]
    BY <1>t, <2>1, TailKeeps
  <2>3. /\ 1 \in 1..Len(queue) /\ \A i \in 1..Len(queue') : i + 1 \in 1..Len(queue) /\ i + 1 # 1
        /\ \A i \in 1..Len(queue) : i = 1 \/ (i - 1 \in 1..Len(queue') /\ (i - 1) + 1 = i)
        /\ \A i, j \in 1..Len(queue') : i + 1 = j + 1 => i = j
    BY <2>2
  <2>4. \A m : InQueue(m) <=> InQueue(m)' \/ m = Head(queue)
    <3>1. ASSUME NEW m, InQueue(m) PROVE InQueue(m)' \/ m = Head(queue)
      <4>1. PICK i \in 1..Len(queue) : queue[i] = m
        BY <3>1 DEF InQueue
      <4>2. CASE i = 1
        BY <2>2, <4>1, <4>2
      <4>3. CASE i - 1 \in 1..Len(queue') /\ (i - 1) + 1 = i
        <5>1. queue'[i - 1] = m
          BY <2>2, <4>1, <4>3
        <5> QED
          BY <4>3, <5>1 DEF InQueue
      <4> QED
        BY <2>3, <4>2, <4>3
    <3>2. ASSUME NEW m, InQueue(m)' PROVE InQueue(m)
      BY <2>2, <2>3, <3>2 DEF InQueue
    <3>3. InQueue(Head(queue))
      BY <2>2, <2>3 DEF InQueue
    <3> QED
      BY <3>1, <3>2, <3>3
  <2>5. \A m : m = Head(queue) => ~InQueue(m)'
    BY <2>2, <2>3 DEF InQueue, FlowInv
  <2>6. \A m : AtWorker(m)' <=> m = Head(queue)
    BY <2>1 DEF AtWorker
  <2>7. \A m : ~AtWorker(m)
    BY <2>1 DEF AtWorker
  <2>8. \A m : Elsewhere(m)' <=> Elsewhere(m)
    BY <2>1, <2>4, <2>6, <2>7 DEF Elsewhere, InQueue, AtWorker
  <2>9. \A i, j \in 1..Len(queue') : queue'[i] = queue'[j] => i = j
    BY <2>2, <2>3 DEF FlowInv
  <2>10. \A m : InCall(m)' <=> InCall(m)
    BY <2>1 DEF InCall
  <2> QED
    BY <2>1, <2>4, <2>5, <2>6, <2>7, <2>8, <2>9, <2>10 DEF FlowInv
<1>6. CASE FinishMessage
  <2>1. /\ worker.pc = "handle" /\ worker' = [pc |-> "select", msg |-> None]
        /\ handled' = handled \cup {worker.msg} /\ UNCHANGED <<queue, refused, call, delivered>>
    BY <1>6 DEF FinishMessage, client
  <2>2. \A m : AtWorker(m) <=> m = worker.msg
    BY <2>1 DEF AtWorker
  <2>3. \A m : ~AtWorker(m)'
    BY <2>1 DEF AtWorker
  <2>4. \A m : (Elsewhere(m)' <=> Elsewhere(m)) /\ (InQueue(m)' <=> InQueue(m)) /\ (InCall(m)' <=> InCall(m))
    BY <2>1 DEF Elsewhere, InQueue, InCall
  <2> QED
    BY <1>t, <2>1, <2>2, <2>3, <2>4 DEF FlowInv
<1>7. CASE StopWorker
  <2>1. /\ worker.pc = "select" /\ worker' = [pc |-> "done", msg |-> None]
        /\ UNCHANGED <<queue, handled, refused, call, delivered>>
    BY <1>7 DEF StopWorker, client
  <2>2. \A m : /\ ~AtWorker(m) /\ ~AtWorker(m)' /\ (Elsewhere(m)' <=> Elsewhere(m))
               /\ (InQueue(m)' <=> InQueue(m)) /\ (InCall(m)' <=> InCall(m))
    BY <2>1 DEF Elsewhere, InQueue, InCall, AtWorker
  <2> QED
    BY <2>1, <2>2 DEF FlowInv
<1> QED
  BY <1>1, <1>2, <1>3, <1>4, <1>5, <1>6, <1>7, StepKinds

LEMMA FlowInvariant == Spec => [](TypeOK /\ OnceInv /\ FlowInv)
<1>1. Init => FlowInv
  <2> SUFFICES ASSUME Init PROVE FlowInv
    OBVIOUS
  <2>1. queue = << >> /\ worker.pc = "select" /\ handled = {} /\ refused = {} /\ delivered = {}
    BY DEF Init
  <2>2. Len(queue) = 0
    BY <2>1
  <2> QED
    BY <2>1, <2>2 DEF FlowInv, InQueue, AtWorker
<1>2. Init => TypeOK /\ OnceInv
  BY InitTyped, OnceInit
<1>3. TypeOK /\ OnceInv /\ FlowInv /\ [Next]_vars => (TypeOK /\ OnceInv /\ FlowInv)'
  BY StepTyped, OnceInvStep, FlowInvStep
<1> QED
  BY <1>1, <1>2, <1>3, PTL DEF Spec

LEMMA PlacesOf ==
    ASSUME TypeOK, NEW m \in Messages
    PROVE  \A p : p \in HeldBy(m) <=>
              \/ \E k \in Calls : call[k] = m /\ p = <<"call", k>>
              \/ \E i \in 1..Len(queue) : queue[i] = m /\ p = <<"queue", i>>
              \/ AtWorker(m) /\ p = <<"worker", m>>
              \/ m \in handled /\ p = <<"handled", m>>
              \/ m \in refused /\ p = <<"refused", m>>
<1>1. DOMAIN queue = 1..Len(queue)
  BY LenProperties DEF TypeOK
<1>2. worker.msg = m <=> AtWorker(m)
  BY WorkerMembership, EventsAssumption DEF TypeOK, Workers, AtWorker
<1>3. \A p : p \in {"call"} \X {k \in Calls : call[k] = m} <=>
                 \E k \in Calls : call[k] = m /\ p = <<"call", k>>
  OBVIOUS
<1>4. \A p : p \in {"queue"} \X {i \in DOMAIN queue : queue[i] = m} <=>
                 \E i \in 1..Len(queue) : queue[i] = m /\ p = <<"queue", i>>
  <2> DEFINE S == DOMAIN queue
  <2>1. \A p : p \in {"queue"} \X {i \in S : queue[i] = m} <=>
                   \E i \in S : queue[i] = m /\ p = <<"queue", i>>
    <3> HIDE DEF S
    <3> QED
      OBVIOUS
  <2> QED
    BY <1>1, <2>1
<1>5. \A p : p \in {"worker"} \X ({worker.msg} \cap {m}) <=> AtWorker(m) /\ p = <<"worker", m>>
  <2>1. CASE worker.msg = m
    <3>1. {worker.msg} \cap {m} = {m}
      BY <2>1
    <3> QED
      BY <1>2, <2>1, <3>1
  <2>2. CASE worker.msg # m
    <3>1. {worker.msg} \cap {m} = {}
      BY <2>2
    <3> QED
      BY <1>2, <2>2, <3>1
  <2> QED
    BY <2>1, <2>2
<1>6. \A p : p \in {"handled"} \X (handled \cap {m}) <=> m \in handled /\ p = <<"handled", m>>
  OBVIOUS
<1>7. \A p : p \in {"refused"} \X (refused \cap {m}) <=> m \in refused /\ p = <<"refused", m>>
  OBVIOUS
<1> QED
  BY <1>3, <1>4, <1>5, <1>6, <1>7, Zenon DEF HeldBy

LEMMA OnePlace == TypeOK /\ OnceInv /\ FlowInv => InOnePlace
<1> SUFFICES ASSUME TypeOK, OnceInv, FlowInv, NEW m \in Messages
             PROVE  /\ m \in delivered => \E p \in HeldBy(m) : HeldBy(m) = {p}
                    /\ m \notin delivered => HeldBy(m) = {}
  BY DEF InOnePlace
<1>i. /\ InQueue(m) => ~AtWorker(m) /\ m \notin handled \cup refused
      /\ AtWorker(m) => m \notin handled \cup refused
      /\ m \notin handled \/ m \notin refused
      /\ InCall(m) => m \in delivered /\ ~InQueue(m) /\ ~AtWorker(m) /\ m \notin handled \cup refused
      /\ Elsewhere(m) <=> InQueue(m) \/ AtWorker(m) \/ m \in handled \cup refused
      /\ Elsewhere(m) => m \in delivered
  BY DEF FlowInv, OnceInv, Elsewhere, InCall, InQueue, AtWorker
<1>s. ASSUME NEW p \in HeldBy(m), \A q \in HeldBy(m) : q = p
      PROVE  \E r \in HeldBy(m) : HeldBy(m) = {r}
  BY <1>s
<1>1. CASE InCall(m)
  <2>1. PICK k \in Calls : call[k] = m
    BY <1>1 DEF InCall
  <2>2. \A l \in Calls : call[l] = m => l = k
    BY <2>1 DEF OnceInv
  <2>3. <<"call", k>> \in HeldBy(m) /\ \A q \in HeldBy(m) : q = <<"call", k>>
    BY <1>1, <1>i, <2>1, <2>2, PlacesOf DEF InQueue
  <2> QED
    BY <1>1, <1>i, <1>s, <2>3
<1>2. CASE InQueue(m)
  <2>1. PICK i \in 1..Len(queue) : queue[i] = m
    BY <1>2 DEF InQueue
  <2>2. \A j \in 1..Len(queue) : queue[j] = m => j = i
    BY <2>1 DEF FlowInv
  <2>3. <<"queue", i>> \in HeldBy(m) /\ \A q \in HeldBy(m) : q = <<"queue", i>>
    BY <1>2, <1>i, <2>1, <2>2, PlacesOf DEF InCall
  <2> QED
    BY <1>2, <1>i, <1>s, <2>3
<1>3. CASE AtWorker(m)
  <2>1. <<"worker", m>> \in HeldBy(m) /\ \A q \in HeldBy(m) : q = <<"worker", m>>
    BY <1>3, <1>i, PlacesOf DEF InCall, InQueue
  <2> QED
    BY <1>3, <1>i, <1>s, <2>1
<1>4. CASE m \in handled
  <2>1. <<"handled", m>> \in HeldBy(m) /\ \A q \in HeldBy(m) : q = <<"handled", m>>
    BY <1>4, <1>i, PlacesOf DEF InCall, InQueue
  <2> QED
    BY <1>4, <1>i, <1>s, <2>1
<1>5. CASE m \in refused
  <2>1. <<"refused", m>> \in HeldBy(m) /\ \A q \in HeldBy(m) : q = <<"refused", m>>
    BY <1>5, <1>i, PlacesOf DEF InCall, InQueue
  <2> QED
    BY <1>5, <1>i, <1>s, <2>1
<1>6. CASE ~InCall(m) /\ ~Elsewhere(m)
  <2>1. m \notin delivered
    BY <1>6 DEF FlowInv
  <2>2. \A p : p \notin HeldBy(m)
    BY <1>6, <1>i, PlacesOf DEF InCall, InQueue
  <2> QED
    BY <2>1, <2>2
<1> QED
  BY <1>1, <1>2, <1>3, <1>4, <1>5, <1>6, <1>i

(* No message that the library hands over is lost between the handler, the *)
(* queue and the worker, or is there twice: it is with its call, at one    *)
(* position of the queue, with the worker, handled or refused              *)
(* (auth.go:154-171, 185-195).                                             *)
THEOREM NoneLost == Spec => []InOnePlace
  BY FlowInvariant, OnePlace, PTL

=============================================================================
