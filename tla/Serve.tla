-------------------------------- MODULE Serve --------------------------------
(***************************************************************************)
(* auth.Serve (internal/auth/auth.go:137): the event handler that the      *)
(* WhatsApp library calls, the queue and its worker, a goroutine for each  *)
(* history sync, the control server's accept loop, and the deferred        *)
(* shutdown, down to runDaemonMode closing the store.                      *)
(*                                                                         *)
(* A call of the handler may still be running when RemoveEventHandler has  *)
(* returned: nothing here rests on the library waiting for it.             *)
(***************************************************************************)
EXTENDS Integers, Sequences

CONSTANTS
    Messages,       \* live message events, each delivered once
    Syncs,          \* history sync events
    OnDemand,       \* those that answer a backfill request
    Calls,          \* slots for calls of the event handler
    QueueCap,       \* messageQueueSize, 128 in the code
    ResultCap,      \* capacity of onDemandProcessed, 8 in the code
    None

ASSUME CapAssumption ==
    QueueCap \in Nat \ {0} /\ ResultCap \in Nat \ {0}
ASSUME EventsAssumption ==
    /\ OnDemand \subseteq Syncs
    /\ Messages \cap Syncs = {}
    /\ "connected" \notin Messages \cup Syncs
    /\ "fatal" \notin Messages \cup Syncs
    /\ None \notin Messages \cup Syncs \cup {"connected", "fatal"}

VARIABLES
    phase,          \* where Serve, or one of its deferred calls, stands
    signalled,      \* ctx is done: SIGTERM or interrupt
    cancelled,      \* cancel() of serveCtx was called
    online,         \* IsConnected and IsLoggedIn of the client
    registered,     \* the handler is registered with the client
    connected,      \* tokens in the channel connected
    fatal,          \* errors in the channel fatal
    queue,          \* the channel messages
    worker,         \* the worker and its message
    syncClosed,     \* historySyncClosed
    sync,           \* the goroutine of each history sync
    results,        \* results in the channel onDemandProcessed
    resultsClosed,  \* and whether it is closed
    server,         \* the control server: off, up, closing, closed
    call,           \* event each running call of the handler has
    delivered,      \* events the library has handed over
    \* Kept for the properties:
    handled,        \* messages the worker is done with
    refused,        \* messages dropped because the queue was full
    failed          \* a fatal event was seen by the handler

vars == <<phase, signalled, cancelled, online, registered, connected, fatal, queue,
          worker, syncClosed, sync, results, resultsClosed, server, call,
          delivered, handled, refused, failed>>

client  == <<signalled, online, delivered>>
queueing == <<queue, worker, handled, refused>>
syncing == <<syncClosed, sync, results, resultsClosed>>

Events == Messages \cup Syncs \cup {"connected", "fatal"}

Phases == {"connect", "wait", "sleep", "ready", "run", "closeServer", "remove", "disconnect",
           "closeSyncs", "cancel", "joinSyncs", "closeResults", "joinWorker",
           "returned", "exit"}

(* The goroutine of a sync: between two messages, writing one, about to    *)
(* send its result, or done.                                               *)
SyncPCs == {"none", "next", "write", "send", "done"}

TypeOK ==
    /\ phase \in Phases
    /\ signalled \in BOOLEAN /\ cancelled \in BOOLEAN /\ online \in BOOLEAN
    /\ registered \in BOOLEAN
    /\ connected \in 0..1 /\ fatal \in 0..1
    /\ queue \in Seq(Messages) /\ Len(queue) <= QueueCap
    /\ worker \in [pc : {"select", "done"}, msg : {None}] \cup [pc : {"handle"}, msg : Messages]
    /\ syncClosed \in BOOLEAN
    /\ sync \in [Syncs -> SyncPCs]
    /\ results \in 0..ResultCap /\ resultsClosed \in BOOLEAN
    /\ server \in {"off", "up", "closing", "closed"}
    /\ call \in [Calls -> Events \cup {None}]
    /\ delivered \subseteq Events
    /\ handled \subseteq Messages /\ refused \subseteq Messages
    /\ failed \in BOOLEAN

Init ==
    /\ phase = "connect"
    /\ signalled = FALSE /\ cancelled = FALSE /\ online = FALSE
    /\ registered = TRUE
    /\ connected = 0 /\ fatal = 0
    /\ queue = << >> /\ worker = [pc |-> "select", msg |-> None]
    /\ syncClosed = FALSE
    /\ sync = [s \in Syncs |-> "none"]
    /\ results = 0 /\ resultsClosed = FALSE
    /\ server = "off"
    /\ call = [k \in Calls |-> None]
    /\ delivered = {} /\ handled = {} /\ refused = {} /\ failed = FALSE

Cancelled == signalled \/ cancelled     \* serveCtx is done

-----------------------------------------------------------------------------
(* Outside: the signal, the state of the connection, the library's calls   *)
(* (a connection may come up again, other events come once).  Only         *)
(* waitForClientReady looks at the state of the connection.                *)
Signal ==
    /\ ~signalled
    /\ signalled' = TRUE
    /\ UNCHANGED <<phase, cancelled, online, registered, connected, fatal, queueing,
                   syncing, server, call, delivered, failed>>

ChangeConnection ==
    /\ phase \in {"wait", "sleep"}
    /\ online' = ~online
    /\ UNCHANGED <<phase, signalled, cancelled, registered, connected, fatal, queueing,
                   syncing, server, call, delivered, failed>>

Deliver(k, e) ==
    /\ registered
    /\ call[k] = None
    /\ e \notin delivered \/ e = "connected"
    /\ call' = [call EXCEPT ![k] = e]
    /\ delivered' = delivered \cup {e}
    /\ UNCHANGED <<phase, signalled, cancelled, online, registered, connected, fatal,
                   queueing, syncing, server, failed>>

-----------------------------------------------------------------------------
(* The event handler, one channel operation or critical section each.      *)
Return(k) == call' = [call EXCEPT ![k] = None]

HandleConnected(k) ==
    /\ call[k] = "connected"
    /\ connected' = 1
    /\ Return(k)
    /\ UNCHANGED <<phase, client, cancelled, registered, fatal, queueing, syncing, server,
                   failed>>

HandleFatalUnbuffered(k) ==     \* faulty: only a waiting Serve is told
    /\ call[k] = "fatal"
    /\ fatal' = IF phase = "run" THEN 1 ELSE fatal
    /\ failed' = TRUE
    /\ Return(k)
    /\ UNCHANGED <<phase, client, cancelled, registered, connected, queueing, syncing,
                   server>>

HandleFatal(k) ==
    /\ call[k] = "fatal"
    /\ fatal' = 1
    /\ failed' = TRUE
    /\ Return(k)
    /\ UNCHANGED <<phase, client, cancelled, registered, connected, queueing, syncing,
                   server>>

HandleMessageDroppingOldest(k) ==   \* faulty: makes room for the new message
    /\ call[k] \in Messages
    /\ queue' = Append(IF Len(queue) < QueueCap THEN queue ELSE Tail(queue), call[k])
    /\ Return(k)
    /\ UNCHANGED <<phase, client, cancelled, registered, connected, fatal, worker, handled,
                   refused, syncing, server, failed>>

HandleMessageUnbounded(k) ==    \* faulty: nothing is dropped
    /\ call[k] \in Messages
    /\ queue' = Append(queue, call[k])
    /\ Return(k)
    /\ UNCHANGED <<phase, client, cancelled, registered, connected, fatal, worker, handled,
                   refused, syncing, server, failed>>

HandleMessageOnceReady(k) ==    \* faulty: passed over until Serve is ready
    /\ call[k] \in Messages
    /\ IF phase = "run" /\ Len(queue) < QueueCap
       THEN queue' = Append(queue, call[k])
       ELSE UNCHANGED queue
    /\ Return(k)
    /\ UNCHANGED <<phase, client, cancelled, registered, connected, fatal, worker, handled,
                   refused, syncing, server, failed>>

(* A full queue drops the message, and only the log says so.               *)
HandleMessage(k) ==
    /\ call[k] \in Messages
    /\ \/ /\ Len(queue) < QueueCap
          /\ queue' = Append(queue, call[k])
          /\ UNCHANGED refused
       \/ /\ Len(queue) = QueueCap
          /\ refused' = refused \cup {call[k]}
          /\ UNCHANGED queue
    /\ Return(k)
    /\ UNCHANGED <<phase, client, cancelled, registered, connected, fatal, worker, handled,
                   syncing, server, failed>>

StartSync(s) == sync' = [sync EXCEPT ![s] = "next"]

HandleSyncAlways(k) ==          \* faulty: historySyncClosed is not looked at
    /\ call[k] \in Syncs
    /\ StartSync(call[k])
    /\ Return(k)
    /\ UNCHANGED <<phase, client, cancelled, registered, connected, fatal, queueing,
                   syncClosed, results, resultsClosed, server, failed>>

(* Under historySyncMu: the goroutine is counted before it starts.         *)
HandleSync(k) ==
    /\ call[k] \in Syncs
    /\ \/ syncClosed /\ UNCHANGED sync
       \/ ~syncClosed /\ StartSync(call[k])
    /\ Return(k)
    /\ UNCHANGED <<phase, client, cancelled, registered, connected, fatal, queueing,
                   syncClosed, results, resultsClosed, server, failed>>

-----------------------------------------------------------------------------
(* The worker: select takes either case when both are ready.               *)
TakeMessage ==
    /\ worker.pc = "select"
    /\ queue # << >>
    /\ worker' = [pc |-> "handle", msg |-> Head(queue)]
    /\ queue' = Tail(queue)
    /\ UNCHANGED <<phase, client, cancelled, registered, connected, fatal, handled, refused,
                   syncing, server, call, failed>>

FinishMessage ==
    /\ worker.pc = "handle"
    /\ worker' = [pc |-> "select", msg |-> None]
    /\ handled' = handled \cup {worker.msg}
    /\ UNCHANGED <<phase, client, cancelled, registered, connected, fatal, queue, refused,
                   syncing, server, call, failed>>

StopWorker ==
    /\ worker.pc = "select"
    /\ Cancelled
    /\ worker' = [pc |-> "done", msg |-> None]
    /\ UNCHANGED <<phase, client, cancelled, registered, connected, fatal, queue, handled,
                   refused, syncing, server, call, failed>>

-----------------------------------------------------------------------------
(* The goroutine of a history sync looks at ctx before each message.  A    *)
(* sync has any number of messages.                                        *)
NextInSync(s) ==
    /\ sync[s] = "next"
    /\ \/ ~Cancelled /\ sync' = [sync EXCEPT ![s] = "write"]
       \/ sync' = [sync EXCEPT ![s] = IF s \in OnDemand THEN "send" ELSE "done"]
    /\ UNCHANGED <<phase, client, cancelled, registered, connected, fatal, queueing,
                   syncClosed, results, resultsClosed, server, call, failed>>

WriteInSync(s) ==
    /\ sync[s] = "write"
    /\ sync' = [sync EXCEPT ![s] = "next"]
    /\ UNCHANGED <<phase, client, cancelled, registered, connected, fatal, queueing,
                   syncClosed, results, resultsClosed, server, call, failed>>

SendResult(s) ==
    /\ sync[s] = "send"
    /\ results' = IF results < ResultCap THEN results + 1 ELSE results
    /\ sync' = [sync EXCEPT ![s] = "done"]
    /\ UNCHANGED <<phase, client, cancelled, registered, connected, fatal, queueing,
                   syncClosed, resultsClosed, server, call, failed>>

(* A backfill request of the control server receives.                      *)
TakeResult ==
    /\ server # "off"
    /\ results > 0
    /\ results' = results - 1
    /\ UNCHANGED <<phase, client, cancelled, registered, connected, fatal, queueing,
                   syncClosed, sync, resultsClosed, server, call, failed>>

-----------------------------------------------------------------------------
(* Serve itself.                                                           *)
GoTo(p) == phase' = p

Connect ==
    /\ phase = "connect"
    /\ GoTo("wait") \/ GoTo("remove")
    /\ UNCHANGED <<client, cancelled, registered, connected, fatal, queueing, syncing,
                   server, call, failed>>

(* waitForClientReady: looks, sleeps until a token, a tick, the signal or   *)
(* the thirty seconds; then it looks again, or gives up unseeing.          *)
WaitReady ==
    \/ /\ phase = "wait"
       /\ GoTo(IF online THEN "ready" ELSE "sleep")
       /\ UNCHANGED <<client, cancelled, registered, connected, fatal, queueing, syncing,
                      server, call, failed>>
    \/ /\ phase = "sleep"
       /\ GoTo("wait")
       /\ connected' \in {0, connected}
       /\ UNCHANGED <<client, cancelled, registered, fatal, queueing, syncing, server,
                      call, failed>>

GiveUp ==
    /\ phase = "sleep"
    /\ GoTo("remove")
    /\ UNCHANGED <<client, cancelled, registered, connected, fatal, queueing, syncing,
                   server, call, failed>>

StartServer ==
    /\ phase = "ready"
    /\ \/ GoTo("run") /\ server' = "up"
       \/ GoTo("remove") /\ UNCHANGED server
    /\ UNCHANGED <<client, cancelled, registered, connected, fatal, queueing, syncing, call,
                   failed>>

EndRun ==
    /\ phase = "run"
    /\ \/ signalled /\ UNCHANGED fatal
       \/ fatal = 1 /\ fatal' = 0
    /\ GoTo("closeServer")
    /\ UNCHANGED <<client, cancelled, registered, connected, queueing, syncing, server,
                   call, failed>>

(* Server.Close runs once, called by Serve's defer or by the goroutine     *)
(* that waits for serveCtx; it closes the listener and waits for the       *)
(* accept loop, which then ends.                                           *)
CloseServer ==
    /\ server = "up"
    /\ phase = "closeServer" \/ Cancelled
    /\ server' = "closing"
    /\ UNCHANGED <<phase, client, cancelled, registered, connected, fatal, queueing,
                   syncing, call, failed>>

EndAcceptLoop ==
    /\ server = "closing"
    /\ server' = "closed"
    /\ UNCHANGED <<phase, client, cancelled, registered, connected, fatal, queueing,
                   syncing, call, failed>>

ServerClosed ==
    /\ phase = "closeServer" /\ server = "closed"
    /\ GoTo("remove")
    /\ UNCHANGED <<client, cancelled, registered, connected, fatal, queueing, syncing,
                   server, call, failed>>

(* The deferred shutdown, line by line.                                    *)
RemoveHandler ==
    /\ phase = "remove" /\ GoTo("disconnect")
    /\ registered' = FALSE
    /\ UNCHANGED <<client, cancelled, connected, fatal, queueing, syncing, server, call,
                   failed>>

Disconnect ==
    /\ phase = "disconnect" /\ GoTo("closeSyncs")
    /\ online' = FALSE
    /\ UNCHANGED <<signalled, delivered, cancelled, registered, connected, fatal, queueing,
                   syncing, server, call, failed>>

CloseSyncs ==
    /\ phase = "closeSyncs" /\ GoTo("cancel")
    /\ syncClosed' = TRUE
    /\ UNCHANGED <<client, cancelled, registered, connected, fatal, queueing, sync, results,
                   resultsClosed, server, call, failed>>

Cancel ==
    /\ phase = "cancel" /\ GoTo("joinSyncs")
    /\ cancelled' = TRUE
    /\ UNCHANGED <<client, registered, connected, fatal, queueing, syncing, server, call,
                   failed>>

SyncRuns(s) == sync[s] \in {"next", "write", "send"}

JoinSyncs ==
    /\ phase = "joinSyncs" /\ GoTo("closeResults")
    /\ \A s \in Syncs : ~SyncRuns(s)
    /\ UNCHANGED <<client, cancelled, registered, connected, fatal, queueing, syncing,
                   server, call, failed>>

CloseResults ==
    /\ phase = "closeResults" /\ GoTo("joinWorker")
    /\ resultsClosed' = TRUE
    /\ UNCHANGED <<client, cancelled, registered, connected, fatal, queueing, syncClosed,
                   sync, results, server, call, failed>>

JoinNothing ==                  \* faulty: the worker is not waited for
    /\ phase = "joinWorker" /\ GoTo("returned")
    /\ UNCHANGED <<client, cancelled, registered, connected, fatal, queueing, syncing,
                   server, call, failed>>

JoinWorker ==
    /\ phase = "joinWorker" /\ GoTo("returned")
    /\ worker.pc = "done"
    /\ UNCHANGED <<client, cancelled, registered, connected, fatal, queueing, syncing,
                   server, call, failed>>

(* runDaemonMode closes the store, and the process ends.                   *)
CloseStore ==
    /\ phase = "returned" /\ GoTo("exit")
    /\ UNCHANGED <<client, cancelled, registered, connected, fatal, queueing, syncing,
                   server, call, failed>>

-----------------------------------------------------------------------------
Library ==
    \/ Signal
    \/ ChangeConnection
    \/ \E k \in Calls, e \in Events : Deliver(k, e)

Handler(k) == HandleConnected(k) \/ HandleFatal(k) \/ HandleMessage(k) \/ HandleSync(k)

Worker == TakeMessage \/ FinishMessage \/ StopWorker

Sync(s) == NextInSync(s) \/ WriteInSync(s) \/ SendResult(s)

Main ==
    \/ Connect \/ WaitReady \/ GiveUp \/ StartServer \/ EndRun \/ ServerClosed
    \/ RemoveHandler \/ Disconnect \/ CloseSyncs \/ Cancel
    \/ JoinSyncs \/ CloseResults \/ JoinWorker \/ CloseStore

Server == CloseServer \/ EndAcceptLoop

Exited == phase = "exit" /\ UNCHANGED vars

Next ==
    \/ /\ phase # "exit"
       /\ \/ Library
          \/ \E k \in Calls : Handler(k)
          \/ Worker
          \/ \E s \in Syncs : Sync(s)
          \/ TakeResult
          \/ Main
          \/ Server
    \/ Exited

Spec == Init /\ [][Next]_vars

(* Goroutines run, a message is handled within bounded time (a download    *)
(* ends with ctx), and the thirty seconds pass.  Nobody need receive a     *)
(* result or send a signal.                                                *)
Fairness ==
    /\ WF_vars(phase # "exit" /\ Main)
    /\ SF_vars(GiveUp)
    /\ WF_vars(phase # "exit" /\ Server)
    /\ WF_vars(phase # "exit" /\ FinishMessage)
    /\ WF_vars(phase # "exit" /\ Worker)
    /\ \A s \in Syncs : WF_vars(phase # "exit" /\ Sync(s))

FairSpec == Spec /\ Fairness

-----------------------------------------------------------------------------
(***************************************************************************)
(* When Serve has returned -- the store is closed next -- neither its      *)
(* worker nor a history sync is at work, and none starts any more, though  *)
(* calls of the handler may still be running (auth.go, the deferred        *)
(* shutdown).                                                              *)
(***************************************************************************)
QuietAfterReturn ==
    phase \in {"returned", "exit"} =>
        /\ worker.pc = "done"
        /\ \A s \in Syncs : ~SyncRuns(s)

(***************************************************************************)
(* No goroutine of a history sync is left that would send a result on the  *)
(* closed channel: Go panics on that (auth.go, close(onDemandProcessed)).  *)
(***************************************************************************)
NoSendOnClosed == resultsClosed => \A s \in Syncs : ~SyncRuns(s)

(***************************************************************************)
(* The queue and the worker keep the promise of Inbox: each message is     *)
(* refused on arrival, or handled once and in its turn, or given up with   *)
(* the worker (auth.go:154-171, 185-195).                                  *)
(***************************************************************************)
Promise == INSTANCE Inbox WITH
    Capacity <- QueueCap,
    waiting  <- queue,
    working  <- IF worker.pc = "handle" THEN {worker.msg} ELSE {},
    open     <- worker.pc # "done"

KeepsPromise == Promise!Spec

(***************************************************************************)
(* Each message handed over is in exactly one place: with the call of the  *)
(* handler, at one position of the queue, with the worker, done, or        *)
(* refused.  Nothing vanishes between the handler, the channel and the     *)
(* worker, and nothing is there twice; Inbox alone says only the latter    *)
(* (auth.go:154-171, 185-195).                                             *)
(***************************************************************************)
HeldBy(m) ==
    ({"call"} \X {k \in Calls : call[k] = m})
    \cup ({"queue"} \X {i \in DOMAIN queue : queue[i] = m})
    \cup ({"worker"} \X ({worker.msg} \cap {m}))
    \cup ({"handled"} \X (handled \cap {m}))
    \cup ({"refused"} \X (refused \cap {m}))

InOnePlace == \A m \in Messages :
    IF m \in delivered THEN \E p \in HeldBy(m) : HeldBy(m) = {p}
                       ELSE HeldBy(m) = {}

(***************************************************************************)
(* Whatever Serve waits for is there or still comes: a fatal event seen by *)
(* the handler -- also one that came before Serve waits for it -- is in    *)
(* the channel until Serve has taken it or ends anyway; the control server *)
(* whose end it waits for was started; and it waits for the history syncs  *)
(* and the worker only after cancel (auth.go:152-247).                     *)
(***************************************************************************)
StopIsHeard ==
    /\ failed /\ phase \in {"connect", "wait", "sleep", "ready", "run"} => fatal = 1
    /\ phase = "closeServer" => server # "off"
    /\ phase \in {"joinSyncs", "joinWorker"} => cancelled

(* The daemon ends after a signal and after a fatal event -- logged out,   *)
(* replaced by another client -- wherever Serve stands then, also one that *)
(* comes before Serve waits for it, with full channels and history syncs   *)
(* under way (auth.go:192, 235).                                           *)
StopEndsServe == signalled \/ failed ~> phase = "exit"

=============================================================================
