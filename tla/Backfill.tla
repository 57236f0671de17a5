------------------------------- MODULE Backfill -------------------------------
(***************************************************************************)
(* Backfill requests of the control socket: handleConn, Executor.Execute   *)
(* (internal/control/control.go), the chunk it asks of the owner's phone,  *)
(* and the history syncs that answer (internal/backfill/backfill.go,       *)
(* internal/auth/auth.go).                                                 *)
(*                                                                         *)
(* handleConn caps the limit of a request at one chunk, so the loop of     *)
(* RunProcessedRequests runs once.  An answer carries no mark of the       *)
(* request it answers; it is known by its chat.  Time does not appear: a   *)
(* timer may fire whenever it runs.                                        *)
(***************************************************************************)
EXTENDS Naturals, Sequences

CONSTANTS
    Requests,       \* connections, each with one backfill request
    Chats,
    ResultCap,      \* capacity of onDemandProcessed, 8 in the code
    None

ASSUME CapAssumption == ResultCap \in Nat \ {0}
ASSUME NoneAssumption == None \notin Requests \cup Chats

VARIABLES
    chat,           \* the chat a request is for
    pc,             \* where the connection of a request stands
    verdict,        \* the verdict of its done event
    mutex,          \* the request that holds requestMu
    gone,           \* requests whose client hung up
    sync,           \* how far the answer of the phone has come
    empty,          \* requests answered by a sync without their chat
    results,        \* the channel onDemandProcessed: whose answers, in order
    got,            \* the answer a request has received
    online,         \* IsConnected and IsLoggedIn of the client
    stage,          \* of the daemon's shutdown
    ingested        \* answers whose messages were all handled (for the properties)

vars == <<chat, pc, verdict, mutex, gone, sync, empty, results, got, online, stage,
          ingested>>

(* queued: waits for requestMu; unready, stable: the connection was last   *)
(* seen down, or up; sent: the request went out; wait: for a result.       *)
PCs == {"idle", "queued", "anchor", "unready", "stable", "send", "sent", "wait", "judge", "done"}

(* asked: the phone may answer; ingest: its sync is at work; send: about   *)
(* to send its result; sent or dropped: it has, or the channel was full.   *)
SyncPCs == {"none", "asked", "ingest", "send", "sent", "dropped"}

(* Serve's context, the control server's, the channel, the process:        *)
(* closing: the server's ends first, after a fatal event; cancelled: both  *)
(* have; closed: no sync runs and the channel is closed.                   *)
Stages == {"run", "closing", "cancelled", "closed", "exit"}

Verdicts == {"VIABLE", "UNAVAILABLE", "ERROR"}

TypeOK ==
    /\ chat \in [Requests -> Chats \cup {None}]
    /\ pc \in [Requests -> PCs]
    /\ verdict \in [Requests -> Verdicts \cup {None}]
    /\ mutex \in Requests \cup {None}
    /\ gone \subseteq Requests
    /\ sync \in [Requests -> SyncPCs]
    /\ empty \subseteq Requests
    /\ results \in Seq(Requests) /\ Len(results) <= ResultCap
    /\ got \in [Requests -> Requests \cup {None}]
    /\ online \in BOOLEAN
    /\ stage \in Stages
    /\ ingested \subseteq Requests

Init ==
    /\ chat = [c \in Requests |-> None]
    /\ pc = [c \in Requests |-> "idle"]
    /\ verdict = [c \in Requests |-> None]
    /\ mutex = None
    /\ gone = {}
    /\ sync = [c \in Requests |-> "none"]
    /\ empty = {}
    /\ results = << >>
    /\ got = [c \in Requests |-> None]
    /\ online \in BOOLEAN
    /\ stage = "run"
    /\ ingested = {}

ServerDone == stage # "run"     \* the context of the requests is done

held    == <<verdict, mutex, gone, got>>
answers == <<sync, empty, ingested>>
daemon  == <<online, stage>>

GoTo(c, p) == pc' = [pc EXCEPT ![c] = p]

(* The done event; requestMu, if held, is unlocked.                        *)
End(c, v) ==
    /\ GoTo(c, "done")
    /\ verdict' = [verdict EXCEPT ![c] = v]
    /\ gone' = gone \ {c}
    /\ got' = [got EXCEPT ![c] = None]

-----------------------------------------------------------------------------
(* A connection up to the lock.  The allowlist may let it in or not; the   *)
(* lock is waited for whatever becomes of the client or the server.        *)
Arrive(c, j) ==
    /\ pc[c] = "idle"
    /\ chat' = [chat EXCEPT ![c] = j]
    /\ \/ GoTo(c, "queued") /\ UNCHANGED <<verdict, gone, got>>
       \/ End(c, "ERROR")
    /\ UNCHANGED <<mutex, results, answers, daemon>>

HangUp(c) ==
    /\ pc[c] \notin {"idle", "done"}
    /\ gone' = gone \cup {c}
    /\ UNCHANGED <<chat, pc, verdict, mutex, got, results, answers, daemon>>

LockNothing(c) ==               \* faulty: requests are served side by side
    /\ pc[c] = "queued"
    /\ mutex' = c
    /\ GoTo(c, "anchor")
    /\ UNCHANGED <<chat, verdict, gone, got, results, answers, daemon>>

Lock(c) ==
    /\ pc[c] = "queued"
    /\ mutex = None
    /\ mutex' = c
    /\ GoTo(c, "anchor")
    /\ UNCHANGED <<chat, verdict, gone, got, results, answers, daemon>>

Fail(c) == End(c, "ERROR") /\ mutex' = None

ResolveAnchor(c) ==
    /\ pc[c] = "anchor"
    /\ \/ /\ ~ServerDone
          /\ GoTo(c, "unready")
          /\ UNCHANGED held
       \/ Fail(c)
    /\ UNCHANGED <<chat, results, answers, daemon>>

(* waitForPeerSendReady polls until the connection was up long enough.     *)
PollReady(c) ==
    /\ \/ pc[c] = "unready" /\ online /\ GoTo(c, "stable")
       \/ pc[c] = "stable" /\ online /\ GoTo(c, "send")
       \/ pc[c] = "stable" /\ ~online /\ GoTo(c, "unready")
    /\ UNCHANGED <<chat, held, results, answers, daemon>>

(* Ten seconds for all attempts, or the context is done.                   *)
GiveUp(c) ==
    /\ pc[c] \in {"unready", "stable"}
    /\ Fail(c)
    /\ UNCHANGED <<chat, results, answers, daemon>>

(* A lost connection is tried again; any other failure is final, and the   *)
(* request may have gone out before it.                                    *)
Send(c) ==
    /\ pc[c] = "send"
    /\ \/ /\ online
          /\ sync' = [sync EXCEPT ![c] = "asked"]
          /\ \/ GoTo(c, "sent") /\ UNCHANGED held
             \/ Fail(c)
       \/ /\ ~online
          /\ GoTo(c, "unready")
          /\ UNCHANGED <<held, sync>>
       \/ Fail(c) /\ UNCHANGED sync
    /\ UNCHANGED <<chat, results, empty, ingested, daemon>>

EmitSentHoldingLock(c) ==       \* faulty: requestMu stays locked on that return
    /\ pc[c] = "sent"
    /\ \/ c \notin gone /\ GoTo(c, "wait") /\ UNCHANGED held
       \/ c \in gone /\ End(c, "ERROR") /\ UNCHANGED mutex
    /\ UNCHANGED <<chat, results, answers, daemon>>

(* request_sent cannot be written to a client that hung up: the request is *)
(* over, and its answer is still to come.                                  *)
EmitSent(c) ==
    /\ pc[c] = "sent"
    /\ \/ c \notin gone /\ GoTo(c, "wait") /\ UNCHANGED held
       \/ c \in gone /\ Fail(c)
    /\ UNCHANGED <<chat, results, answers, daemon>>

MatchesAny(r, c) == r \notin empty      \* faulty: any chat will do

(* historySyncHasConversation of the chat asked for.                       *)
Matches(r, c) == r \notin empty /\ chat[r] = chat[c]

Receive(c) ==
    /\ pc[c] = "wait"
    /\ results # << >>
    /\ results' = Tail(results)
    /\ \/ /\ Matches(Head(results), c)
          /\ got' = [got EXCEPT ![c] = Head(results)]
          /\ GoTo(c, "judge")
       \/ ~Matches(Head(results), c) /\ UNCHANGED <<pc, got>>
    /\ UNCHANGED <<chat, verdict, mutex, gone, answers, daemon>>

(* The timer, or the closed channel; or the context.                       *)
StopWaiting(c) ==
    /\ pc[c] = "wait"
    /\ mutex' = None
    /\ \/ End(c, "UNAVAILABLE")
       \/ ServerDone /\ End(c, "ERROR")
    /\ UNCHANGED <<chat, results, answers, daemon>>

(* Whether the answer holds media and reaches back from the anchor on its  *)
(* day is left open; two more events must reach the client first.          *)
Judge(c) ==
    /\ pc[c] = "judge"
    /\ mutex' = None
    /\ \/ c \notin gone /\ \E v \in {"VIABLE", "UNAVAILABLE"} : End(c, v)
       \/ c \in gone /\ End(c, "ERROR")
    /\ UNCHANGED <<chat, results, answers, daemon>>

-----------------------------------------------------------------------------
(* The phone answers when it likes, or never; the event starts a goroutine *)
(* that handles the messages and then sends the result.                    *)
Answer(r) ==
    /\ sync[r] = "asked"
    /\ online
    /\ stage \in {"run", "closing", "cancelled"}
    /\ sync' = [sync EXCEPT ![r] = "ingest"]
    /\ empty' \in {empty, empty \cup {r}}
    /\ UNCHANGED <<chat, pc, held, results, ingested, daemon>>

(* A cancelled context may end it before all messages are handled.         *)
Ingest(r) ==
    /\ sync[r] = "ingest"
    /\ sync' = [sync EXCEPT ![r] = "send"]
    /\ \/ ingested' = ingested \cup {r}
       \/ stage = "cancelled" /\ UNCHANGED ingested
    /\ UNCHANGED <<chat, pc, held, results, empty, daemon>>

SendToReceiver(r) ==            \* faulty: the channel has no buffer
    /\ sync[r] = "send"
    /\ \/ /\ results = << >> /\ \E c \in Requests : pc[c] = "wait"
          /\ results' = Append(results, r)
          /\ sync' = [sync EXCEPT ![r] = "sent"]
       \/ /\ ~(results = << >> /\ \E c \in Requests : pc[c] = "wait")
          /\ sync' = [sync EXCEPT ![r] = "sent"]
          /\ UNCHANGED results
    /\ UNCHANGED <<chat, pc, held, empty, ingested, daemon>>

SendOverCapacity(r) ==          \* faulty: the channel grows
    /\ sync[r] = "send"
    /\ results' = Append(results, r)
    /\ sync' = [sync EXCEPT ![r] = "sent"]
    /\ UNCHANGED <<chat, pc, held, empty, ingested, daemon>>

SendResult(r) ==
    /\ sync[r] = "send"
    /\ \/ /\ Len(results) < ResultCap
          /\ results' = Append(results, r)
          /\ sync' = [sync EXCEPT ![r] = "sent"]
       \/ /\ Len(results) = ResultCap
          /\ sync' = [sync EXCEPT ![r] = "dropped"]
          /\ UNCHANGED results
    /\ UNCHANGED <<chat, pc, held, empty, ingested, daemon>>

-----------------------------------------------------------------------------
(* The connection and the shutdown (module Serve has it line by line).     *)
ChangeConnection ==
    /\ stage \in {"run", "closing", "cancelled"}
    /\ online' = ~online
    /\ UNCHANGED <<chat, pc, held, results, answers, stage>>

Shutdown ==
    /\ \/ stage = "run" /\ stage' \in {"closing", "cancelled"}
       \/ stage = "closing" /\ stage' = "cancelled"
       \/ stage = "closed" /\ stage' = "exit"
    /\ UNCHANGED <<chat, pc, held, results, answers, online>>

CloseResults ==
    /\ stage = "cancelled"
    /\ \A r \in Requests : sync[r] \notin {"ingest", "send"}
    /\ stage' = "closed"
    /\ online' = FALSE
    /\ UNCHANGED <<chat, pc, held, results, answers>>

-----------------------------------------------------------------------------
Request(c) ==
    \/ Lock(c) \/ ResolveAnchor(c) \/ PollReady(c) \/ GiveUp(c) \/ Send(c)
    \/ EmitSent(c) \/ Receive(c) \/ StopWaiting(c) \/ Judge(c)

Sync(r) == Answer(r) \/ Ingest(r) \/ SendResult(r)

Exited == stage = "exit" /\ UNCHANGED vars

Next ==
    \/ /\ stage # "exit"
       /\ \/ \E c \in Requests :
                \/ \E j \in Chats : Arrive(c, j)
                \/ HangUp(c) \/ Request(c) \/ Sync(c)
          \/ ChangeConnection \/ Shutdown \/ CloseResults
    \/ Exited

Spec == Init /\ [][Next]_vars

(* The goroutine of a connection runs, and the ten seconds pass while it   *)
(* looks for a connection that comes and goes.                             *)
Fairness ==
    \A c \in Requests :
        /\ WF_vars(stage # "exit" /\ Request(c))
        /\ SF_vars(stage # "exit" /\ GiveUp(c))

FairSpec == Spec /\ Fairness

-----------------------------------------------------------------------------
(***************************************************************************)
(* An answer that another request takes is left over: the request it was   *)
(* sent for is over.  Nothing in the answer says so; it rests on requestMu *)
(* being held from before the send until after the verdict.                *)
(***************************************************************************)
NoStolenAnswer ==
    \A c \in Requests :
        pc[c] = "judge" /\ got[c] # c => pc[got[c]] = "done"

(***************************************************************************)
(* An answer that comes before its request waits for it -- the client is   *)
(* still being told of request_sent -- is not lost: it is in the channel,  *)
(* unless the channel was full.                                            *)
(***************************************************************************)
EarlyAnswerKept ==
    \A c \in Requests :
        pc[c] \in {"sent", "wait"} /\ sync[c] = "sent" /\ c \notin empty =>
            \E i \in DOMAIN results : results[i] = c

(***************************************************************************)
(* Requests implement OneVerdict: one is served at a time, each ends once, *)
(* after it was served, and VIABLE only when the messages of a sync of the *)
(* chat are handled, or the daemon is stopping.                            *)
(***************************************************************************)
Promise == INSTANCE OneVerdict WITH
    state    <- [c \in Requests |->
                   IF pc[c] \in {"idle", "queued", "done"} THEN pc[c] ELSE "served"],
    down     <- stage \in {"cancelled", "closed", "exit"}

KeepsPromise == Promise!Spec

(* Every request that was let in gets its verdict, or the daemon ends:     *)
(* whichever clients hang up, phones keep silent, connections come and go. *)
EveryRequestEnds ==
    \A c \in Requests : pc[c] = "queued" ~> pc[c] = "done" \/ stage = "exit"

=============================================================================
