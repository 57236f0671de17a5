------------------------------- MODULE Changes -------------------------------
(***************************************************************************)
(* Change subscriptions: a client of the control socket watches one chat   *)
(* and is told when the daemon committed something to it                   *)
(* (internal/control/changes.go, handleConn in control.go).  The wake-ups  *)
(* come from listener.HandleResult, called by the live worker and by the   *)
(* goroutines of history syncs, after Writer.Write returned.               *)
(*                                                                         *)
(* A wake-up carries no message: the client reads the database whenever it *)
(* gets an event.  A chat's rows are a counter of commits.                 *)
(***************************************************************************)
EXTENDS Integers

CONSTANTS
    Chats,
    Handlers,       \* goroutines that may be in HandleResult at once
    Conns,          \* slots for connections of clients
    Selects,        \* Conns -> the chat a client asks for
    MaxCommits      \* bound on the messages per chat

ASSUME ConnsAssumption == Selects \in [Conns -> Chats]
ASSUME BoundAssumption == MaxCommits \in Nat

VARIABLES
    committed,  \* per chat, commits to its rows
    owned,      \* chats that belong to their client's tenant alone
    handler,    \* where each handler stands, and with which chat
    conn,       \* where watchChanges stands for each connection
    wake,       \* tokens in the one-slot channel of a subscription
    inbox,      \* events sent to the client and not yet received
    client,     \* whether the client is about to read the database
    seen,       \* commits the client's last reading showed it
    \* Kept for the properties:
    known,      \* commits that events sent on a connection may speak of
    lastOwned,  \* commits a chat had when it last was owned
    unwoken     \* chats with a failed media write since their last wake

vars == <<committed, owned, handler, conn, wake, inbox, client, seen, known,
          lastOwned, unwoken>>

None == "none"

ConnStates == {"off", "accepted", "subscribed", "waiting", "woke", "sending"}

TypeOK ==
    /\ committed \in [Chats -> Nat]
    /\ owned \subseteq Chats
    /\ handler \in [Handlers -> [pc : {"idle"}, chat : {None}]
                                \cup [pc : {"media", "notify"}, chat : Chats]]
    /\ conn \in [Conns -> ConnStates]
    /\ wake \in [Conns -> 0..1]
    /\ inbox \in [Conns -> Nat]
    /\ client \in [Conns -> {"idle", "reading"}]
    /\ seen \in [Conns -> Nat]
    /\ known \in [Conns -> Nat]
    /\ lastOwned \in [Chats -> Nat]
    /\ unwoken \subseteq Chats

Idle == [pc |-> "idle", chat |-> None]

Init ==
    /\ committed = [j \in Chats |-> 0]
    /\ owned = Chats
    /\ handler = [h \in Handlers |-> Idle]
    /\ conn = [c \in Conns |-> "off"]
    /\ wake = [c \in Conns |-> 0]
    /\ inbox = [c \in Conns |-> 0]
    /\ client = [c \in Conns |-> "idle"]
    /\ seen = [c \in Conns |-> 0]
    /\ known = [c \in Conns |-> 0]
    /\ lastOwned = [j \in Chats |-> 0]
    /\ unwoken = {}

-----------------------------------------------------------------------------
(***************************************************************************)
(* Writing.  The first transaction commits the row; media bytes are then   *)
(* written to a file and a second transaction records the path.  The wake  *)
(* comes when Write has returned without an error.  MaxCommits bounds the  *)
(* messages, not their media.                                              *)
(***************************************************************************)
Commit(j) ==
    /\ committed' = [committed EXCEPT ![j] = @ + 1]
    /\ lastOwned' = IF j \in owned THEN [lastOwned EXCEPT ![j] = committed'[j]]
                    ELSE lastOwned

HandleCommit(h, j, media) ==
    /\ handler[h] = Idle
    /\ committed[j] < MaxCommits
    /\ Commit(j)
    /\ handler' = [handler EXCEPT
                     ![h] = [pc |-> IF media THEN "media" ELSE "notify", chat |-> j]]
    /\ UNCHANGED <<owned, conn, wake, inbox, client, seen, known, unwoken>>

HandleMediaOK(h) ==
    /\ handler[h].pc = "media"
    /\ Commit(handler[h].chat)
    /\ handler' = [handler EXCEPT ![h].pc = "notify"]
    /\ UNCHANGED <<owned, conn, wake, inbox, client, seen, known, unwoken>>

(* HandleResult returns the error: no wake for the row already committed.  *)
HandleMediaFailure(h) ==
    /\ handler[h].pc = "media"
    /\ handler' = [handler EXCEPT ![h] = Idle]
    /\ unwoken' = unwoken \cup {handler[h].chat}
    /\ UNCHANGED <<committed, owned, conn, wake, inbox, client, seen, known, lastOwned>>

Subscribed(c) == conn[c] \notin {"off", "accepted"}

NotifyFirst(h) ==               \* faulty: one subscriber takes the wake
    /\ handler[h].pc = "notify"
    /\ \/ \E c \in Conns :
            /\ Subscribed(c) /\ Selects[c] = handler[h].chat
            /\ wake' = [wake EXCEPT ![c] = 1]
       \/ /\ \A c \in Conns : ~(Subscribed(c) /\ Selects[c] = handler[h].chat)
          /\ UNCHANGED wake
    /\ handler' = [handler EXCEPT ![h] = Idle]
    /\ unwoken' = unwoken \ {handler[h].chat}
    /\ UNCHANGED <<committed, owned, conn, inbox, client, seen, known, lastOwned>>

NotifyUncoalesced(h) ==        \* faulty: a token for each commit
    /\ handler[h].pc = "notify"
    /\ wake' = [c \in Conns |->
                  IF Subscribed(c) /\ Selects[c] = handler[h].chat
                  THEN wake[c] + 1 ELSE wake[c]]
    /\ handler' = [handler EXCEPT ![h] = Idle]
    /\ unwoken' = unwoken \ {handler[h].chat}
    /\ UNCHANGED <<committed, owned, conn, inbox, client, seen, known, lastOwned>>

(* Changes.Notify: a token for every subscription of the chat; one that    *)
(* is there already stands for this commit too.                            *)
Notify(h) ==
    /\ handler[h].pc = "notify"
    /\ wake' = [c \in Conns |->
                  IF Subscribed(c) /\ Selects[c] = handler[h].chat THEN 1
                  ELSE wake[c]]
    /\ handler' = [handler EXCEPT ![h] = Idle]
    /\ unwoken' = unwoken \ {handler[h].chat}
    /\ UNCHANGED <<committed, owned, conn, inbox, client, seen, known, lastOwned>>

-----------------------------------------------------------------------------
(***************************************************************************)
(* A connection.  handleConn accepts a watch of an exactly-owned chat;     *)
(* watchChanges then subscribes, before it says ready, and does not look   *)
(* at the owner again until the first token.                               *)
(***************************************************************************)
Accept(c) ==
    /\ conn[c] = "off"
    /\ Selects[c] \in owned
    /\ conn' = [conn EXCEPT ![c] = "accepted"]
    /\ inbox' = [inbox EXCEPT ![c] = 0]
    /\ client' = [client EXCEPT ![c] = "idle"]
    /\ known' = [known EXCEPT ![c] = 0]
    /\ UNCHANGED <<committed, owned, handler, wake, seen, lastOwned, unwoken>>

Subscribe(c) ==
    /\ conn[c] = "accepted"
    /\ conn' = [conn EXCEPT ![c] = "subscribed"]
    /\ wake' = [wake EXCEPT ![c] = 0]
    /\ UNCHANGED <<committed, owned, handler, inbox, client, seen, known, lastOwned, unwoken>>

Send(c) == inbox' = [inbox EXCEPT ![c] = @ + 1]

SendReady(c) ==
    /\ conn[c] = "subscribed"
    /\ Send(c)
    /\ conn' = [conn EXCEPT ![c] = "waiting"]
    /\ UNCHANGED <<committed, owned, handler, wake, client, seen, known, lastOwned, unwoken>>

TakeWake(c) ==
    /\ conn[c] = "waiting"
    /\ wake[c] > 0
    /\ wake' = [wake EXCEPT ![c] = @ - 1]
    /\ conn' = [conn EXCEPT ![c] = "woke"]
    /\ known' = [known EXCEPT ![c] = committed[Selects[c]]]
    /\ UNCHANGED <<committed, owned, handler, inbox, client, seen, lastOwned, unwoken>>

CheckNothing(c) ==              \* faulty: ownership is not looked up again
    /\ conn[c] = "woke"
    /\ conn' = [conn EXCEPT ![c] = "sending"]
    /\ UNCHANGED <<committed, owned, handler, wake, inbox, client, seen, known,
                   lastOwned, unwoken>>

CheckAndSkip(c) ==              \* faulty: the wake is dropped, the client kept
    /\ conn[c] = "woke"
    /\ conn' = [conn EXCEPT ![c] = IF Selects[c] \in owned THEN "sending" ELSE "waiting"]
    /\ UNCHANGED <<committed, owned, handler, wake, inbox, client, seen, known,
                   lastOwned, unwoken>>

(* The group is looked up again; a chat that is gone or shared ends it.    *)
CheckOwner(c) ==
    /\ conn[c] = "woke"
    /\ conn' = [conn EXCEPT ![c] = IF Selects[c] \in owned THEN "sending" ELSE "off"]
    /\ UNCHANGED <<committed, owned, handler, wake, inbox, client, seen, known,
                   lastOwned, unwoken>>

SendChanged(c) ==
    /\ conn[c] = "sending"
    /\ Send(c)
    /\ conn' = [conn EXCEPT ![c] = "waiting"]
    /\ UNCHANGED <<committed, owned, handler, wake, client, seen, known, lastOwned, unwoken>>

(* The client hung up, a write passed its deadline, or the server stops.   *)
Close(c) ==
    /\ conn[c] # "off"
    /\ conn' = [conn EXCEPT ![c] = "off"]
    /\ UNCHANGED <<committed, owned, handler, wake, inbox, client, seen, known,
                   lastOwned, unwoken>>

(* The client: an event makes it read the database, a moment later, even   *)
(* if the server has closed the connection meanwhile.                      *)
ClientReceive(c) ==
    /\ client[c] = "idle"
    /\ inbox[c] > 0
    /\ inbox' = [inbox EXCEPT ![c] = @ - 1]
    /\ client' = [client EXCEPT ![c] = "reading"]
    /\ UNCHANGED <<committed, owned, handler, conn, wake, seen, known, lastOwned, unwoken>>

ClientRead(c) ==
    /\ client[c] = "reading"
    /\ seen' = [seen EXCEPT ![c] = committed[Selects[c]]]
    /\ client' = [client EXCEPT ![c] = "idle"]
    /\ UNCHANGED <<committed, owned, handler, conn, wake, inbox, known, lastOwned, unwoken>>

-----------------------------------------------------------------------------
(* The allowlist is edited: the chat is removed, shared, or given back.    *)
Reconfigure(j) ==
    /\ owned' = IF j \in owned THEN owned \ {j} ELSE owned \cup {j}
    /\ lastOwned' = [lastOwned EXCEPT ![j] = committed[j]]
    /\ UNCHANGED <<committed, handler, conn, wake, inbox, client, seen, known, unwoken>>

(* The daemon dies between any two steps; rows and clients remain.         *)
Crash ==
    /\ handler' = [h \in Handlers |-> Idle]
    /\ conn' = [c \in Conns |-> "off"]
    /\ UNCHANGED <<committed, owned, wake, inbox, client, seen, known, lastOwned, unwoken>>

Handle(h) ==
    \/ \E j \in Chats, media \in BOOLEAN : HandleCommit(h, j, media)
    \/ HandleMediaOK(h)
    \/ HandleMediaFailure(h)
    \/ Notify(h)

ServeConn(c) ==
    \/ Subscribe(c)
    \/ SendReady(c)
    \/ TakeWake(c)
    \/ CheckOwner(c)
    \/ SendChanged(c)

Client(c) == ClientReceive(c) \/ ClientRead(c)

Next ==
    \/ \E h \in Handlers : Handle(h)
    \/ \E c \in Conns : Accept(c) \/ ServeConn(c) \/ Close(c) \/ Client(c)
    \/ \E j \in Chats : Reconfigure(j)
    \/ Crash

Spec == Init /\ [][Next]_vars

(***************************************************************************)
(* Goroutines run: a connection's loop and a handler past its commit go    *)
(* on, and a client reads what it is sent.  Nobody need connect or write.  *)
(***************************************************************************)
Fairness ==
    /\ \A c \in Conns : WF_vars(ServeConn(c)) /\ WF_vars(Client(c))
    /\ \A h \in Handlers :
          WF_vars(HandleMediaOK(h) \/ HandleMediaFailure(h) \/ Notify(h))

FairSpec == Spec /\ Fairness

-----------------------------------------------------------------------------
(***************************************************************************)
(* changes.go:51: "The live subscription is installed BEFORE ready; a      *)
(* concurrent commit is either observed by the ready snapshot or retained  *)
(* in the coalesced wake."  A live connection whose client has not read    *)
(* all commits has an event, or a token, or a handler on the way to it.    *)
(***************************************************************************)
OnItsWay(c) ==
    \/ conn[c] \in {"subscribed", "woke", "sending"}
    \/ wake[c] > 0
    \/ inbox[c] > 0
    \/ client[c] = "reading"
    \/ \E h \in Handlers : handler[h].pc # "idle" /\ handler[h].chat = Selects[c]

Behind(c) == Subscribed(c) /\ seen[c] < committed[Selects[c]]

ObservedOrRetained == \A c \in Conns : Behind(c) => OnItsWay(c)

(***************************************************************************)
(* The same of a chat none of whose media failed to be written since its   *)
(* last wake: coalescing, edits of the allowlist, hang-ups and restarts    *)
(* lose nothing, and the wake of the next message makes up for a failure.  *)
(***************************************************************************)
NoLostWake ==
    \A c \in Conns : Behind(c) /\ Selects[c] \notin unwoken => OnItsWay(c)

(***************************************************************************)
(* A client is told of no commit made after its tenant stopped being the   *)
(* chat's only owner, whatever the order of edits, commits and tokens.     *)
(***************************************************************************)
ToldOnlyWhileOwned ==
    \A c \in Conns :
        conn[c] = "sending" => known[c] <= lastOwned[Selects[c]]

(***************************************************************************)
(* A client that stays connected reads every commit in the end, unless a   *)
(* media write fails and no later wake makes up for it.                    *)
(***************************************************************************)
EventuallyRead ==
    \A c \in Conns, n \in 1..MaxCommits :
        Subscribed(c) /\ committed[Selects[c]] >= n
            ~> seen[c] >= n \/ ~Subscribed(c) \/ Selects[c] \in unwoken

=============================================================================
