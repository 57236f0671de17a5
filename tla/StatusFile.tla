------------------------------ MODULE StatusFile ------------------------------
(***************************************************************************)
(* health.json: Status.Write and Status.Run (internal/health/health.go),   *)
(* called by Serve and its control server (main), by the event handler     *)
(* (handler), and every minute (ticker).  Of the status only the state of  *)
(* the connection is kept: connected and logged_in change together.        *)
(*                                                                         *)
(* Write takes its snapshot under the lock and writes the file after it.   *)
(***************************************************************************)
EXTENDS Naturals

CONSTANT MaxChanges     \* bound on connection events and on failed writes

ASSUME ChangesAssumption == MaxChanges \in Nat

VARIABLES
    serving,        \* where Serve stands
    connection,     \* Connected and LoggedIn of the status
    permanent,      \* the handler was told of a permanent disconnect
    fatal,          \* and has reported it to Serve
    changes,        \* events and failed writes so far
    saving,         \* where a goroutine stands in Write
    snapshot,       \* what it read of the status
    statusFd, statusTmp, statusFinal,
    disturbed       \* two calls of Write overlapped, or one failed (for the properties)

statusVars == <<serving, connection, permanent, fatal, changes, saving, snapshot,
                statusFd, statusTmp, statusFinal, disturbed>>

jsonFile == <<statusFd, statusTmp, statusFinal>>
service  == <<serving, connection, permanent, fatal>>

Savers == {"main", "handler", "ticker"}

Json == INSTANCE TempFile WITH
    Writers <- Savers, fd <- statusFd, tmp <- statusTmp, final <- statusFinal

Servings == {"off", "start", "connect", "run", "closing", "exit"}
SavingPCs == {"idle", "read", "open", "write", "rename"}
Texts == {"absent", "part", "up", "down"}

StatusTypeOK ==
    /\ serving \in Servings
    /\ connection \in {"up", "down"}
    /\ permanent \in BOOLEAN /\ fatal \in BOOLEAN /\ disturbed \in BOOLEAN
    /\ changes \in 0..MaxChanges
    /\ saving \in [Savers -> SavingPCs]
    /\ snapshot \in [Savers -> {"up", "down"}]
    /\ statusFd \in [Savers -> Json!Names]
    /\ statusTmp \in Texts /\ statusFinal \in Texts
    /\ \A w \in Savers : saving[w] = "write" <=> statusFd[w] # "none"

(* The file may be left from an earlier process.                           *)
StatusInit ==
    /\ serving = "off"
    /\ connection = "down"
    /\ permanent = FALSE /\ fatal = FALSE
    /\ changes = 0
    /\ saving = [w \in Savers |-> "idle"]
    /\ snapshot = [w \in Savers |-> "down"]
    /\ statusFd = [w \in Savers |-> "none"]
    /\ statusTmp \in {"absent", "part"} /\ statusFinal \in Texts
    /\ disturbed = FALSE

Idle(w) == saving[w] = "idle"

GoOn(w, p) == saving' = [saving EXCEPT ![w] = p]

-----------------------------------------------------------------------------
(* Serve: it writes the status when it has a client, when the control      *)
(* server is up, and when the server is closed; then the process ends.     *)
Serving(from, to) ==
    /\ serving = from /\ serving' = to
    /\ Idle("main")

BeginProcess ==
    /\ Serving("off", "start")
    /\ UNCHANGED <<connection, permanent, fatal, changes, saving, snapshot, jsonFile,
                   disturbed>>

BeginServe ==
    /\ Serving("start", "connect")
    /\ GoOn("main", "read")
    /\ UNCHANGED <<connection, permanent, fatal, changes, snapshot, jsonFile, disturbed>>

ServerStart ==
    /\ Serving("connect", "run")
    /\ GoOn("main", "read")
    /\ UNCHANGED <<connection, permanent, fatal, changes, snapshot, jsonFile, disturbed>>

(* A signal, or the fatal event.                                           *)
ServerClose ==
    /\ Serving("run", "closing")
    /\ GoOn("main", "read")
    /\ UNCHANGED <<connection, permanent, fatal, changes, snapshot, jsonFile, disturbed>>

EndProcess ==
    /\ \E from \in {"start", "connect", "closing"} : Serving(from, "exit")
    /\ UNCHANGED <<connection, permanent, fatal, changes, saving, snapshot, jsonFile,
                   disturbed>>

-----------------------------------------------------------------------------
(* handleConnectionEvent: the status is changed and written, and only then *)
(* a permanent disconnect -- the last such event -- is reported.           *)
HandleConnectionTersely(v, last) ==    \* faulty: only the last event is written
    /\ serving \in {"connect", "run", "closing"}
    /\ Idle("handler")
    /\ ~permanent
    /\ changes < MaxChanges
    /\ changes' = changes + 1
    /\ connection' = v
    /\ permanent' = last
    /\ IF last THEN GoOn("handler", "read") ELSE UNCHANGED saving
    /\ UNCHANGED <<serving, fatal, snapshot, jsonFile, disturbed>>

HandleConnection(v, last) ==
    /\ serving \in {"connect", "run", "closing"}
    /\ Idle("handler")
    /\ ~permanent
    /\ changes < MaxChanges
    /\ changes' = changes + 1
    /\ connection' = v
    /\ permanent' = last
    /\ GoOn("handler", "read")
    /\ UNCHANGED <<serving, fatal, snapshot, jsonFile, disturbed>>

ReportAtOnce ==                 \* faulty: Serve is told before the file is written
    /\ permanent /\ ~fatal
    /\ fatal' = TRUE
    /\ UNCHANGED <<serving, connection, permanent, changes, saving, snapshot, jsonFile,
                   disturbed>>

ReportFatal ==
    /\ permanent /\ ~fatal
    /\ Idle("handler")
    /\ fatal' = TRUE
    /\ UNCHANGED <<serving, connection, permanent, changes, saving, snapshot, jsonFile,
                   disturbed>>

Tick ==
    /\ serving # "off"
    /\ Idle("ticker")
    /\ GoOn("ticker", "read")
    /\ UNCHANGED <<service, changes, snapshot, jsonFile, disturbed>>

-----------------------------------------------------------------------------
(* Status.Write, in goroutine w.                                           *)
ReadStatus(w) ==
    /\ saving[w] = "read"
    /\ snapshot' = [snapshot EXCEPT ![w] = connection]
    /\ disturbed' = (disturbed \/ \E v \in Savers : saving[v] \in {"open", "write", "rename"})
    /\ GoOn(w, "open")
    /\ UNCHANGED <<service, changes, jsonFile>>

OpenExclusively(w) ==           \* faulty: fails if NAME.tmp is there
    /\ saving[w] = "open"
    /\ \/ /\ statusTmp = "absent"
          /\ Json!Create(w)
          /\ GoOn(w, "write")
          /\ UNCHANGED disturbed
       \/ /\ statusTmp # "absent"
          /\ GoOn(w, "idle")
          /\ disturbed' = TRUE
          /\ UNCHANGED jsonFile
    /\ UNCHANGED <<service, changes, snapshot>>

OpenStatus(w) ==
    /\ saving[w] = "open"
    /\ Json!Create(w)
    /\ GoOn(w, "write")
    /\ UNCHANGED <<service, changes, snapshot, disturbed>>

FillStatus(w) ==
    /\ saving[w] = "write"
    /\ Json!Fill(w, snapshot[w])
    /\ GoOn(w, "rename")
    /\ UNCHANGED <<service, changes, snapshot, disturbed>>

SaveFailsLeaking(w) ==          \* faulty: returns without closing the file
    /\ changes < MaxChanges
    /\ changes' = changes + 1
    /\ saving[w] \in {"open", "write"}
    /\ GoOn(w, "idle")
    /\ disturbed' = TRUE
    /\ UNCHANGED <<service, snapshot, jsonFile>>

(* The directory or NAME.tmp cannot be made, or not be written.            *)
SaveFails(w) ==
    /\ changes < MaxChanges
    /\ changes' = changes + 1
    /\ \/ saving[w] = "open" /\ UNCHANGED statusFd
       \/ saving[w] = "write" /\ Json!Close(w)
    /\ GoOn(w, "idle")
    /\ disturbed' = TRUE
    /\ UNCHANGED <<service, snapshot, statusTmp, statusFinal>>

RenameStatus(w) ==
    /\ saving[w] = "rename"
    /\ \/ Json!Rename
       \/ statusTmp = "absent" /\ UNCHANGED jsonFile
    /\ GoOn(w, "idle")
    /\ UNCHANGED <<service, changes, snapshot, disturbed>>

Save(w) == ReadStatus(w) \/ OpenStatus(w) \/ FillStatus(w) \/ RenameStatus(w)

Process ==
    \/ BeginProcess \/ BeginServe \/ ServerStart \/ ServerClose \/ EndProcess
    \/ \E last \in BOOLEAN : HandleConnection("down", last)
    \/ HandleConnection("up", FALSE)
    \/ ReportFatal
    \/ Tick
    \/ \E w \in Savers : Save(w) \/ SaveFails(w)

Ended == serving = "exit" /\ UNCHANGED statusVars

StatusNext == (serving # "exit" /\ Process) \/ Ended

StatusSpec == StatusInit /\ [][StatusNext]_statusVars

(* The ticker ticks, and a call of Write that was begun goes on.           *)
StatusFairness ==
    /\ WF_statusVars(serving # "exit" /\ (Tick \/ Save("ticker")))
    /\ \A w \in {"main", "handler"} : WF_statusVars(serving # "exit" /\ Save(w))

-----------------------------------------------------------------------------
(***************************************************************************)
(* "If WhatsApp reports a permanent disconnect such as a replaced stream,  *)
(* the daemon writes connected: false and logged_in: false before exiting" *)
(* (HOWTO-DEPLOY, Verify): true when no two calls of Write overlapped and  *)
(* none failed.                                                            *)
(***************************************************************************)
DownBeforeExit ==
    serving = "exit" /\ fatal /\ ~disturbed => statusFinal = "down"

(***************************************************************************)
(* Once the handler has dealt with a connection event, health.json says    *)
(* what the event said, and keeps saying so: the writes of the ticker and  *)
(* of Serve never bring an older status back -- when no two calls of Write *)
(* overlapped and none failed (handleConnectionEvent, auth.go; health.go). *)
(***************************************************************************)
FileKeepsUp ==
    changes > 0 /\ Idle("handler") /\ ~disturbed => statusFinal = connection

(***************************************************************************)
(* Overlapping and failing calls of Write may leave an old status in the   *)
(* file, or a broken one; while the daemon runs, the status gets there in  *)
(* the end.                                                                *)
(***************************************************************************)
StatusSettles ==
    \A v \in {"up", "down"} :
        connection = v /\ serving = "run" ~>
            statusFinal = v \/ connection # v \/ serving # "run"

=============================================================================
