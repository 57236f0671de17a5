------------------------------- MODULE Reload -------------------------------
(***************************************************************************)
(* The allowlist file and its hot reload: config.Manager                   *)
(* (internal/config/config.go), the goroutines of startConfigReloaders     *)
(* (cmd/whatsapp-daemon/main.go), Writer.EnsureGroups, and the listener,   *)
(* which looks a chat up before it writes.                                 *)
(*                                                                         *)
(* Processes: "main" starts the daemon, "watch" polls the file's mtime,    *)
(* "hup" answers SIGHUP, "sub" turns a change of the allowlist into rows   *)
(* of whatsapp_groups.  A message row needs the row of its chat there      *)
(* (schema.sql, foreign key).                                              *)
(*                                                                         *)
(* A file's content is a function from chats to settings (label, copy      *)
(* flags, tenants: one value), or Broken when Load refuses it.             *)
(***************************************************************************)
EXTENDS Integers

CONSTANTS
    Chats,
    Files,          \* contents the file may be given, Broken among them
    Settings,       \* settings of an allowlisted chat
    Absent,         \* a chat that is not allowlisted, or has no row
    Broken,         \* a content that Load refuses
    Handlers,       \* goroutines that may be in HandleResult at once
    QueueCap,       \* capacity of a subscriber's channel, 4 in the code
    EditDuringLoad, \* whether an edit may fall between ReadFile and Stat
    SighupSent,     \* whether anybody sends SIGHUP
    MaxEdits,       \* bound on edits
    MaxCrashes      \* bound on restarts of the daemon

Allowlists == [Chats -> Settings \cup {Absent}]

ASSUME FilesAssumption ==
    /\ Files \subseteq Allowlists \cup {Broken}
    /\ Broken \notin Allowlists
    /\ Absent \notin Settings
ASSUME BoundAssumption ==
    /\ QueueCap \in Nat \ {0} /\ MaxEdits \in Nat /\ MaxCrashes \in Nat
    /\ EditDuringLoad \in BOOLEAN /\ SighupSent \in BOOLEAN

VARIABLES
    file,       \* content and mtime of config/whatsapp_groups.json
    groups,     \* Manager.groups
    modTime,    \* Manager.modTime
    queue,      \* changes in the subscriber's channel
    hup,        \* a SIGHUP is pending
    up,         \* serve runs: main has loaded the file and made the rows
    proc,       \* where each goroutine stands
    rows,       \* whatsapp_groups
    handler,    \* chat of the message a listener goroutine writes, or Absent
    dropped,    \* chats with a message that was allowed in and then refused
    crashes,
    unmade      \* kept for the properties: chats whose rows a transaction
                \* failed to make since the allowlist last changed

vars == <<file, groups, modTime, queue, hup, up, proc, rows, handler, dropped,
          crashes, unmade>>

Procs == {"main", "watch", "hup", "sub"}

PCs == {"idle", "read", "stat", "swap", "notify", "groups", "ensure"}

NoChats == [a \in Chats |-> Absent]

Idle == [pc |-> "idle", list |-> NoChats, mtime |-> 0]
Load == [Idle EXCEPT !.pc = "read"]

TypeOK ==
    /\ file \in [content : Files, mtime : Nat]
    /\ groups \in Allowlists
    /\ modTime \in Nat
    /\ queue \in 0..QueueCap
    /\ hup \in BOOLEAN
    /\ up \in BOOLEAN
    /\ proc \in [Procs -> [pc : PCs, list : Allowlists, mtime : Nat]]
    /\ rows \in Allowlists
    /\ handler \in [Handlers -> Chats \cup {Absent}]
    /\ dropped \subseteq Chats
    /\ crashes \in Nat
    /\ unmade \subseteq Chats

Down == [p \in Procs |-> IF p = "main" THEN Load ELSE Idle]

Init ==
    /\ file \in [content : Files, mtime : {1}]
    /\ groups = NoChats
    /\ modTime = 0
    /\ queue = 0
    /\ hup = FALSE
    /\ up = FALSE
    /\ proc = Down
    /\ rows = NoChats
    /\ handler = [h \in Handlers |-> Absent]
    /\ dropped = {}
    /\ crashes = 0
    /\ unmade = {}

-----------------------------------------------------------------------------
(* Outside: edits move the mtime ahead; a signal is kept until it is taken.*)
Edit(f) ==
    /\ file.mtime <= MaxEdits
    /\ f # file.content
    /\ EditDuringLoad \/ \A p \in Procs : proc[p].pc # "stat"
    /\ file' = [content |-> f, mtime |-> file.mtime + 1]
    /\ UNCHANGED <<groups, modTime, queue, hup, up, proc, rows, handler,
                   dropped, crashes, unmade>>

Sighup ==
    /\ SighupSent /\ up /\ ~hup
    /\ hup' = TRUE
    /\ UNCHANGED <<file, groups, modTime, queue, up, proc, rows, handler,
                   dropped, crashes, unmade>>

(* The daemon dies and is started again; file and rows remain.             *)
Crash ==
    /\ crashes < MaxCrashes
    /\ crashes' = crashes + 1
    /\ groups' = NoChats
    /\ modTime' = 0
    /\ queue' = 0
    /\ hup' = FALSE
    /\ up' = FALSE
    /\ proc' = Down
    /\ handler' = [h \in Handlers |-> Absent]
    /\ unmade' = {}
    /\ UNCHANGED <<file, rows, dropped>>

-----------------------------------------------------------------------------
(* Every two seconds: is the file younger than what was loaded?            *)
WatchTick ==
    /\ up
    /\ proc["watch"] = Idle
    /\ file.mtime > modTime
    /\ proc' = [proc EXCEPT !["watch"] = Load]
    /\ UNCHANGED <<file, groups, modTime, queue, hup, up, rows, handler,
                   dropped, crashes, unmade>>

TakeHup ==
    /\ hup
    /\ proc["hup"] = Idle
    /\ hup' = FALSE
    /\ proc' = [proc EXCEPT !["hup"] = Load]
    /\ UNCHANGED <<file, groups, modTime, queue, up, rows, handler, dropped,
                   crashes, unmade>>

(***************************************************************************)
(* Manager.Reload: the file is read, then its mtime, then both installed   *)
(* under the mutex.  A refused file leaves the last good allowlist; main   *)
(* exits on it and is started until it loads.                              *)
(***************************************************************************)
ReadFile(p) ==
    /\ proc[p].pc = "read"
    /\ \/ /\ file.content = Broken
          /\ p # "main"
          /\ proc' = [proc EXCEPT ![p] = Idle]
       \/ /\ file.content # Broken
          /\ proc' = [proc EXCEPT ![p] = [@ EXCEPT !.pc = "stat", !.list = file.content]]
    /\ UNCHANGED <<file, groups, modTime, queue, hup, up, rows, handler,
                   dropped, crashes, unmade>>

StatFile(p) ==
    /\ proc[p].pc = "stat"
    /\ proc' = [proc EXCEPT ![p] = [@ EXCEPT !.pc = "swap", !.mtime = file.mtime]]
    /\ UNCHANGED <<file, groups, modTime, queue, hup, up, rows, handler,
                   dropped, crashes, unmade>>

ChangedIfAdded(old, new) ==     \* faulty: edits of known chats not counted
    \E a \in Chats : old[a] = Absent /\ new[a] # Absent

Changed(old, new) == old # new

(* What a loader does after its Reload: watch is done, main and hup make   *)
(* the rows themselves.                                                    *)
AfterReload(p) == IF p = "watch" THEN Idle ELSE [Idle EXCEPT !.pc = "groups"]

SwapRestats(p) ==               \* faulty: takes the mtime of now
    /\ proc[p].pc = "swap"
    /\ groups' = proc[p].list
    /\ modTime' = file.mtime
    /\ unmade' = IF Changed(groups, proc[p].list) THEN {} ELSE unmade
    /\ proc' = [proc EXCEPT ![p] = IF Changed(groups, proc[p].list)
                                   THEN [Idle EXCEPT !.pc = "notify"] ELSE AfterReload(p)]
    /\ UNCHANGED <<file, queue, hup, up, rows, handler, dropped, crashes>>

Swap(p) ==
    /\ proc[p].pc = "swap"
    /\ groups' = proc[p].list
    /\ modTime' = proc[p].mtime
    /\ unmade' = IF Changed(groups, proc[p].list) THEN {} ELSE unmade
    /\ proc' = [proc EXCEPT ![p] = IF Changed(groups, proc[p].list)
                                   THEN [Idle EXCEPT !.pc = "notify"] ELSE AfterReload(p)]
    /\ UNCHANGED <<file, queue, hup, up, rows, handler, dropped, crashes>>

(* Outside the mutex; nobody subscribes before main is done, and a full    *)
(* channel takes no more.                                                  *)
NotifyUnbuffered(p) ==          \* faulty: only a waiting subscriber is told
    /\ proc[p].pc = "notify"
    /\ queue' = IF up /\ proc["sub"] = Idle THEN 1 ELSE queue
    /\ proc' = [proc EXCEPT ![p] = AfterReload(p)]
    /\ UNCHANGED <<file, groups, modTime, hup, up, rows, handler, dropped,
                   crashes, unmade>>

NotifyUnbounded(p) ==           \* faulty: a full channel is not looked at
    /\ proc[p].pc = "notify"
    /\ queue' = IF up THEN queue + 1 ELSE queue
    /\ proc' = [proc EXCEPT ![p] = AfterReload(p)]
    /\ UNCHANGED <<file, groups, modTime, hup, up, rows, handler, dropped,
                   crashes, unmade>>

Notify(p) ==
    /\ proc[p].pc = "notify"
    /\ queue' = IF up /\ queue < QueueCap THEN queue + 1 ELSE queue
    /\ proc' = [proc EXCEPT ![p] = AfterReload(p)]
    /\ UNCHANGED <<file, groups, modTime, hup, up, rows, handler, dropped,
                   crashes, unmade>>

-----------------------------------------------------------------------------
(***************************************************************************)
(* Making the rows: the allowlist is read from the manager (not from the   *)
(* change received), and upserted in one transaction.                      *)
(***************************************************************************)
TakeChange ==
    /\ queue > 0
    /\ proc["sub"] = Idle
    /\ queue' = queue - 1
    /\ proc' = [proc EXCEPT !["sub"] = [Idle EXCEPT !.pc = "groups"]]
    /\ UNCHANGED <<file, groups, modTime, hup, up, rows, handler, dropped,
                   crashes, unmade>>

ReadGroups(p) ==
    /\ proc[p].pc = "groups"
    /\ proc' = [proc EXCEPT ![p] = [Idle EXCEPT !.pc = "ensure", !.list = groups]]
    /\ UNCHANGED <<file, groups, modTime, queue, hup, up, rows, handler,
                   dropped, crashes, unmade>>

Listed(list) == {a \in Chats : list[a] # Absent}

UpsertedIfAbsent(list) ==       \* faulty: a row that is there stays as it is
    [a \in Chats |-> IF rows[a] = Absent THEN list[a] ELSE rows[a]]

Upserted(list) == [a \in Chats |-> IF list[a] = Absent THEN rows[a] ELSE list[a]]

EnsureGroups(p) ==
    /\ proc[p].pc = "ensure"
    /\ rows' = Upserted(proc[p].list)
    /\ unmade' = unmade \ Listed(proc[p].list)
    /\ proc' = [proc EXCEPT ![p] = Idle]
    /\ up' = (up \/ p = "main")
    /\ UNCHANGED <<file, groups, modTime, queue, hup, handler, dropped,
                   crashes>>

(* The error is logged and nothing tries again; main exits and restarts.   *)
EnsureFails(p) ==
    /\ proc[p].pc = "ensure"
    /\ \/ /\ p = "main"
          /\ groups' = NoChats /\ modTime' = 0 /\ proc' = Down
          /\ UNCHANGED unmade
       \/ /\ p # "main"
          /\ proc' = [proc EXCEPT ![p] = Idle]
          /\ unmade' = unmade \cup Listed(proc[p].list)
          /\ UNCHANGED <<groups, modTime>>
    /\ UNCHANGED <<file, queue, hup, up, rows, handler, dropped, crashes>>

-----------------------------------------------------------------------------
(* A message: ApplyPolicy looks the chat up, Writer.Write comes later.     *)
AcceptMessage(h, a) ==
    /\ up
    /\ handler[h] = Absent
    /\ groups[a] # Absent
    /\ handler' = [handler EXCEPT ![h] = a]
    /\ UNCHANGED <<file, groups, modTime, queue, hup, up, proc, rows, dropped,
                   crashes, unmade>>

(* Without a row of its chat the insert fails, and nobody tries again.     *)
WriteMessage(h) ==
    /\ handler[h] # Absent
    /\ dropped' = IF rows[handler[h]] = Absent THEN dropped \cup {handler[h]} ELSE dropped
    /\ handler' = [handler EXCEPT ![h] = Absent]
    /\ UNCHANGED <<file, groups, modTime, queue, hup, up, proc, rows, crashes,
                   unmade>>

-----------------------------------------------------------------------------
Reload(p) == ReadFile(p) \/ StatFile(p) \/ Swap(p) \/ Notify(p)

Register(p) == ReadGroups(p) \/ EnsureGroups(p) \/ EnsureFails(p)

Next ==
    \/ \E f \in Files : Edit(f)
    \/ Sighup
    \/ Crash
    \/ WatchTick
    \/ TakeHup
    \/ TakeChange
    \/ \E p \in Procs : Reload(p) \/ Register(p)
    \/ \E h \in Handlers : WriteMessage(h) \/ \E a \in Chats : AcceptMessage(h, a)

Spec == Init /\ [][Next]_vars

(* Goroutines run and the ticker ticks; crashes come to an end (MaxCrashes)*)
(* and nobody need edit the file, send a signal or write a message.        *)
Fairness ==
    /\ WF_vars(WatchTick) /\ WF_vars(TakeHup) /\ WF_vars(TakeChange)
    /\ \A p \in Procs : WF_vars(Reload(p)) /\ WF_vars(Register(p))

FairSpec == Spec /\ Fairness

-----------------------------------------------------------------------------
(***************************************************************************)
(* No edit is overlooked: when the manager holds the mtime the file has    *)
(* now, it holds its content, whatever order two reloads finish in.  (An   *)
(* older content installed later comes with its older mtime, and the next  *)
(* tick sees that.)  config.go:116 reads the mtime after the content, so   *)
(* this holds only if no edit falls between the two.                       *)
(***************************************************************************)
MtimeStandsForContent ==
    modTime = file.mtime => groups = file.content

(***************************************************************************)
(* README, Storage: the mtime is polled, "so edits hot-reload": an edit    *)
(* that Load accepts is in force in the end.                               *)
(***************************************************************************)
EditsTakeEffect ==
    \A f \in Files \ {Broken} :
        file.content = f ~> groups = f \/ file.content # f

(***************************************************************************)
(* An allowlisted chat without its row has one coming: a change is queued  *)
(* or about to be, or a goroutine is making rows from an allowlist with    *)
(* the chat in it.  Full channels and overlapping reloads lose none; only  *)
(* a failed transaction does, until the allowlist changes again.           *)
(***************************************************************************)
RowIsComing(a) ==
    \/ queue > 0
    \/ \E p \in Procs :
          \/ proc[p].pc \in {"notify", "groups"}
          \/ proc[p].pc = "ensure" /\ proc[p].list[a] # Absent

AllowlistedHasRow ==
    \A a \in Chats :
        up /\ groups[a] # Absent /\ rows[a] = Absent /\ a \notin unmade
            => RowIsComing(a)

(***************************************************************************)
(* The same of settings: a row that differs from the allowlist is to be    *)
(* upserted from a current reading of it.  Only one goroutine upserts when *)
(* no SIGHUP comes, and it may be in the transaction with an older reading *)
(* while the allowlist changes; the change waits in the channel then.      *)
(***************************************************************************)
UpdateIsComing(a) ==
    \/ queue > 0
    \/ \E p \in Procs :
          \/ proc[p].pc \in {"notify", "groups"}
          \/ proc[p].pc = "ensure" /\ proc[p].list[a] = groups[a]

RowsCurrent ==
    \A a \in Chats :
        up /\ groups[a] # Absent /\ rows[a] # groups[a] /\ a \notin unmade
            => UpdateIsComing(a)

(***************************************************************************)
(* The rows follow the allowlist's settings in the end (no SIGHUP: two     *)
(* goroutines upserting may finish in the wrong order), unless the         *)
(* transaction failed.                                                     *)
(***************************************************************************)
RowsFollow ==
    \A f \in Files \ {Broken} :
        up /\ groups = f
            ~> \/ groups # f \/ ~up
               \/ \A a \in Listed(f) : rows[a] = f[a] \/ a \in unmade

(***************************************************************************)
(* README, Tenants: "The listener writes every allowlisted message".  The  *)
(* manager allows a new chat before its row exists.                        *)
(***************************************************************************)
AllowedMessagesWritten == dropped = {}

=============================================================================
