------------------------------- MODULE Unseen -------------------------------
(***************************************************************************)
(* The read side of the pipeline: "whatsapp-daemon unseen --tenant t"      *)
(* (internal/unseen/unseen.go) running as short-lived processes, next to   *)
(* the daemon whose Writer (internal/writer/writer.go) commits messages    *)
(* into the same SQLite database.                                          *)
(*                                                                         *)
(* A run of unseen takes several steps that nothing makes atomic: it reads *)
(* the clock, the cursor file, the message rows, prints, reads the latest  *)
(* ok ingest run, reads the cursor file again, writes it, and marks media  *)
(* as surfaced.  The daemon commits between any two of them, another run   *)
(* of the same tenant may interleave, and "timeout 120" or an error may    *)
(* end the run after any of them.                                          *)
(*                                                                         *)
(* A message is a name with a constant sender timestamp; when it commits   *)
(* relative to that timestamp is up to the clock.  Texts, labels and the   *)
(* layout of the output are left out.                                      *)
(***************************************************************************)
EXTENDS Integers

CONSTANTS
    Messages,       \* rows that may come to exist (an id each)
    SentAt,         \* Messages -> epoch seconds in the row's ts column
    Audience,       \* Messages -> tenants whose groups contain the chat
    Silent,         \* messages unseen never prints: from_me, or a skipped type
    Tenants,
    Runs,           \* slots for concurrently running unseen processes
    Writes,         \* slots for concurrent Writer.Write calls of the daemon
    Windows,        \* --since-hours windows in seconds; 0 means everything
    Advances,       \* whether runs advance: FALSE is --no-advance
    WithMedia,      \* messages whose media the daemon may copy
    Overlap,        \* DefaultOverlap, 1800 in the code
    Margin,         \* IngestMargin, 60 in the code
    Day,            \* first-run window, 24*3600 in the code
    MaxTime,        \* bound on the clock
    MaxCalls,       \* bound on the number of Write calls
    None            \* no cursor file, no --since-hours, nothing in this slot

ASSUME TimingAssumption ==
    /\ Overlap \in Nat /\ Margin \in Nat /\ Day \in Nat
    /\ MaxTime \in Nat /\ MaxCalls \in Nat
    /\ Windows \subseteq Nat
    /\ Advances \subseteq BOOLEAN
ASSUME MessagesAssumption ==
    /\ SentAt \in [Messages -> Nat \ {0}]
    /\ Audience \in [Messages -> SUBSET Tenants]
    /\ Silent \subseteq Messages /\ WithMedia \subseteq Messages
ASSUME NoneAssumption ==
    None \notin Int /\ None \notin Messages /\ None \notin Tenants

VARIABLES
    now,        \* the host's clock
    rows,       \* committed whatsapp_messages rows
    hydrated,   \* rows with media_hydrated_at set
    surfaced,   \* rows with media_surfaced_at set
    okRuns,     \* whatsapp_ingest_runs with status ok: <<message, finished_at>>
    write,      \* the daemon's Write calls in flight
    calls,      \* how many there were, for MaxCalls
    cursor,     \* state/whatsapp_seen_ts.<tenant>, or None
    run,        \* the unseen processes in flight
    \* What the properties speak of; the code keeps none of it:
    lastOk,     \* greatest finished_at any ok run ever had
    timely,     \* rows that committed in time (see Timely)
    floor,      \* per tenant, oldest ts that the chosen windows reached back to
    shown,      \* per tenant, rows printed by a run that may advance
    announced   \* per tenant, rows printed with their hydrated media

db    == <<rows, hydrated, surfaced, okRuns>>
ghost == <<lastOk, timely, floor, shown, announced>>
vars  == <<now, rows, hydrated, surfaced, okRuns, write, calls, cursor, run, lastOk,
           timely, floor, shown, announced>>

NoWrite == [pc |-> "idle", msg |-> None, now |-> 0, media |-> FALSE]
NoRun   == [pc |-> "idle", tenant |-> None, advance |-> FALSE,
            since |-> None, now |-> 0, cutoff |-> 0, fromCursor |-> FALSE,
            fetched |-> {}, fresh |-> {}, target |-> 0]

WriteState ==
    [pc : {"idle", "tx", "media"}, msg : Messages \cup {None},
     now : Nat, media : BOOLEAN]

RunPCs == {"idle", "cutoff", "fetch", "print", "ingest", "prior", "write", "mark"}

RunState ==
    [pc : RunPCs, tenant : Tenants \cup {None}, advance : BOOLEAN,
     since : Windows \cup {None}, now : Nat, cutoff : Int,
     fromCursor : BOOLEAN, fetched : SUBSET Messages, fresh : SUBSET Messages,
     target : Int]

(***************************************************************************)
(* Types.  A record of NoRun or NoWrite is a process that is not there.    *)
(***************************************************************************)
TypeOK ==
    /\ now \in Nat
    /\ rows \subseteq Messages
    /\ hydrated \subseteq rows
    /\ surfaced \subseteq hydrated
    /\ okRuns \subseteq Messages \X Nat
    /\ write \in [Writes -> WriteState]
    /\ calls \in Nat
    /\ cursor \in [Tenants -> Int \cup {None}]
    /\ run \in [Runs -> RunState]
    /\ lastOk \in Nat
    /\ timely \subseteq rows
    /\ floor \in [Tenants -> Int]
    /\ shown \in [Tenants -> SUBSET Messages]
    /\ announced \in [Tenants -> SUBSET Messages]

Init ==
    /\ now = 0
    /\ rows = {} /\ hydrated = {} /\ surfaced = {} /\ okRuns = {}
    /\ write = [w \in Writes |-> NoWrite] /\ calls = 0
    /\ cursor = [t \in Tenants |-> None]
    /\ run = [p \in Runs |-> NoRun]
    /\ lastOk = 0
    /\ timely = {}
    /\ floor = [t \in Tenants |-> 0]
    /\ shown = [t \in Tenants |-> {}]
    /\ announced = [t \in Tenants |-> {}]

-----------------------------------------------------------------------------
MinOf(a, b) == IF a <= b THEN a ELSE b
MaxOf(a, b) == IF a >= b THEN a ELSE b

Tick ==
    /\ now < MaxTime
    /\ now' = now + 1
    /\ UNCHANGED <<rows, hydrated, surfaced, okRuns, write, calls, cursor, run, ghost>>

(***************************************************************************)
(* The daemon: Writer.Write.  The clock is read before the transaction,    *)
(* which waits for the connection's mutex and the database lock.  A row    *)
(* that is already there (a message delivered again, a history sync) is    *)
(* updated and records an ingest run all the same.                         *)
(***************************************************************************)
BeginWrite(w, m, media) ==
    /\ calls < MaxCalls
    /\ calls' = calls + 1
    /\ media => m \in WithMedia
    /\ write[w] = NoWrite
    /\ write' = [write EXCEPT ![w] = [pc |-> "tx", msg |-> m, now |-> now,
                                      media |-> media]]
    /\ UNCHANGED <<now, db, cursor, run, ghost>>

(***************************************************************************)
(* When a row counts as timely: it commits within Overlap of its sender    *)
(* timestamp, or -- after an outage of the daemon -- no ingest run so far  *)
(* allows a cursor whose overlap excludes it, and no unseen process stands *)
(* between fetching rows and reading the latest ingest run.                *)
(***************************************************************************)
Timely(m) ==
    \/ now - SentAt[m] <= Overlap
    \/ /\ lastOk - Margin <= SentAt[m] + Overlap
       /\ \A p \in Runs : run[p].pc \notin {"print", "ingest"}

RecordOk(m, t) ==
    /\ okRuns' = okRuns \cup {<<m, t>>}
    /\ lastOk' = MaxOf(lastOk, t)

(* One transaction: the row, the search index and the ingest run, keyed by *)
(* message and second, "pending" while media bytes are still to be written.*)
CommitMessage(w) ==
    LET m == write[w].msg IN
    /\ write[w].pc = "tx"
    /\ rows' = rows \cup {m}
    /\ timely' = IF m \notin rows /\ Timely(m) THEN timely \cup {m} ELSE timely
    /\ \/ /\ write[w].media
          /\ write' = [write EXCEPT ![w].pc = "media"]
          /\ okRuns' = okRuns \ {<<m, write[w].now>>}
          /\ UNCHANGED lastOk
       \/ /\ ~write[w].media
          /\ write' = [write EXCEPT ![w] = NoWrite]
          /\ RecordOk(m, write[w].now)
    /\ UNCHANGED <<now, hydrated, surfaced, calls, cursor, run, floor, shown, announced>>

(* The media file is in place: the row gets its path and is to be          *)
(* announced (again), and the ingest run turns ok.                         *)
MarkMediaOK(w) ==
    LET m == write[w].msg IN
    /\ write[w].pc = "media"
    /\ hydrated' = hydrated \cup {m}
    /\ surfaced' = surfaced \ {m}
    /\ RecordOk(m, write[w].now)
    /\ write' = [write EXCEPT ![w] = NoWrite]
    /\ UNCHANGED <<now, rows, calls, cursor, run, timely, floor, shown, announced>>

(* Writing the file failed: the run is ok, the text is persisted.          *)
MarkMediaFailure(w) ==
    /\ write[w].pc = "media"
    /\ RecordOk(write[w].msg, write[w].now)
    /\ write' = [write EXCEPT ![w] = NoWrite]
    /\ UNCHANGED <<now, rows, hydrated, surfaced, calls, cursor, run, timely, floor,
                   shown, announced>>

(* An error rolls the transaction back, or the marking update itself       *)
(* fails, or the daemon dies: the call ends where it stands.               *)
AbandonWrite(w) ==
    /\ write[w] # NoWrite
    /\ write' = [write EXCEPT ![w] = NoWrite]
    /\ UNCHANGED <<now, db, calls, cursor, run, ghost>>

-----------------------------------------------------------------------------
(***************************************************************************)
(* unseen: runWithDB, step by step.                                        *)
(***************************************************************************)
Becomes(p, r) == run' = [run EXCEPT ![p] = r]

StartRun(p, t, advance, since) ==
    /\ run[p] = NoRun
    /\ Becomes(p, [NoRun EXCEPT !.pc = "cutoff", !.tenant = t, !.now = now,
                                !.advance = advance, !.since = since])
    /\ UNCHANGED <<now, db, write, calls, cursor, ghost>>

CutoffFor(r) ==
    IF r.since # None
    THEN IF r.since = 0 THEN 0 ELSE r.now - r.since
    ELSE IF cursor[r.tenant] # None
         THEN MaxOf(0, cursor[r.tenant] - Overlap)
         ELSE r.now - Day

ReadCutoff(p) ==
    LET r == run[p] IN
    /\ r.pc = "cutoff"
    /\ Becomes(p, [r EXCEPT
         !.pc = "fetch",
         !.cutoff = CutoffFor(r),
         !.fromCursor = r.since = None /\ cursor[r.tenant] # None])
    /\ UNCHANGED <<now, db, write, calls, cursor, ghost>>

(* The query and the filter after it.                                      *)
Unsurfaced == hydrated \ surfaced

Visible(t) == {m \in rows : t \in Audience[m] /\ m \notin Silent}

SelectedStrictly(r) ==          \* faulty: "ts > ?" in the query
    {m \in Visible(r.tenant) : SentAt[m] > r.cutoff \/ m \in Unsurfaced}

SelectedByTime(r) ==            \* faulty: late downloads not looked for
    {m \in Visible(r.tenant) : SentAt[m] >= r.cutoff}

Selected(r) == {m \in Visible(r.tenant) : SentAt[m] >= r.cutoff \/ m \in Unsurfaced}

FetchRows(p) ==
    LET r == run[p] IN
    /\ r.pc = "fetch"
    /\ Becomes(p, [r EXCEPT !.pc = "print", !.fetched = Selected(r),
                            !.fresh = Selected(r) \cap Unsurfaced])
    /\ UNCHANGED <<now, db, write, calls, cursor, ghost>>

(* With --no-advance the run ends here.                                    *)
WriteOutput(p) ==
    LET r == run[p] IN
    /\ r.pc = "print"
    /\ \/ /\ ~r.advance
          /\ Becomes(p, NoRun)
          /\ UNCHANGED <<shown, announced>>
       \/ /\ r.advance
          /\ Becomes(p, [r EXCEPT !.pc = "ingest", !.fetched = {}])
          /\ shown' = [shown EXCEPT ![r.tenant] = @ \cup r.fetched]
          /\ announced' = [announced EXCEPT ![r.tenant] = @ \cup r.fresh]
    /\ UNCHANGED <<now, db, write, calls, cursor, lastOk, timely, floor>>

IsLatestOk(t) == \A o \in okRuns : o[2] <= t

ReadIngestUnchecked(p) ==       \* faulty: a NULL maximum goes on as one
    LET r == run[p] IN
    /\ r.pc = "ingest"
    /\ \/ /\ okRuns = {}
          /\ Becomes(p, [r EXCEPT !.pc = "prior", !.target = None])
       \/ \E o \in okRuns :
            /\ IsLatestOk(o[2])
            /\ Becomes(p, [r EXCEPT !.pc = "prior", !.target = o[2] - Margin])
    /\ UNCHANGED <<now, db, write, calls, cursor, ghost>>

(* maxAdvance; without an ok run on record the run ends.                   *)
ReadIngest(p) ==
    LET r == run[p] IN
    /\ r.pc = "ingest"
    /\ \/ /\ okRuns = {}
          /\ Becomes(p, NoRun)
       \/ \E o \in okRuns :
            /\ IsLatestOk(o[2])
            /\ Becomes(p, [r EXCEPT !.pc = "prior", !.target = o[2] - Margin])
    /\ UNCHANGED <<now, db, write, calls, cursor, ghost>>

(* What is left to do once the cursor is settled.                          *)
Marking(r) ==
    [NoRun EXCEPT !.pc = "mark", !.tenant = r.tenant, !.fresh = r.fresh]

PriorCursor(t) == IF cursor[t] = None THEN 0 ELSE cursor[t]

NewCursorUncapped(r) == r.target    \* faulty: not capped by the run's start

NewCursor(r) == MinOf(r.target, r.now)

ReadPriorUnchecked(p) ==        \* faulty: always writes
    LET r == run[p] IN
    /\ r.pc = "prior"
    /\ Becomes(p, [r EXCEPT !.pc = "write", !.target = NewCursor(r)])
    /\ UNCHANGED <<now, db, write, calls, cursor, ghost>>

(* The cursor file is read a second time, and decides whether to write it. *)
ReadPrior(p) ==
    LET r == run[p] IN
    /\ r.pc = "prior"
    /\ \/ /\ r.target <= PriorCursor(r.tenant)
          /\ Becomes(p, Marking(r))
       \/ /\ r.target > PriorCursor(r.tenant)
          /\ Becomes(p, [r EXCEPT !.pc = "write", !.target = NewCursor(r)])
    /\ UNCHANGED <<now, db, write, calls, cursor, ghost>>

(* The rename of the temporary file is the step that counts.               *)
WriteCursor(p) ==
    LET r == run[p] IN
    /\ r.pc = "write"
    /\ cursor' = [cursor EXCEPT ![r.tenant] = r.target]
    /\ floor' = IF r.fromCursor THEN floor
                ELSE [floor EXCEPT ![r.tenant] = MaxOf(@, r.cutoff)]
    /\ Becomes(p, Marking(r))
    /\ UNCHANGED <<now, db, write, calls, lastOk, timely, shown, announced>>

MarkEverySurfaced(p) ==         \* faulty: marks rows it did not print
    /\ run[p].pc = "mark"
    /\ surfaced' = surfaced \cup (Visible(run[p].tenant) \cap hydrated)
    /\ Becomes(p, NoRun)
    /\ UNCHANGED <<now, rows, hydrated, okRuns, write, calls, cursor, ghost>>

MarkSurfaced(p) ==
    /\ run[p].pc = "mark"
    /\ surfaced' = surfaced \cup run[p].fresh
    /\ Becomes(p, NoRun)
    /\ UNCHANGED <<now, rows, hydrated, okRuns, write, calls, cursor, ghost>>

(* An error return, or the kill of "timeout 120", at any step.             *)
AbortRun(p) ==
    /\ run[p] # NoRun
    /\ Becomes(p, NoRun)
    /\ UNCHANGED <<now, db, write, calls, cursor, ghost>>

(* README, Tenants: deleting the state file surfaces older messages.       *)
DeleteState(t) ==
    /\ cursor[t] # None
    /\ cursor' = [cursor EXCEPT ![t] = None]
    /\ UNCHANGED <<now, db, write, calls, run, ghost>>

-----------------------------------------------------------------------------
Daemon ==
    \E w \in Writes :
        \/ \E m \in Messages, media \in BOOLEAN : BeginWrite(w, m, media)
        \/ CommitMessage(w)
        \/ MarkMediaOK(w)
        \/ MarkMediaFailure(w)
        \/ AbandonWrite(w)

RunStep(p) ==
    \/ ReadCutoff(p)
    \/ FetchRows(p)
    \/ WriteOutput(p)
    \/ ReadIngest(p)
    \/ ReadPrior(p)
    \/ WriteCursor(p)
    \/ MarkSurfaced(p)

Reader ==
    \E p \in Runs :
        \/ \E t \in Tenants, advance \in Advances, since \in Windows \cup {None} :
              StartRun(p, t, advance, since)
        \/ RunStep(p)
        \/ AbortRun(p)

Next ==
    \/ Tick
    \/ Daemon
    \/ Reader
    \/ \E t \in Tenants : DeleteState(t)

Spec == Init /\ [][Next]_vars

(***************************************************************************)
(* cron starts a run of every tenant again and again, a run does not hang  *)
(* ("timeout 120" ends it), and not every run of cron is killed at the     *)
(* same step.  Nothing is asked of runs that a person starts, of the       *)
(* daemon, of the clock or of the state file.                              *)
(***************************************************************************)
FromCron(p, t) == run[p].tenant = t /\ run[p].advance /\ run[p].since = None

Fairness ==
    \A p \in Runs :
        /\ \A t \in Tenants :
              /\ SF_vars(StartRun(p, t, TRUE, None))
              /\ SF_vars(FromCron(p, t) /\ ReadCutoff(p))
              /\ SF_vars(FromCron(p, t) /\ FetchRows(p))
              /\ SF_vars(FromCron(p, t) /\ WriteOutput(p))
        /\ WF_vars(RunStep(p))

FairSpec == Spec /\ Fairness

-----------------------------------------------------------------------------
(***************************************************************************)
(* No timely message is skipped.  A row that committed in time, that the   *)
(* tenant may see and that no run has printed for it, is still inside the  *)
(* window of the tenant's next default run -- whatever interleaving of     *)
(* commits, overlapping runs, aborted runs, deleted state files and        *)
(* explicit windows came before.  Rows older than the reach of a window    *)
(* that a person chose (--since-hours, the first run) are not claimed.     *)
(***************************************************************************)
Owed(m, t) ==
    /\ m \in timely
    /\ m \in Visible(t)
    /\ m \notin shown[t]
    /\ SentAt[m] >= floor[t]

NoTimelyMessageSkipped ==
    \A t \in Tenants, m \in Messages :
        Owed(m, t) /\ cursor[t] # None => SentAt[m] >= cursor[t] - Overlap

(***************************************************************************)
(* Media is announced before it is consumed.  A row whose announcement has *)
(* been ticked off (media_surfaced_at) was printed with its media by some  *)
(* run: no abort, overlap or new download in between loses it.             *)
(***************************************************************************)
SurfacedWasAnnounced ==
    \A m \in surfaced : \E t \in Tenants : m \in announced[t]

(***************************************************************************)
(* The README, Architecture 3: hydrated media gets a file line in the      *)
(* tenant's output.  It holds for each tenant of the chat only if ticking  *)
(* the announcement off waits for every one of them.                       *)
(***************************************************************************)
SurfacedForEveryTenant ==
    \A m \in surfaced : \A t \in Audience[m] : m \in announced[t]

(***************************************************************************)
(* With one run at a time a cursor only moves forward, deletion aside: the *)
(* value written is capped by the run's own start, yet never falls behind  *)
(* the cursor the run just read.                                           *)
(***************************************************************************)
CursorOnlyAdvances ==
    [][\A t \in Tenants :
          cursor[t] # None /\ cursor'[t] # None => cursor'[t] >= cursor[t]]_cursor

(***************************************************************************)
(* What the window keeps is printed in the end: a timely message of a      *)
(* tenant with a cursor is shown, unless a person deletes the cursor or    *)
(* moves it past the message.                                              *)
(***************************************************************************)
OwedIsShown ==
    \A t \in Tenants, m \in Messages :
        Owed(m, t) /\ cursor[t] # None ~> ~Owed(m, t) \/ cursor[t] = None

(***************************************************************************)
(* Media downloaded at any time, however late and however far behind the   *)
(* cursor, is announced in the end to some tenant of its chat.             *)
(***************************************************************************)
HydratedIsAnnounced ==
    \A m \in Messages :
        m \in hydrated /\ m \notin Silent /\ Audience[m] # {}
            ~> \E t \in Tenants : m \in announced[t]

(***************************************************************************)
(* Table, cursors and runs together keep the promise of Delivery: no step  *)
(* loses a claim but by printing the message or by a window that a person  *)
(* chose, the cursor written last leaves every claim in its window, and a  *)
(* tenant is shown rows of its own chats only (unseen.go, runWithDB).      *)
(***************************************************************************)
Debts == [t \in Tenants |-> {m \in Messages : Owed(m, t)}]
Reach == [t \in Tenants |->
            {m \in Messages : cursor[t] # None => SentAt[m] >= cursor[t] - Overlap}]
Addressees == [m \in Messages |-> IF m \in Silent THEN {} ELSE Audience[m]]
Inboxes == [t \in Tenants |-> {m \in rows : t \in Addressees[m]}]

Promise == INSTANCE Delivery WITH
    Audience <- Addressees, inbox <- Inboxes, owed <- Debts, window <- Reach,
    ticked <- surfaced

KeepsPromise == Promise!Spec

=============================================================================
