# wa-agent-pipeline: specifications

TLA+ models of `whatsapp-daemon`, the Go program that writes a WhatsApp
account's allowlisted chats into a SQLite database and lets agents read them.
Paths below are relative to `src/whatsapp-daemon/` unless they start with
`src/`.

## 1. The system

One long-lived process, `serve`, and short-lived ones (`unseen`, `cron-check`,
`backfill`, `pair`) share a SQLite file, a few small state files and a Unix
socket.

```
 WhatsApp ──events──> auth.Serve ─queue(128)──> worker ──┐
                         │                               ├─> listener.HandleResult
                         └──history sync──> goroutines ──┘        │
                                                                   v
 config file ──poll/SIGHUP──> config.Manager ──changes(4)──> writer.Writer ──> SQLite
                                   │                               │            │
                                   v                               v            v
 client ──socket──> control.Server (watch, backfill) <──── control.Changes   unseen
                                                                          (one run per
                                                                           cron tick and
                                                                           tenant)
```

| Component | State | Operations | What is hard | What makes it correct |
|---|---|---|---|---|
| `internal/unseen` | cursor file per tenant; `media_surfaced_at` | read cutoff, query, print, read latest ingest, re-read and write cursor, mark media | nothing is atomic across these; commits, overlapping runs and kills come in between; the cursor compares sender timestamps with ingest times | no message that committed in time is passed over; a media announcement is ticked off only if printed; all of it is printed in the end |
| `internal/writer` | message rows, ingest runs, media files, `whatsapp_groups` | `Write` (two transactions and a file), `EnsureGroups` | a crash or an error between the two transactions; the same message written twice at once | an ingest run turns ok only after the row; a row is never without its chat |
| `internal/control/changes.go` | subscriptions with a one-slot channel | subscribe, notify, watch loop | commit against subscription; coalescing; ownership revoked under a live client | no wake lost; nothing told after the chat is lost |
| `internal/listener` | none | policy, write, wake | the error path between write and wake | every commit wakes its watchers |
| `internal/config`, reloaders in `cmd/.../main.go` | allowlist and mtime; a channel of four per subscriber | load, poll, SIGHUP, subscribe, make rows | content and mtime read apart; two loaders; full channel; allowlist ahead of rows | an accepted edit takes effect; an allowlisted chat gets its row |
| `internal/auth` serve loop | queue of 128, history goroutines, fatal and connected channels | events, worker, shutdown | dropped events, order of the deferred shutdown | no use of the store after close, no send on a closed channel, shutdown ends |
| `internal/backfill`, `internal/control/control.go` | anchors, channel of processed syncs (8), request mutex | choose anchor, request, wait, verdict | late answers, timeouts, full channel, clients that hang up, a connection that comes and goes | one verdict each, `VIABLE` only with messages of the chat handled; no answer taken from a request that still waits; every request ends |
| `internal/health` | flags, `health.json` | set, write | four goroutines write it under one temporary name, from snapshots read before | the file gets there in the end; it says so before the daemon ends on a permanent disconnect |
| `internal/sqlite` | connection and its mutex | `WithTx` | rollback | a transaction is one step |
| pairing, normalisation, paths, flags, schema migration | — | — | — | sequential or pure; not modelled |

`PROJECT.json` lists the hazards one by one, each at its line.

## 2. Modules

| Module | Models | Instances | Proofs |
|---|---|---|---|
| `Unseen` | `unseen.runWithDB` step by step, `Writer.Write` as its two transactions | `MCUnseen` | `UnseenProofs` |
| `Delivery` | abstract: what the table and the `unseen` command promise each tenant; `Unseen` implements it | with `Unseen` | `UnseenProofs` |
| `Changes` | `Changes.Subscribe`/`Notify`, `watchChanges`, `HandleResult` | `MCChanges` | `ChangesProofs` |
| `Serve` | `auth.Serve`: event handler, queue and worker, history syncs, shutdown; `Server.Start`/`Close` | `MCServe` | `ServeProofs` |
| `Inbox` | abstract: what the daemon promises for a live message; `Serve` implements it | with `Serve` | `ServeProofs` |
| `Backfill` | backfill requests of the control socket, `sendHistorySyncRequest`, `WaitForProcessedOnDemand`, the syncs that answer | `MCRequestsFiles` | `BackfillProofs` |
| `OneVerdict` | abstract: what a client that asks for a backfill is promised; `Backfill` implements it | with `Backfill` | `BackfillProofs` |
| `TempFile` | the file system under a temporary name that is written and renamed; used by the next two | with them | with them |
| `MediaFile` | `writeMedia`, `markMediaOK`, `markMediaFailure`, and who calls them for one message | `MCRequestsFiles` | `MediaFileProofs` |
| `StatusFile` | `Status.Write`, `Status.Run` and their callers | `MCRequestsFiles` | `StatusFileProofs` |
| `Reload` | `Manager.Load`/`Reload`/`Watch`, `startConfigReloaders`, `EnsureGroups`, the foreign key of a message row | `MCReload` | `ReloadProofs` |

Operators whose comment begins with `faulty` are deliberate errors: each
replaces the definition below it, to see that the property named for it in
`PROJECT.json` notices.

### 2.1 Unseen

Actions and code:

* `BeginWrite`, `CommitMessage`, `MarkMediaOK`, `MarkMediaFailure`,
  `AbandonWrite`: `writer.Write` (`writer.go:197-288`). The clock is read before
  the transaction, which may have to wait, so a row may commit long after the
  time its ingest run claims. The ingest run is keyed by message and second
  (`recordRun`): a second write in the same second with media puts an ok run back
  to pending, and the latest ok time can go *down*. `AbandonWrite` is a rollback,
  a failed second transaction, or the end of the daemon.
* `StartRun`, `ReadCutoff`, `FetchRows`, `WriteOutput`, `ReadIngest`, `ReadPrior`,
  `WriteCursor`, `MarkSurfaced`: the statements of `runWithDB`
  (`unseen.go:123-198`) that touch the clock, the files or the database.
  `AbortRun` ends a run anywhere: an error return, or the `timeout 120` of the
  cron entry. `DeleteState` is the operator removing a cursor file.
* A message has a constant sender timestamp. Texts, labels and output layout are
  left out. A sender clock ahead of the host's is possible (`SentAt` is free).

Variables at the end of the list (`lastOk`, `timely`, `floor`, `shown`,
`announced`) exist for the properties only.

Properties. `NoTimelyMessageSkipped` says that a row that committed *in time*, that the
tenant may see, that no advancing run has printed and that no person chose to pass
over, is still inside the window of the next default run. "In time" (`Timely`)
is what the design's two constants can promise: the row committed within
`Overlap` of its sender timestamp, or, after an outage, no ingest so far allows
a cursor that excludes it and no run is between its query and its look at the
latest ingest. `SurfacedWasAnnounced`: no announcement is ticked off unprinted.
`CursorOnlyAdvances`: one run at a time never moves the cursor back, though
the latest ok ingest can. (With overlapping runs it can go back, and messages are
then printed twice, which the code accepts.) `OwedIsShown`, `HydratedIsAnnounced`: what is owed is printed in
the end.

`Delivery` is the contract without clocks, transactions and files: per tenant an inbox, the
claims (`owed`), a window, and what was printed. A message that arrives gives claims to
tenants whose window it is in; a claim ends by printing, or by a window a person chose, which
lets go of what is oldest only; a window moves only as far as the claims let it; media is
ticked off only when some tenant's output announced it. `Unseen` maps the committed rows of a
tenant's chats to its inbox, `Owed` to the claims, the reach of its cursor file to the window
and `media_surfaced_at` to `ticked` (`KeepsPromise`). The mapping says which statement of the
code is the decisive one: a commit is the arrival, the write to stdout the display, the rename of
the cursor file the move; a run's reads, its decisions, its end and the clock map to no step.
What `Delivery` does not have is a claim of a late message: a row that commits after its window
has passed arrives without claims, as `Timely` allows.

### 2.2 Changes

`HandleCommit`, `HandleMediaOK`, `HandleMediaFailure`, `Notify` are `HandleResult`
around `Write`; `Accept` is `handleConn`'s look at the owner, `Subscribe`,
`SendReady`, `TakeWake`, `CheckOwner`, `SendChanged`, `Close` are `watchChanges`;
`ClientReceive` and `ClientRead` are the client, which reads the database when it
gets an event. `Reconfigure` changes the owner at any time, `Crash` ends the daemon.
A chat's rows are a counter of commits. A message that turns out to be unchanged
is not a commit (nobody need be told).

`ObservedOrRetained` is the promise of the comment at `changes.go:51`; it fails
(section 5). `NoLostWake` is the same for chats without a failed media write since
their last wake, and it holds: notified too early, notifying only some, draining
or dropping a token would break it. `ToldOnlyWhileOwned`: no event speaks of a
commit made after the tenant stopped being the only owner. `EventuallyRead`: who
stays connected reads every commit.

### 2.3 Reload

Four goroutines share `Manager`: `main` at start, `watch` (the poll), `hup`, and
`sub`, which makes rows. `ReadFile`, `StatFile`, `Swap`, `Notify` are `Reload` with
the lock taken only where the code takes it; `ReadGroups`, `EnsureGroups`,
`EnsureFails` are the making of rows from the allowlist *as read then*;
`AcceptMessage` and `WriteMessage` are `ApplyPolicy` and the insert that needs the
chat's row. `Watch`'s stat and comparison are one step. An edit always gives the file a younger
mtime (two edits within the file system's timestamp granularity are not modelled). Each goroutine is one process; `Subscribe`
happens when `main` is done (`up`).

`MtimeStandsForContent`: when the manager's mtime is the file's, so is the content;
two loaders may finish in either order, and the older one then leaves the older
mtime, which the next poll notices. `AllowlistedHasRow`: an allowlisted chat
has its row or one is coming, unless the transaction failed since the allowlist
last changed. `RowsCurrent` is the same of settings, which a chat that already has a row may
change: a row that differs from the allowlist is to be upserted *from a current reading of it*.
That is more than a pending upsert, since the subscriber may be in its transaction with an older
reading; then the change waits in the channel behind it. It holds without SIGHUP, when one
goroutine upserts; with it two may finish in the wrong order (`main.go:181`), and TLC finds
that when `SighupSent` is set. `EditsTakeEffect`, `RowsFollow`: both come true in the end.

### 2.4 Serve and Inbox

`Serve` is one process (`phase`, the line it stands at, the deferred calls included), and
around it the goroutines it starts. `Deliver` is the WhatsApp library calling the event
handler; the call then does its channel operation or its critical section whenever it
is scheduled (`HandleConnected`, `HandleFatal`, `HandleMessage`, `HandleSync`), also after
`RemoveHandler`: nothing rests on the library waiting for running calls.
`TakeMessage`, `FinishMessage`, `StopWorker` are the worker, whose select takes either case
when both are ready. `NextInSync`, `WriteInSync`, `SendResult` are the goroutine of a
history sync, of any length. `WaitReady` and `GiveUp` are `waitForClientReady`; `CloseServer`
and `EndAcceptLoop` are `control.Server.Close`, called by Serve's defer or by the goroutine
that waits for the context. `RemoveHandler` to `JoinWorker` are lines 236 to 244 of
`auth.go`, one action each; `CloseStore` is `runDaemonMode` going on. Fatal
events (logged out, stream replaced, permanent disconnect) are one. A message's handling is
begun and ended; what it writes is the other modules' subject. `delivered`, `handled`, `refused` and
`failed` record history.

`Inbox` says what a live message may expect: refused on arrival because `Capacity` others
wait, or handled once and in its turn, or given up when the daemon stops.
`Serve` maps its channel to `waiting`, its worker to `working` and `open`
(`KeepsPromise`). `Inbox` knows nothing of a message before it is accepted or refused, so it would
allow the handler to pass one over; `InOnePlace` does not: from the call of the handler on, a
message is in exactly one place, to its end. `QuietAfterReturn`: when the store is closed nobody is at work.
`NoSendOnClosed`: no history sync is left that could send on the closed channel, which
would be a panic. `StopIsHeard` is the safety side of the next: a fatal event waits in its channel,
in whichever phase it came, until Serve takes it or is ending anyway, and what the shutdown waits
for was started and has been told to stop. `StopEndsServe`: a signal or a fatal event, wherever Serve stands, ends
the process; that is, no wait of the shutdown waits for ever.

### 2.5 Backfill and OneVerdict

A request is a connection of the control socket, from `handleConn` to its done event.
`Arrive` is everything before the mutex, `Lock` is `requestMu`, `ResolveAnchor` the look into
the database, `PollReady` and `GiveUp` are `waitForPeerSendReady` and the deadline over all
attempts, `Send` is `SendPeerMessage` with its three outcomes (sent, connection lost and
tried again, failed for good, perhaps after the request had gone out). `EmitSent`,
`Receive`, `StopWaiting` and `Judge` are the body of the loop in `RunProcessedRequests`.
`handleConn` caps the limit at `DefaultChunkSize`, which is also the size of a chunk, so
that loop runs once and the model has no second chunk. A client may hang up at any moment
(`HangUp`); the code notices when it next writes an event, and not while it waits for the
mutex or an answer.

`Answer`, `Ingest` and `SendResult` are an on-demand history sync: the event, the goroutine
that handles its messages (`Serve` has its steps one by one), and the send to the channel
that does not block. The phone answers a request once or never, whenever it likes, with or
without the chat asked for. Time does not appear: a timer may fire whenever it runs, which
allows every order of a timeout and an answer. `Shutdown` has three stages, because after a
fatal event `Server.Close` ends the requests' context before Serve ends that of the syncs.
What the summary of an answer counts is an open choice in `Judge`.

Nothing in an answer says which request it answers. It is known by its chat alone, and an
answer later than the timeout stays in the channel for whoever asks for that chat next.
`NoStolenAnswer`: no request takes an answer of one that still waits, though answers of
requests that are over may be taken; only the mutex sees to that. `EarlyAnswerKept`: an
answer that comes while `request_sent` is being written, when nobody receives, is in the
channel. `KeepsPromise`: the requests implement `OneVerdict`, in which a request gets one
verdict, after it was served, one request is served at a time, and `VIABLE` needs a sync of its chat whose messages
have all been handled. That sync may be an earlier request's: `OneVerdict` says as much, and the
code does no better. `EveryRequestEnds`: who waits for the mutex gets a verdict or the daemon ends, whatever the
clients, the phone and the connection do.

### 2.6 TempFile, MediaFile, StatusFile

`TempFile` is what both `writeMedia` and `Status.Write` do: `NAME.tmp` is truncated or
created, written, and renamed. All writers use the same two names, so the module keeps for
each open file the name it goes by now: its own `NAME.tmp`, `NAME` after another writer
renamed it away, or none. Contents are few values: absent, truncated, or what was written.

`MediaFile` is one message whose media several goroutines have (the live worker, history
syncs). `OpenTemp`, `WriteBytes`, `RenameTemp` are `writeMedia` (`writer.go:374-408`),
`WriteFails` its error returns, `MarkMediaOK`, `MarkMediaFailure` and `MarkFails` the second
transaction of `Write`, `MarkExpired` the status a history sync brings when its download was
refused (`auth.go:608`). `Kill` ends the process anywhere; files and row stay.
`AtomicUnlessOverlapped`: a row's path leads to a whole file, after failed writes and kills
too, as long as no writer truncates what another has not renamed. `TornForNow`: when they do overlap, the
path may lead to a truncated file, but the writer that has it open will fill it, unless that
writer fails or is killed. Two consequences are possible and are not properties: the slower of
two writers finds its temporary file renamed away and marks the row failed, though
the file is whole; and a kill inside an overlap leaves the truncated file
where the path leads.

`StatusFile` is `health.json` from the start of the process to its end. `ReadStatus`,
`OpenStatus`, `FillStatus`, `RenameStatus` are `Write` (`health.go:106-131`): the snapshot is
taken under the lock, the file written after it. It is called by Serve and the control
server (`BeginServe`, `ServerStart`, `ServerClose`; one after the other, so one process,
`main`), by the event handler (`HandleConnection`), and by the ticker (`Tick`). Of the status only the
connection is kept. A permanent disconnect is taken for the last event of the connection (whatsmeow does not
reconnect after one) and the handler for one goroutine. `DownBeforeExit` is the sentence of
`HOWTO-DEPLOY.md` quoted in the module, for calls of `Write` that neither overlap nor fail: when
they do, an older snapshot may be renamed over the newer one, or a broken text remain.
`FileKeepsUp` says it of every event, and for as long as no other comes: the ticker and Serve write
the file too, and their writes never bring an older status back. `StatusSettles`: when calls do
overlap or fail, the ticker puts that right.

## 3. Runs

| Run | Instance | Shows |
|---|---|---|
| `unseen_overlapping` | two runs, one writer, two messages (sent at 1 and 2), clock to 3, two writes, overlap 1, margin 0; 4.2 million states | `NoTimelyMessageSkipped`, `SurfacedWasAnnounced`, `KeepsPromise`, `TypeOK` under every interleaving |
| `unseen_live` | one run slot, default, `--since-hours` (one second, everything) and `--no-advance` runs, three writes, clock to 2, overlap 0 | `KeepsPromise`, `CursorOnlyAdvances`, `OwedIsShown`, `HydratedIsAnnounced` |
| `unseen_shared` | two tenants of one chat | a finding (section 5) |
| `changes_wake` | two clients of one chat, two handlers, two messages and their media | `NoLostWake`, `ToldOnlyWhileOwned`, `TypeOK` |
| `changes_live` | one client, two handlers, three messages | `EventuallyRead` |
| `changes_media_fails` | one client, one message | a finding |
| `reload_orders` | two chats, four contents of the file (one refused), three edits, SIGHUP, one crash, a channel of two | `MtimeStandsForContent`, `AllowlistedHasRow`, `TypeOK` |
| `reload_live` | the same without SIGHUP, with a listener goroutine | `RowsCurrent`, `EditsTakeEffect`, `RowsFollow` |
| `serve` | two messages and a queue of one, two on-demand syncs and a channel of one, one call of the handler at a time, any number of reconnections; 700,000 states | `KeepsPromise`, `InOnePlace`, `QuietAfterReturn`, `NoSendOnClosed`, `StopIsHeard`, `StopEndsServe`, `TypeOK` |
| `requests_and_files` | `Backfill` with two requests, two chats, a channel of one; beside it `MediaFile` with three writers and `StatusFile` with three changes or failures; 268,000 states | `NoStolenAnswer`, `EarlyAnswerKept`, `KeepsPromise`, `EveryRequestEnds`; `TornForNow`, `AtomicUnlessOverlapped`; `DownBeforeExit`, `FileKeepsUp`, `StatusSettles`; the three type invariants |
| `reload_missed` | as above, edits at any moment | a finding |
| `reload_dropped` | as above | a finding |

Why the bounds are enough. In `Unseen` time matters only through the
comparisons of a sender timestamp, a commit, a cursor and a run's start; with
overlap 1 and three ticks each order of the four, with equality, occurs, and two
messages are needed so that the ingest of one moves the cursor past the other. Two runs are needed
for one to decide on a cursor the other replaces. With overlap 0 the live run
reaches "behind the cursor" within two ticks, which leaves room for a third write
(an ok ingest that goes back to pending). Both runs check `KeepsPromise`, the one
with two messages and overlapping runs, the other with windows that a person chose. Both have
one tenant; that tenants do not see each other's rows is in the proof, for any number. In
`Changes` two handlers are needed to notify out of the order of their commits,
two clients to wake one and not the other. In `Reload` a channel of two fills
with three edits, and two edits suffice for two loaders to install in the wrong
order. In `Serve` one event more than each channel holds makes it full,
and one call that outlives the handler's registration is what a late event needs. In `Backfill` a late
answer, an early one, and a full channel each need two requests of one chat, an answer of another chat needs two
chats. In `MediaFile` the third writer is what renames a file that a second has truncated under a first. In `StatusFile`
three events or failures allow up, down, and one failed write. The three share one run and no variable: `part` says whose steps
a behaviour takes, since no guard of one reads another and interleaving them would only multiply their states. The proofs have none of these bounds.

The bounds themselves are constants: `MaxTime`, `MaxCalls` (Unseen),
`MaxCommits` (Changes), `MaxEdits`, `MaxCrashes` (Reload),
`MaxChanges` (StatusFile: connection events and failed writes together). Deadlock is checked except in
the `Reload` runs: a daemon whose file is no longer edited is idle, which
is not an error.

## 4. Fairness

* `Unseen`: cron starts a run per tenant again and again, and not every one of
  cron's runs is killed at the same step (strong fairness of starting, reading the
  cutoff, querying and printing, each for cron's runs alone); a run does not hang,
  since `timeout 120` ends it (weak fairness of its next step). Nothing is asked of the
  daemon, the clock, or the runs a person starts.
* `Changes`: goroutines run, so a connection's loop, a handler past its first
  commit and the client's reading go on (weak fairness). Nobody need connect,
  write or edit.
* `Reload`: the ticker ticks and goroutines run (weak fairness of `WatchTick`,
  `TakeHup`, `TakeChange`, and of each goroutine's next step, which may be
  `EnsureFails`). Nobody need edit or send a signal.

* `Serve`: its goroutines run and dialling ends (weak fairness of Serve's own steps, of
  closing the server, of the worker and of each history sync); a message is handled in
  bounded time (its download stops with the context); the thirty seconds of
  `waitForClientReady` pass (strong fairness of `GiveUp`, since the select may take a
  token or a tick first). Nobody need deliver an event, receive a result, or send a signal.

* `Backfill`: the goroutine of a connection runs (weak fairness of its next step), and the
  ten seconds of `sendHistorySyncRequest` pass although a connection that comes and goes
  starts the wait for a stable one again and again (strong fairness of `GiveUp`: the deadline
  is one for all attempts). The wait for an answer needs no more, since its timer may always
  fire. Nobody need answer, connect, hang up or shut down.
* `StatusFile`: the ticker ticks, and a call of `Write` that has begun goes on. Failed writes
  are as many as `MaxChanges` allows, so one succeeds in the end. `MediaFile` has no liveness
  property and needs none.

## 5. What the checks found

1. `unseen_shared`: `media_surfaced_at` is one column per row, so the first
   tenant's run ticks the announcement off for every tenant of a shared chat
   (`unseen.go:464`); the others never get the file line.
2. `changes_media_fails`: when the media file cannot be written, `HandleResult`
   returns before `OnCommitted` (`listener.go:42`), though the row is committed. A
   subscriber learns of it only with the next message.
3. `reload_missed`: `Load` reads the file, then its mtime (`config.go:116`). An edit
   between the two is taken for loaded and never is.
4. `reload_dropped`: a new chat is allowed before its `whatsapp_groups` row exists
   (`config.go:144`, `main.go:156`); a message in that window is refused by the
   foreign key and not tried again.

## 6. Proofs

Checked by TLAPS for every value of the constants that the modules' named
assumptions admit.

* `UnseenProofs`: `TypeCorrect`, `NothingTimelySkipped`, `SurfacedAnnounced`, `CursorAdvances`,
  `PromiseKept`.
  `NoTimelyMessageSkipped` is not inductive: a cursor about to be written is as
  dangerous as one that is there. `GateInv` bounds cursors, targets and starts of
  runs by the clock and by the latest ingest ever; `CoverInv` says, step by step of
  a run, that every row it still owes is printed by it or kept by the cursor it will
  write. `FreshInv`, for media: what a run is about to tick off, it has printed.
  `CursorAdvances` assumes `OneRun` (no overlapping runs, as its property says) and rests on
  `BehindInv`: the cursor is no later than the start of the run in flight, nor than what it
  is about to write. `PromiseKept` is the refinement of `Delivery`, for any number of overlapping
  runs: each step is the abstract step named in 2.1, or leaves the mapped state alone. That a
  move of the cursor keeps all claims in the window is `NoTimelyMessageSkipped` again, that a tick is of
  announced media is `FreshInv`; new is `PrintInv`, that the rows a run has fetched
  are rows of its tenant's chats, also when the write to stdout comes later.
* `ChangesProofs`: `TypeCorrect`, `NoWakeLost`, `OnlyOwnersTold`. `NoLostWake` is
  inductive with the types: each step takes a pending reading off one place
  (handler, token, loop, socket, client) and puts it on the next. `ToldOnlyWhileOwned`
  needs `OwnerInv`: while a chat is owned, its last owned commit is its last.
* `ReloadProofs`: `TypeCorrect`, `NoEditOverlooked`, `NoChatForgotten`, `RowsKeepUp`.
  `NoEditOverlooked` assumes `EditDuringLoad = FALSE`, that is, no edit between reading
  the file and reading its mtime; finding 3 is what happens otherwise. It rests on
  `LoadInv`: what a loader holds is the file's content as long as its mtime is the
  file's. `NoChatForgotten` needs no assumption and rests on `StartInv`: before the daemon is
  up only `main` acts, on what it loaded itself. `RowsKeepUp` assumes `SighupSent = FALSE`, for the
  reason given in 2.3, and is inductive with `RolesInv` (which goroutine can be at which
  step) and `LateReading`: a subscriber whose reading is old has a change behind it, in the channel
  or about to be put there.

* `ServeProofs`: `TypeCorrect`, `NobodyLeft`, `NoSenderLeft`, `PromiseKept`, `NoneLost`,
  `StopsAreHeard`. `NobodyLeft` and `NoSenderLeft` follow from `ShutdownInv`, which says what each deferred line has achieved stays so: from
  `historySyncClosed` on no sync starts, after `historySyncs.Wait` none runs, after
  `<-workerDone` the worker is gone. `PromiseKept` shows step by step that `Serve` implements
  `Inbox`; it needs `OnceInv`, that a message in a call of the handler is nowhere else, and
  rests on each event being delivered once by the library (`Deliver`). `NoneLost` adds `FlowInv`:
  a message that was handed over is with a call or further on, the queue holds none twice, and queue,
  worker, handled and refused are disjoint. The lemmas `AppendElements`, `TailElements`, `AppendKeeps` and
  `TailKeeps` say what becomes of the elements of a queue. `StopsAreHeard` needs `StopInv`: the server is
  started when Serve waits for events, and a cancelled context stays cancelled.

* `BackfillProofs`: `TypeCorrect`, `NoneStolen`, `EarlyKept`, `PromiseKept`. `LockInv` says that
  `requestMu` is held exactly from the anchor to the verdict, on every return. `SentInv`
  follows an answer: only a request that went out has one, what is in the channel was sent,
  what a request has taken is of its chat. Together they give `NoStolenAnswer`: the owner of
  a taken answer has been at its wait and does not hold the mutex, so it is done.
  `EarlyAnswerKept` is inductive with `LockInv`, since nobody else can take from the channel while
  its request has not. `PromiseKept` adds `HandledInv`: a sync that sends has handled its
  messages or was cut short by the shutdown.
* `MediaFileProofs`: `MediaTypeCorrect`, `WholeUnlessOverlapped`, `TornOnlyForNow`. The first
  safety property rests on `Alone` and `WholeAhead` (one writer, its temporary file truncated or whole
  according to its step), the second on `PartIsOpen`: what is truncated is still open under the
  name it is found by, through every rename.
* `StatusFileProofs`: `StatusTypeCorrect`, `FileFollowsEvents`, `DownWrittenBeforeExit`. Besides the order of set, write,
  report (`ReportedLast`) it needs `OldReadersGone`: nobody with an older snapshot is at work once the
  handler has read its own; `Written`, the file itself, follows from the two and from the temporary file
  being one writer's own (`OneWrites`).

Only model-checked: everything with liveness (`OwedIsShown`, `HydratedIsAnnounced`,
`EventuallyRead`, `EditsTakeEffect`, `RowsFollow`, `StopEndsServe`, `EveryRequestEnds`,
`StatusSettles`), which the prover does not reach.

## 7. Not modelled

* Pairing: interactive, one run by hand, driven by the library.
* Normalisation of messages, summaries of a history sync, parsing of timestamps, ids and
  hashes: pure mappings without state, of which the modules keep the outcome as a choice.
* `backfill.ProcessOnDemand` and `WaitForOnDemand`: nothing outside the tests calls them.
* The client side of the socket (`RunBackfillClient`): it prints the events it is sent.
* Command line and paths; schema migration (runs alone, once); the search index; the content
  of the output and of the log; queue depth and failure counts in `health.json`.

What would come next: more than one answer to a request (whatsmeow does not say whether a
phone may split one), `Serve`'s worker and history syncs as the daemon that `Unseen` and `Changes`
have around them, and what a broken `health.json` can look like when calls of `Write` overlap.
