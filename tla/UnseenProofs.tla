---------------------------- MODULE UnseenProofs ----------------------------
(***************************************************************************)
(* Proofs about Unseen, for every set of messages, tenants, concurrent     *)
(* runs and concurrent writes, and every Overlap, Margin and window.       *)
(*                                                                         *)
(* The argument for NoTimelyMessageSkipped: a message that a run in flight *)
(* will not print was committed after the run fetched its rows.  If it     *)
(* committed within Overlap of its timestamp, it is newer than the run's   *)
(* start less Overlap, and the cursor is capped by the run's start.  If it *)
(* is timely because the daemon was out, every ingest time the run may     *)
(* have read is one the message's timestamp keeps up with.                 *)
(*                                                                         *)
(* With that, and what a run has fetched being rows of its tenant's chats  *)
(* (PrintInv), each step is a step of Delivery or none (KeepsPromise).     *)
(***************************************************************************)
EXTENDS Unseen, TLAPS

Kept(m, c) == SentAt[m] >= c - Overlap

(* What a slot that is in use holds.                                       *)
WriteInv ==
    \A w \in Writes :
        /\ write[w].pc \in {"tx", "media"} => write[w].msg \in Messages
        /\ write[w].pc = "media" => write[w].msg \in rows

RunInv ==
    \A p \in Runs :
        /\ run[p].pc # "idle" => run[p].tenant \in Tenants
        /\ run[p].fresh \subseteq hydrated

(* Where clocks and ingest times bound each other.                         *)
GateRun(r) ==
    /\ r.now <= now
    /\ r.fromCursor => r.cutoff <= MaxOf(0, lastOk - Margin - Overlap)
    /\ r.pc \in {"prior", "write"} => r.target <= lastOk - Margin
    /\ r.pc = "write" => r.target <= r.now

GateInv ==
    /\ \A o \in okRuns : o[2] <= lastOk
    /\ \A t \in Tenants :
          cursor[t] # None => cursor[t] <= now /\ cursor[t] <= lastOk - Margin
    /\ \A p \in Runs : GateRun(run[p])

(* Owed, and not excluded by the window that run r was given.              *)
OwedTo(m, r) ==
    Owed(m, r.tenant) /\ (r.fromCursor \/ SentAt[m] >= r.cutoff)

(* How a run in flight stands to a message it still owes.                  *)
Covers(r, m) ==
    /\ r.pc = "fetch"  => SentAt[m] >= r.cutoff \/ Kept(m, r.now)
    /\ r.pc = "print"  => m \in r.fetched \/ Kept(m, r.now)
    /\ r.pc = "ingest" => Kept(m, r.now)
    /\ r.pc = "prior"  => Kept(m, r.now) \/ Kept(m, r.target)
    /\ r.pc = "write"  => Kept(m, r.target)

CoverInv ==
    \A p \in Runs, m \in Messages : OwedTo(m, run[p]) => Covers(run[p], m)

(* Rows a run is about to tick off were printed with their media.          *)
FreshInv ==
    \A p \in Runs :
        run[p].pc \in {"ingest", "prior", "write", "mark"} =>
            run[p].fresh \subseteq announced[run[p].tenant]

TypeInv == TypeOK /\ WriteInv /\ RunInv
SkipInv == GateInv /\ CoverInv /\ NoTimelyMessageSkipped
MediaInv == FreshInv /\ SurfacedWasAnnounced

-----------------------------------------------------------------------------
(***************************************************************************)
(* Types.                                                                  *)
(***************************************************************************)
LEMMA PCs ==
  \A pc \in {"idle", "cutoff", "fetch", "print", "ingest", "prior", "write", "mark"} :
      pc \in RunPCs
  BY DEF RunPCs

LEMMA NoRunTyped ==
  NoRun \in RunState /\ NoRun.pc = "idle" /\ NoRun.fresh = {}
  BY PCs DEF NoRun, RunState

LEMMA TypeInit == Init => TypeInv
  BY NoRunTyped, MessagesAssumption
  DEF Init, TypeInv, TypeOK, WriteInv, RunInv, NoWrite, WriteState

(* Steps of the daemon leave every unseen process as it is.                *)
LEMMA TypeDaemon ==
  ASSUME TypeInv, Daemon
  PROVE  TypeInv'
<1> USE TimingAssumption, MessagesAssumption
    DEF TypeInv, TypeOK, WriteInv, RunInv, WriteState, NoWrite
<1>1. ASSUME NEW w \in Writes, NEW m \in Messages, NEW media \in BOOLEAN,
             BeginWrite(w, m, media)
      PROVE  TypeInv'
  BY <1>1 DEF BeginWrite, db, ghost
<1>2. ASSUME NEW w \in Writes, CommitMessage(w)
      PROVE  TypeInv'
  <2>1. write[w].msg \in Messages /\ write[w].now \in Nat
    BY <1>2 DEF CommitMessage
  <2>2. /\ rows' = rows \cup {write[w].msg}
        /\ timely' \subseteq rows \cup {write[w].msg}
    BY <1>2 DEF CommitMessage
  <2>3. write' \in [Writes -> WriteState]
    <3>1. /\ [write[w] EXCEPT !.pc = "media"] \in WriteState
          /\ NoWrite \in WriteState
      BY DEF NoWrite
    <3> QED
      BY <1>2, <3>1 DEF CommitMessage
  <2>4. WriteInv'
    <3>1. ASSUME NEW v \in Writes, v # w
          PROVE  write'[v] = write[v]
      BY <1>2, <3>1 DEF CommitMessage
    <3>2. \/ write'[w] = [write[w] EXCEPT !.pc = "media"]
          \/ write'[w] = NoWrite
      BY <1>2 DEF CommitMessage
    <3> QED
      BY <2>1, <2>2, <3>1, <3>2
  <2>5. okRuns' \subseteq Messages \X Nat /\ lastOk' \in Nat
    BY <1>2, <2>1 DEF CommitMessage, RecordOk, MaxOf
  <2> QED
    BY <1>2, <2>1, <2>2, <2>3, <2>4, <2>5 DEF CommitMessage
<1>3. ASSUME NEW w \in Writes, MarkMediaOK(w)
      PROVE  TypeInv'
  BY <1>3 DEF MarkMediaOK, RecordOk, MaxOf
<1>4. ASSUME NEW w \in Writes, MarkMediaFailure(w)
      PROVE  TypeInv'
  BY <1>4 DEF MarkMediaFailure, RecordOk, MaxOf
<1>5. ASSUME NEW w \in Writes, AbandonWrite(w)
      PROVE  TypeInv'
  BY <1>5 DEF AbandonWrite, db, ghost
<1> QED
  BY <1>1, <1>2, <1>3, <1>4, <1>5 DEF Daemon

(* An unseen process changes its own slot, to a record of the same kind,   *)
(* and little else.                                                        *)
Frame ==
    /\ UNCHANGED <<now, rows, hydrated, okRuns, write, calls, lastOk, timely>>
    /\ surfaced' \subseteq hydrated
    /\ cursor' \in [Tenants -> Int \cup {None}]
    /\ floor' \in [Tenants -> Int]
    /\ shown' \in [Tenants -> SUBSET Messages]
    /\ announced' \in [Tenants -> SUBSET Messages]

SlotOK(r) ==
    /\ r \in RunState
    /\ r.pc # "idle" => r.tenant \in Tenants
    /\ r.fresh \subseteq hydrated

LEMMA TypeBecomes ==
  ASSUME TypeInv, Frame, NEW p \in Runs, NEW r, SlotOK(r), Becomes(p, r)
  PROVE  TypeInv'
<1>1. run' \in [Runs -> RunState]
  BY DEF TypeInv, TypeOK, Becomes, SlotOK
<1>2. RunInv'
  BY <1>1 DEF TypeInv, TypeOK, RunInv, Becomes, Frame, SlotOK
<1>3. WriteInv'
  BY DEF TypeInv, WriteInv, Frame
<1> QED
  BY <1>1, <1>2, <1>3 DEF TypeInv, TypeOK, Frame

LEMMA SlotTyped ==
  ASSUME TypeInv, NEW p \in Runs
  PROVE  SlotOK(run[p])
  BY DEF TypeInv, TypeOK, RunInv, SlotOK

LEMMA FrameStutter ==
  ASSUME TypeInv,
         UNCHANGED <<now, rows, hydrated, surfaced, okRuns, write, calls, cursor, ghost>>
  PROVE  Frame
  BY DEF TypeInv, TypeOK, Frame, ghost

LEMMA TypeReader ==
  ASSUME TypeInv, Reader
  PROVE  TypeInv'
<1>0. SlotOK(NoRun)
  BY NoRunTyped DEF SlotOK
<1>1. ASSUME NEW p \in Runs, NEW t \in Tenants, NEW advance \in Advances,
             NEW since \in Windows \cup {None}, StartRun(p, t, advance, since)
      PROVE  TypeInv'
  <2> DEFINE r == [NoRun EXCEPT !.pc = "cutoff", !.tenant = t, !.now = now,
                                !.advance = advance, !.since = since]
  <2>1. SlotOK(r)
    BY NoRunTyped, PCs, TimingAssumption DEF SlotOK, RunState, TypeInv, TypeOK
  <2>2. Frame /\ Becomes(p, r)
    BY <1>1, FrameStutter DEF StartRun, db
  <2> QED
    BY <2>1, <2>2, TypeBecomes
<1>2. ASSUME NEW p \in Runs, ReadCutoff(p)
      PROVE  TypeInv'
  <2> DEFINE b == run[p].since = None /\ cursor[run[p].tenant] # None
             r == [run[p] EXCEPT !.pc = "fetch", !.cutoff = CutoffFor(run[p]),
                                 !.fromCursor = b]
  <2>1. SlotOK(run[p]) /\ run[p].tenant \in Tenants
    BY <1>2, SlotTyped DEF ReadCutoff, SlotOK
  <2>2. CutoffFor(run[p]) \in Int
    <3>1. /\ run[p].now \in Nat
          /\ run[p].since \in Windows \cup {None}
          /\ cursor[run[p].tenant] \in Int \cup {None}
      BY <2>1 DEF SlotOK, RunState, TypeInv, TypeOK
    <3>2. CASE run[p].since # None
      <4>1. run[p].since \in Nat
        BY <3>1, <3>2, TimingAssumption
      <4>2. \/ CutoffFor(run[p]) = 0
            \/ CutoffFor(run[p]) = run[p].now - run[p].since
        BY <3>2 DEF CutoffFor
      <4> QED
        BY <3>1, <4>1, <4>2
    <3>3. CASE run[p].since = None /\ cursor[run[p].tenant] # None
      <4>1. cursor[run[p].tenant] - Overlap \in Int
        BY <3>1, <3>3, TimingAssumption
      <4>2. CutoffFor(run[p]) = MaxOf(0, cursor[run[p].tenant] - Overlap)
        BY <3>3 DEF CutoffFor
      <4> QED
        BY <4>1, <4>2 DEF MaxOf
    <3>4. CASE run[p].since = None /\ cursor[run[p].tenant] = None
      BY <3>1, <3>4, TimingAssumption DEF CutoffFor
    <3> QED
      BY <3>2, <3>3, <3>4
  <2>3. b \in BOOLEAN
    OBVIOUS
  <2>4. SlotOK(r)
    <3> HIDE DEF b
    <3> QED BY <2>1, <2>2, <2>3, PCs DEF SlotOK, RunState
  <2>5. Frame /\ Becomes(p, r)
    BY <1>2, FrameStutter DEF ReadCutoff, db
  <2> QED
    BY <2>4, <2>5, TypeBecomes
<1>3. ASSUME NEW p \in Runs, FetchRows(p)
      PROVE  TypeInv'
  <2> DEFINE r == [run[p] EXCEPT !.pc = "print", !.fetched = Selected(run[p]),
                                 !.fresh = Selected(run[p]) \cap Unsurfaced]
  <2>1. SlotOK(run[p]) /\ run[p].tenant \in Tenants
    BY <1>3, SlotTyped DEF FetchRows, SlotOK
  <2>2. /\ Selected(run[p]) \in SUBSET Messages
        /\ Selected(run[p]) \cap Unsurfaced \in SUBSET Messages
        /\ Selected(run[p]) \cap Unsurfaced \subseteq hydrated
    BY DEF Selected, Visible, Unsurfaced, TypeInv, TypeOK
  <2>3. SlotOK(r)
    BY <2>1, <2>2, PCs DEF SlotOK, RunState
  <2>4. Frame /\ Becomes(p, r)
    BY <1>3, FrameStutter DEF FetchRows, db
  <2> QED
    BY <2>3, <2>4, TypeBecomes
<1>4. ASSUME NEW p \in Runs, WriteOutput(p)
      PROVE  TypeInv'
  <2> DEFINE r == [run[p] EXCEPT !.pc = "ingest", !.fetched = {}]
  <2>1. SlotOK(run[p]) /\ run[p].tenant \in Tenants
    BY <1>4, SlotTyped DEF WriteOutput, SlotOK
  <2>2. SlotOK(r)
    BY <2>1, PCs DEF SlotOK, RunState
  <2>3. Frame
    BY <1>4, <2>1 DEF WriteOutput, db, Frame, SlotOK, RunState, TypeInv, TypeOK
  <2>4. Becomes(p, NoRun) \/ Becomes(p, r)
    BY <1>4 DEF WriteOutput
  <2> QED
    BY <1>0, <2>2, <2>3, <2>4, TypeBecomes
<1>5. ASSUME NEW p \in Runs, ReadIngest(p)
      PROVE  TypeInv'
  <2>1. SlotOK(run[p]) /\ run[p].tenant \in Tenants
    BY <1>5, SlotTyped DEF ReadIngest, SlotOK
  <2>2. Frame
    BY <1>5, FrameStutter DEF ReadIngest, db
  <2>3. CASE Becomes(p, NoRun)
    BY <1>0, <2>2, <2>3, TypeBecomes
  <2>4. ASSUME NEW o \in okRuns,
               Becomes(p, [run[p] EXCEPT !.pc = "prior", !.target = o[2] - Margin])
        PROVE  TypeInv'
    <3> DEFINE r == [run[p] EXCEPT !.pc = "prior", !.target = o[2] - Margin]
    <3>1. o[2] - Margin \in Int
      BY TimingAssumption DEF TypeInv, TypeOK
    <3>2. SlotOK(r)
      BY <2>1, <3>1, PCs DEF SlotOK, RunState
    <3> QED
      BY <2>2, <2>4, <3>2, TypeBecomes
  <2> QED
    BY <1>5, <2>3, <2>4 DEF ReadIngest
<1>6. ASSUME NEW p \in Runs, ReadPrior(p)
      PROVE  TypeInv'
  <2> DEFINE r == [run[p] EXCEPT !.pc = "write", !.target = NewCursor(run[p])]
  <2>1. SlotOK(run[p]) /\ run[p].tenant \in Tenants
    BY <1>6, SlotTyped DEF ReadPrior, SlotOK
  <2>2. SlotOK(Marking(run[p]))
    BY <2>1, NoRunTyped, PCs DEF Marking, SlotOK, RunState
  <2>3. NewCursor(run[p]) \in Int
    BY <2>1 DEF NewCursor, MinOf, SlotOK, RunState
  <2>4. SlotOK(r)
    BY <2>1, <2>3, PCs DEF SlotOK, RunState
  <2>5. Frame /\ (Becomes(p, Marking(run[p])) \/ Becomes(p, r))
    BY <1>6, FrameStutter DEF ReadPrior, db
  <2> QED
    BY <2>2, <2>4, <2>5, TypeBecomes
<1>7. ASSUME NEW p \in Runs, WriteCursor(p)
      PROVE  TypeInv'
  <2>1. SlotOK(run[p]) /\ run[p].tenant \in Tenants
    BY <1>7, SlotTyped DEF WriteCursor, SlotOK
  <2>2. SlotOK(Marking(run[p]))
    BY <2>1, NoRunTyped, PCs DEF Marking, SlotOK, RunState
  <2>3. run[p].target \in Int /\ run[p].cutoff \in Int
    BY <2>1 DEF SlotOK, RunState
  <2>4. Frame
    BY <1>7, <2>1, <2>3 DEF WriteCursor, MaxOf, db, Frame, TypeInv, TypeOK
  <2>5. Becomes(p, Marking(run[p]))
    BY <1>7 DEF WriteCursor
  <2> QED
    BY <2>2, <2>4, <2>5, TypeBecomes
<1>8. ASSUME NEW p \in Runs, MarkSurfaced(p) \/ AbortRun(p)
      PROVE  TypeInv'
  <2>1. Frame
    BY <1>8, FrameStutter
    DEF MarkSurfaced, AbortRun, db, ghost, Frame, TypeInv, TypeOK, RunInv
  <2>2. Becomes(p, NoRun)
    BY <1>8 DEF MarkSurfaced, AbortRun
  <2> QED
    BY <1>0, <2>1, <2>2, TypeBecomes
<1> QED
  BY <1>1, <1>2, <1>3, <1>4, <1>5, <1>6, <1>7, <1>8 DEF Reader, RunStep

(* The clock, a deleted state file, and stuttering.                        *)
LEMMA TypeRest ==
  ASSUME TypeInv,
         Tick \/ (\E t \in Tenants : DeleteState(t)) \/ UNCHANGED vars
  PROVE  TypeInv'
<1> USE DEF TypeInv, TypeOK, WriteInv, RunInv
<1>1. CASE Tick
  BY <1>1 DEF Tick, ghost
<1>2. ASSUME NEW t \in Tenants, DeleteState(t)
      PROVE  TypeInv'
  BY <1>2 DEF DeleteState, db, ghost
<1>3. CASE UNCHANGED vars
  BY <1>3 DEF vars
<1> QED
  BY <1>1, <1>2, <1>3

LEMMA TypeStep == TypeInv /\ [Next]_vars => TypeInv'
  BY TypeDaemon, TypeReader, TypeRest DEF Next

(***************************************************************************)
(* Every state of the database, the cursors and the processes is one the   *)
(* types describe; a media file is never recorded for a row that is absent.*)
(***************************************************************************)
THEOREM TypeCorrect == Spec => []TypeOK
<1>1. TypeInv => TypeOK
  BY DEF TypeInv
<1> QED
  BY TypeInit, TypeStep, <1>1, PTL DEF Spec

-----------------------------------------------------------------------------
(***************************************************************************)
(* Clocks and ingest times.                                                *)
(***************************************************************************)
LEMMA RunTyped ==
  ASSUME TypeInv, NEW p \in Runs
  PROVE  /\ run[p].now \in Nat /\ run[p].cutoff \in Int /\ run[p].target \in Int
         /\ run[p].fromCursor \in BOOLEAN
         /\ run[p].pc # "idle" => run[p].tenant \in Tenants
         /\ run[p].since \in Windows \cup {None}
  BY DEF TypeInv, TypeOK, RunInv, RunState

LEMMA Bounds ==
  ASSUME TypeInv
  PROVE  now \in Nat /\ lastOk \in Nat /\ Margin \in Nat /\ Overlap \in Nat
  BY TimingAssumption DEF TypeInv, TypeOK

(* A slot that does not change keeps its bounds while the clock and the    *)
(* ingest times grow.                                                      *)
LEMMA GateGrows ==
  ASSUME TypeInv, GateInv, NEW p \in Runs, run'[p] = run[p],
         now' \in Nat, lastOk' \in Nat, now <= now', lastOk <= lastOk'
  PROVE  GateRun(run[p])'
<1>1. GateRun(run[p])
  BY DEF GateInv
<1> QED
  BY <1>1, RunTyped, Bounds DEF GateRun, MaxOf

LEMMA BecomesAt ==
  ASSUME TypeInv, NEW p \in Runs, NEW r, Becomes(p, r)
  PROVE  /\ run'[p] = r
         /\ \A q \in Runs : q # p => run'[q] = run[q]
  BY DEF TypeInv, TypeOK, Becomes

LEMMA NoRunGate == ASSUME TypeInv PROVE GateRun(NoRun)
  BY Bounds DEF GateRun, NoRun, MaxOf

LEMMA GateDaemon ==
  ASSUME TypeInv, GateInv, Daemon
  PROVE  GateInv'
<1> DEFINE Grown == /\ lastOk' \in Nat /\ lastOk <= lastOk'
                    /\ \A o \in okRuns' : o[2] <= lastOk'
<1>1. /\ UNCHANGED <<now, cursor, run>>
      /\ Grown
  <2>1. ASSUME NEW w \in Writes
        PROVE  write[w].now \in Nat
    BY DEF TypeInv, TypeOK, WriteState
  <2>2. ASSUME NEW w \in Writes, NEW m, RecordOk(m, write[w].now)
        PROVE  Grown
    <3>1. lastOk' \in Nat /\ lastOk <= lastOk' /\ write[w].now <= lastOk'
      BY <2>1, <2>2, Bounds DEF RecordOk, MaxOf
    <3>2. ASSUME NEW o \in okRuns'
          PROVE  o[2] <= lastOk'
      <4>1. CASE o \in okRuns
        <5>1. o[2] \in Nat /\ o[2] <= lastOk
          BY <4>1 DEF GateInv, TypeInv, TypeOK
        <5> QED
          BY <5>1, <3>1, Bounds
      <4>2. CASE o = <<m, write[w].now>>
        BY <4>2, <3>1
      <4> QED
        BY <4>1, <4>2, <2>2 DEF RecordOk
    <3> QED
      BY <3>1, <3>2
  <2>3. ASSUME UNCHANGED <<okRuns, lastOk>>
        PROVE  Grown
    BY <2>3, Bounds DEF GateInv
  <2>4. ASSUME NEW w \in Writes, CommitMessage(w)
        PROVE  Grown
    BY <2>2, <2>4, Bounds DEF CommitMessage, GateInv
  <2>5. ASSUME NEW w \in Writes, MarkMediaOK(w) \/ MarkMediaFailure(w)
        PROVE  Grown
    BY <2>2, <2>5 DEF MarkMediaOK, MarkMediaFailure
  <2>6. UNCHANGED <<now, cursor, run>>
    BY DEF Daemon, BeginWrite, CommitMessage, MarkMediaOK, MarkMediaFailure,
           AbandonWrite
  <2> QED
    BY <2>3, <2>4, <2>5, <2>6
    DEF Daemon, BeginWrite, AbandonWrite, db, ghost
<1>2. \A p \in Runs : GateRun(run[p])'
  BY <1>1, GateGrows, Bounds
<1>3. \A t \in Tenants :
        cursor'[t] # None => cursor'[t] <= now' /\ cursor'[t] <= lastOk' - Margin
  <2>1. ASSUME NEW t \in Tenants, cursor[t] # None
        PROVE  cursor[t] \in Int /\ cursor[t] <= now /\ cursor[t] <= lastOk - Margin
    BY <2>1 DEF TypeInv, TypeOK, GateInv
  <2> QED
    BY <2>1, <1>1, Bounds
<1> QED
  BY <1>1, <1>2, <1>3 DEF GateInv

LEMMA GateReader ==
  ASSUME TypeInv, GateInv, Reader
  PROVE  GateInv'
<1>1. ASSUME NEW p \in Runs, NEW r, Becomes(p, r), GateRun(r),
             UNCHANGED <<now, okRuns, cursor, lastOk>>
      PROVE  GateInv'
  <2>1. ASSUME NEW q \in Runs, q # p
        PROVE  GateRun(run[q])'
    BY <1>1, <2>1, BecomesAt, GateGrows, Bounds
  <2>2. GateRun(run[p])'
    BY <1>1, BecomesAt DEF GateRun
  <2> QED
    BY <1>1, <2>1, <2>2 DEF GateInv
<1>2. ASSUME NEW p \in Runs, NEW t \in Tenants, NEW advance \in Advances,
             NEW since \in Windows \cup {None}, StartRun(p, t, advance, since)
      PROVE  GateInv'
  <2> DEFINE r == [NoRun EXCEPT !.pc = "cutoff", !.tenant = t, !.now = now,
                                !.advance = advance, !.since = since]
  <2>1. GateRun(r)
    BY Bounds DEF GateRun, NoRun
  <2> QED
    BY <1>1, <1>2, <2>1 DEF StartRun, db, ghost
<1>3. ASSUME NEW p \in Runs, ReadCutoff(p)
      PROVE  GateInv'
  <2> DEFINE t == run[p].tenant
             r == [run[p] EXCEPT !.pc = "fetch", !.cutoff = CutoffFor(run[p]),
                                 !.fromCursor = run[p].since = None
                                                /\ cursor[run[p].tenant] # None]
  <2>1. t \in Tenants /\ run[p].now <= now
    BY <1>3, RunTyped DEF ReadCutoff, GateInv, GateRun
  <2>2. /\ r.pc = "fetch" /\ r.now = run[p].now /\ r.cutoff = CutoffFor(run[p])
        /\ r.fromCursor = (run[p].since = None /\ cursor[t] # None)
    BY DEF TypeInv, TypeOK, RunState
  <2>3. ASSUME run[p].since = None, cursor[t] # None
        PROVE  CutoffFor(run[p]) <= MaxOf(0, lastOk - Margin - Overlap)
    <3>1. cursor[t] \in Int /\ cursor[t] <= lastOk - Margin
      BY <2>1, <2>3 DEF TypeInv, TypeOK, GateInv
    <3>2. CutoffFor(run[p]) = MaxOf(0, cursor[t] - Overlap)
      BY <2>3 DEF CutoffFor
    <3> QED
      BY <3>1, <3>2, Bounds DEF MaxOf
  <2>4. GateRun(r)
    BY <2>1, <2>2, <2>3 DEF GateRun
  <2> QED
    BY <1>1, <1>3, <2>4 DEF ReadCutoff, db, ghost
<1>4. ASSUME NEW p \in Runs, FetchRows(p)
      PROVE  GateInv'
  <2> DEFINE r == [run[p] EXCEPT !.pc = "print", !.fetched = Selected(run[p]),
                                 !.fresh = Selected(run[p]) \cap Unsurfaced]
  <2>1. GateRun(r)
    BY DEF GateInv, GateRun, TypeInv, TypeOK, RunState
  <2> QED
    BY <1>1, <1>4, <2>1 DEF FetchRows, db, ghost
<1>5. ASSUME NEW p \in Runs, WriteOutput(p)
      PROVE  GateInv'
  <2> DEFINE r == [run[p] EXCEPT !.pc = "ingest", !.fetched = {}]
  <2>1. GateRun(r)
    BY DEF GateInv, GateRun, TypeInv, TypeOK, RunState
  <2> QED
    BY <1>1, <1>5, <2>1, NoRunGate DEF WriteOutput, db
<1>6. ASSUME NEW p \in Runs, ReadIngest(p)
      PROVE  GateInv'
  <2>1. ASSUME NEW o \in okRuns
        PROVE  GateRun([run[p] EXCEPT !.pc = "prior", !.target = o[2] - Margin])
    <3> DEFINE r == [run[p] EXCEPT !.pc = "prior", !.target = o[2] - Margin]
    <3>1. /\ r.pc = "prior" /\ r.target = o[2] - Margin /\ r.now = run[p].now
          /\ r.cutoff = run[p].cutoff /\ r.fromCursor = run[p].fromCursor
      BY DEF TypeInv, TypeOK, RunState
    <3>2. o[2] \in Nat /\ o[2] <= lastOk
      BY DEF TypeInv, TypeOK, GateInv
    <3>3. GateRun(run[p])
      BY DEF GateInv
    <3> QED
      BY <3>1, <3>2, <3>3, Bounds DEF GateRun
  <2> QED
    BY <1>1, <1>6, <2>1, NoRunGate DEF ReadIngest, db, ghost
<1>7. ASSUME NEW p \in Runs
      PROVE  GateRun(Marking(run[p]))
  BY Bounds DEF GateRun, Marking, NoRun
<1>8. ASSUME NEW p \in Runs, ReadPrior(p)
      PROVE  GateInv'
  <2> DEFINE r == [run[p] EXCEPT !.pc = "write", !.target = NewCursor(run[p])]
  <2>1. ASSUME run[p].pc = "prior"
        PROVE  GateRun(r)
    <3>1. /\ r.pc = "write" /\ r.target = NewCursor(run[p]) /\ r.now = run[p].now
          /\ r.cutoff = run[p].cutoff /\ r.fromCursor = run[p].fromCursor
      BY DEF TypeInv, TypeOK, RunState
    <3>2. GateRun(run[p])
      BY DEF GateInv
    <3> QED
      BY <2>1, <3>1, <3>2, RunTyped, Bounds DEF GateRun, NewCursor, MinOf
  <2> QED
    BY <1>1, <1>7, <1>8, <2>1 DEF ReadPrior, db, ghost
<1>9. ASSUME NEW p \in Runs, WriteCursor(p)
      PROVE  GateInv'
  <2> DEFINE t == run[p].tenant
  <2>1. /\ run[p].target \in Int /\ run[p].target <= now
        /\ run[p].target <= lastOk - Margin
    BY <1>9, RunTyped, Bounds DEF WriteCursor, GateInv, GateRun
  <2>2. t \in Tenants /\ cursor' = [cursor EXCEPT ![t] = run[p].target]
    BY <1>9, RunTyped DEF WriteCursor
  <2>3. ASSUME NEW u \in Tenants, cursor'[u] # None
        PROVE  cursor'[u] <= now' /\ cursor'[u] <= lastOk' - Margin
    BY <1>9, <2>1, <2>2, <2>3 DEF WriteCursor, GateInv, TypeInv, TypeOK
  <2>4. UNCHANGED <<now, okRuns, lastOk>> /\ Becomes(p, Marking(run[p]))
    BY <1>9 DEF WriteCursor, db
  <2>5. ASSUME NEW q \in Runs
        PROVE  GateRun(run[q])'
    <3>1. CASE q = p
      BY <1>7, <2>4, <3>1, BecomesAt DEF GateRun
    <3>2. CASE q # p
      BY <2>4, <3>2, BecomesAt, GateGrows, Bounds
    <3> QED
      BY <3>1, <3>2
  <2> QED
    BY <2>3, <2>4, <2>5 DEF GateInv
<1>10. ASSUME NEW p \in Runs, MarkSurfaced(p) \/ AbortRun(p)
       PROVE  GateInv'
  BY <1>1, <1>10, NoRunGate DEF MarkSurfaced, AbortRun, db, ghost
<1> QED
  BY <1>2, <1>3, <1>4, <1>5, <1>6, <1>8, <1>9, <1>10 DEF Reader, RunStep

LEMMA GateRest ==
  ASSUME TypeInv, GateInv,
         Tick \/ (\E t \in Tenants : DeleteState(t)) \/ UNCHANGED vars
  PROVE  GateInv'
<1>1. /\ UNCHANGED <<run, okRuns, lastOk>>
      /\ now' \in Nat /\ now <= now'
      /\ \A t \in Tenants : cursor'[t] # None => cursor'[t] = cursor[t]
  BY Bounds DEF Tick, DeleteState, vars, db, ghost, TypeInv, TypeOK
<1>2. \A p \in Runs : GateRun(run[p])'
  BY <1>1, GateGrows, Bounds
<1>3. ASSUME NEW t \in Tenants, cursor'[t] # None
      PROVE  cursor'[t] <= now' /\ cursor'[t] <= lastOk' - Margin
  <2>1. cursor[t] \in Int /\ cursor[t] <= now /\ cursor[t] <= lastOk - Margin
    BY <1>1, <1>3 DEF TypeInv, TypeOK, GateInv
  <2> QED
    BY <1>1, <1>3, <2>1, Bounds
<1> QED
  BY <1>1, <1>2, <1>3 DEF GateInv

LEMMA GateStep == TypeInv /\ GateInv /\ [Next]_vars => GateInv'
  BY GateDaemon, GateReader, GateRest DEF Next

-----------------------------------------------------------------------------
(***************************************************************************)
(* What runs in flight owe.  Every step but a commit can only pay.         *)
(***************************************************************************)
Shrinks == \A t \in Tenants, m \in Messages : Owed(m, t)' => Owed(m, t)

LEMMA OwedShrinks ==
  ASSUME TypeInv, UNCHANGED <<rows, timely>>,
         \A t \in Tenants : /\ shown[t] \subseteq shown'[t]
                            /\ floor'[t] \in Int /\ floor[t] <= floor'[t]
  PROVE  Shrinks
<1> SUFFICES ASSUME NEW t \in Tenants, NEW m \in Messages, Owed(m, t)'
             PROVE  Owed(m, t)
  BY DEF Shrinks
<1>1. SentAt[m] \in Nat /\ floor[t] \in Int
  BY MessagesAssumption DEF TypeInv, TypeOK
<1> QED
  BY <1>1 DEF Owed, Visible

LEMMA ShrinksStutter ==
  ASSUME TypeInv, UNCHANGED <<rows, timely, shown, floor>>
  PROVE  Shrinks
  BY OwedShrinks DEF TypeInv, TypeOK

(* A run that does not move stays covered.                                 *)
LEMMA CoverKept ==
  ASSUME TypeInv, CoverInv, Shrinks, NEW q \in Runs, run'[q] = run[q],
         NEW m \in Messages, OwedTo(m, run[q])'
  PROVE  Covers(run[q], m)'
<1>1. Covers(run[q], m)' = Covers(run[q], m)
  BY DEF Covers, Kept
<1>2. CASE run[q].pc = "idle"
  BY <1>1, <1>2 DEF Covers
<1>3. CASE run[q].pc # "idle"
  <2>1. run[q].tenant \in Tenants
    BY <1>3, RunTyped
  <2>2. OwedTo(m, run[q])
    BY <2>1 DEF OwedTo, Shrinks
  <2> QED
    BY <1>1, <2>2 DEF CoverInv
<1> QED
  BY <1>2, <1>3

LEMMA SkipKept ==
  ASSUME NoTimelyMessageSkipped, Shrinks,
         \A t \in Tenants : cursor'[t] # None => cursor'[t] = cursor[t]
  PROVE  NoTimelyMessageSkipped'
  BY DEF NoTimelyMessageSkipped, Shrinks

(* A run that moves to r must be shown to be covered there.                *)
LEMMA CoverBecomes ==
  ASSUME TypeInv, CoverInv, Shrinks, NEW p \in Runs, NEW r, Becomes(p, r),
         \A m \in Messages : OwedTo(m, r)' => Covers(r, m)
  PROVE  CoverInv'
<1> SUFFICES ASSUME NEW q \in Runs, NEW m \in Messages, OwedTo(m, run[q])'
             PROVE  Covers(run[q], m)'
  BY DEF CoverInv
<1>1. CASE q = p
  BY <1>1, BecomesAt DEF OwedTo, Covers, Kept
<1>2. CASE q # p
  BY <1>2, BecomesAt, CoverKept
<1> QED
  BY <1>1, <1>2

(***************************************************************************)
(* A commit: the row was there and owed before, or it is new and timely.   *)
(***************************************************************************)
LEMMA SkipCommit ==
  ASSUME TypeInv, SkipInv, NEW w \in Writes, CommitMessage(w)
  PROVE  CoverInv' /\ NoTimelyMessageSkipped'
<1>1. UNCHANGED <<now, cursor, run, shown, floor>>
  BY DEF CommitMessage
<1>2. ASSUME NEW t \in Tenants, NEW m \in Messages, Owed(m, t)'
      PROVE  Owed(m, t) \/ Timely(m)
  <2>1. CASE m \in timely
    BY <1>1, <1>2, <2>1 DEF Owed, Visible, TypeInv, TypeOK
  <2>2. CASE m \notin timely
    BY <1>2, <2>2 DEF Owed, CommitMessage
  <2> QED
    BY <2>1, <2>2
<1>3. ASSUME NEW m \in Messages, Timely(m)
      PROVE  /\ SentAt[m] \in Nat
             /\ \/ SentAt[m] >= now - Overlap
                \/ /\ SentAt[m] >= lastOk - Margin - Overlap
                   /\ \A p \in Runs : run[p].pc \notin {"print", "ingest"}
  BY <1>3, MessagesAssumption, Bounds DEF Timely
<1>4. ASSUME NEW q \in Runs, NEW m \in Messages, OwedTo(m, run[q])'
      PROVE  Covers(run[q], m)'
  <2>1. Covers(run[q], m)' = Covers(run[q], m) /\ run'[q] = run[q]
    BY <1>1 DEF Covers, Kept
  <2>2. CASE run[q].pc = "idle"
    BY <2>1, <2>2 DEF Covers
  <2>3. CASE run[q].pc # "idle" /\ Owed(m, run[q].tenant)
    <3>1. OwedTo(m, run[q])
      BY <1>4, <2>1, <2>3 DEF OwedTo
    <3> QED
      BY <2>1, <3>1 DEF SkipInv, CoverInv
  <2>4. CASE run[q].pc # "idle" /\ Timely(m)
    <3>1. GateRun(run[q])
      BY DEF SkipInv, GateInv
    <3>2. run[q].fromCursor \/ SentAt[m] >= run[q].cutoff
      BY <1>4, <2>1 DEF OwedTo
    <3>3. CASE SentAt[m] >= now - Overlap
      BY <1>3, <2>1, <2>4, <3>1, <3>3, RunTyped, Bounds
      DEF Covers, Kept, GateRun
    <3>4. CASE /\ SentAt[m] >= lastOk - Margin - Overlap
               /\ \A p \in Runs : run[p].pc \notin {"print", "ingest"}
      BY <1>3, <2>1, <2>4, <3>1, <3>2, <3>4, RunTyped, Bounds
      DEF Covers, Kept, GateRun, MaxOf
    <3> QED
      BY <1>3, <2>1, <2>4, <3>3, <3>4
  <2>5. run[q].pc # "idle" => Owed(m, run[q].tenant) \/ Timely(m)
    BY <1>2, <1>4, <2>1, RunTyped DEF OwedTo
  <2> QED
    BY <2>2, <2>3, <2>4, <2>5
<1>5. ASSUME NEW t \in Tenants, NEW m \in Messages, Owed(m, t)', cursor'[t] # None
      PROVE  SentAt[m] >= cursor'[t] - Overlap
  <2>1. /\ cursor[t] \in Int /\ cursor'[t] = cursor[t]
        /\ cursor[t] <= now /\ cursor[t] <= lastOk - Margin
    BY <1>1, <1>5 DEF SkipInv, GateInv, TypeInv, TypeOK
  <2>2. CASE Owed(m, t)
    BY <2>1, <2>2, <1>5 DEF SkipInv, NoTimelyMessageSkipped
  <2>3. CASE Timely(m)
    BY <1>3, <2>1, <2>3, Bounds
  <2> QED
    BY <1>2, <1>5, <2>2, <2>3
<1> QED
  BY <1>4, <1>5 DEF CoverInv, NoTimelyMessageSkipped

LEMMA SkipDaemon ==
  ASSUME TypeInv, SkipInv, Daemon
  PROVE  CoverInv' /\ NoTimelyMessageSkipped'
<1>1. ASSUME NEW w \in Writes, CommitMessage(w)
      PROVE  CoverInv' /\ NoTimelyMessageSkipped'
  BY <1>1, SkipCommit
<1>2. ASSUME UNCHANGED <<rows, timely, shown, floor, cursor, run>>
      PROVE  CoverInv' /\ NoTimelyMessageSkipped'
  <2>1. Shrinks
    BY <1>2, ShrinksStutter
  <2> QED
    BY <1>2, <2>1, CoverKept, SkipKept DEF SkipInv, CoverInv
<1> QED
  BY <1>1, <1>2
  DEF Daemon, BeginWrite, MarkMediaOK, MarkMediaFailure, AbandonWrite, db, ghost

(***************************************************************************)
(* An unseen process: what it owes at each step follows from the step      *)
(* before.  <1>1 serves every step that leaves the cursors alone.          *)
(***************************************************************************)
LEMMA SkipReader ==
  ASSUME TypeInv, SkipInv, Reader
  PROVE  CoverInv' /\ NoTimelyMessageSkipped'
<1>1. ASSUME NEW p \in Runs, NEW r, Becomes(p, r), Shrinks,
             \A m \in Messages : OwedTo(m, r)' => Covers(r, m),
             UNCHANGED cursor
      PROVE  CoverInv' /\ NoTimelyMessageSkipped'
  BY <1>1, CoverBecomes, SkipKept DEF SkipInv
<1>2. ASSUME NEW r, r.pc \in {"idle", "cutoff", "mark"}
      PROVE  \A m \in Messages : Covers(r, m)
  BY <1>2 DEF Covers
<1>3. ASSUME NEW p \in Runs, NEW t \in Tenants, NEW advance \in Advances,
             NEW since \in Windows \cup {None}, StartRun(p, t, advance, since)
      PROVE  CoverInv' /\ NoTimelyMessageSkipped'
  <2>0. PICK r : r = [NoRun EXCEPT !.pc = "cutoff", !.tenant = t, !.now = now,
                                   !.advance = advance, !.since = since]
    OBVIOUS
  <2>1. r.pc = "cutoff"
    BY <2>0 DEF NoRun
  <2>2. Shrinks /\ Becomes(p, r) /\ UNCHANGED cursor
    BY <1>3, <2>0, ShrinksStutter DEF StartRun, db, ghost
  <2> QED
    BY <1>1, <1>2, <2>1, <2>2
<1>4. ASSUME NEW p \in Runs, ReadCutoff(p)
      PROVE  CoverInv' /\ NoTimelyMessageSkipped'
  <2> DEFINE t == run[p].tenant
  <2>0. PICK r : r = [run[p] EXCEPT !.pc = "fetch", !.cutoff = CutoffFor(run[p]),
                                    !.fromCursor = run[p].since = None
                                                   /\ cursor[run[p].tenant] # None]
    OBVIOUS
  <2>1. Shrinks /\ Becomes(p, r) /\ UNCHANGED cursor
    BY <1>4, <2>0, ShrinksStutter DEF ReadCutoff, db, ghost
  <2>2. /\ r.pc = "fetch" /\ r.cutoff = CutoffFor(run[p]) /\ r.tenant = t
        /\ r.fromCursor = (run[p].since = None /\ cursor[t] # None)
    BY <2>0 DEF TypeInv, TypeOK, RunState
  <2>3. ASSUME NEW m \in Messages, OwedTo(m, r)'
        PROVE  SentAt[m] >= r.cutoff
    <3>1. CASE ~r.fromCursor
      BY <2>3, <3>1 DEF OwedTo
    <3>2. CASE r.fromCursor
      <4>1. t \in Tenants /\ cursor[t] \in Int /\ SentAt[m] \in Nat
        BY <1>4, <2>2, <3>2, RunTyped, MessagesAssumption
        DEF ReadCutoff, TypeInv, TypeOK
      <4>2. SentAt[m] >= cursor[t] - Overlap
        BY <2>1, <2>2, <2>3, <3>2, <4>1
        DEF OwedTo, Shrinks, SkipInv, NoTimelyMessageSkipped
      <4>3. CutoffFor(run[p]) = MaxOf(0, cursor[t] - Overlap)
        BY <2>2, <3>2 DEF CutoffFor
      <4> QED
        BY <2>2, <4>1, <4>2, <4>3, Bounds DEF MaxOf
    <3> QED
      BY <3>1, <3>2
  <2>4. \A m \in Messages : OwedTo(m, r)' => Covers(r, m)
    BY <2>2, <2>3 DEF Covers
  <2> QED
    BY <1>1, <2>1, <2>4
<1>5. ASSUME NEW p \in Runs, FetchRows(p)
      PROVE  CoverInv' /\ NoTimelyMessageSkipped'
  <2> DEFINE t == run[p].tenant
  <2>0. PICK r : r = [run[p] EXCEPT !.pc = "print", !.fetched = Selected(run[p]),
                                    !.fresh = Selected(run[p]) \cap Unsurfaced]
    OBVIOUS
  <2>1. Shrinks /\ Becomes(p, r) /\ UNCHANGED cursor
    BY <1>5, <2>0, ShrinksStutter DEF FetchRows, db, ghost
  <2>2. /\ r.pc = "print" /\ r.fetched = Selected(run[p]) /\ r.now = run[p].now
        /\ r.tenant = t /\ r.cutoff = run[p].cutoff
        /\ r.fromCursor = run[p].fromCursor
    BY <2>0 DEF TypeInv, TypeOK, RunState
  <2>3. t \in Tenants /\ run[p].pc = "fetch"
    BY <1>5, RunTyped DEF FetchRows
  <2>4. ASSUME NEW m \in Messages, OwedTo(m, r)'
        PROVE  m \in r.fetched \/ Kept(m, r.now)
    <3>1. OwedTo(m, run[p])
      BY <2>1, <2>2, <2>3, <2>4 DEF OwedTo, Shrinks
    <3>2. SentAt[m] >= run[p].cutoff \/ Kept(m, run[p].now)
      BY <2>3, <3>1 DEF SkipInv, CoverInv, Covers
    <3>3. m \in Visible(t)
      BY <3>1 DEF OwedTo, Owed
    <3> QED
      BY <2>2, <3>2, <3>3 DEF Selected
  <2>5. \A m \in Messages : OwedTo(m, r)' => Covers(r, m)
    BY <2>2, <2>4 DEF Covers
  <2> QED
    BY <1>1, <2>1, <2>5
<1>6. ASSUME NEW p \in Runs, WriteOutput(p)
      PROVE  CoverInv' /\ NoTimelyMessageSkipped'
  <2> DEFINE t == run[p].tenant
  <2>0. PICK r : r = [run[p] EXCEPT !.pc = "ingest", !.fetched = {}]
    OBVIOUS
  <2>1. t \in Tenants /\ run[p].pc = "print" /\ UNCHANGED cursor
    BY <1>6, RunTyped DEF WriteOutput
  <2>2. Shrinks
    <3>1. \A u \in Tenants : /\ shown[u] \subseteq shown'[u]
                             /\ floor'[u] \in Int /\ floor[u] <= floor'[u]
      BY <1>6, <2>1 DEF WriteOutput, TypeInv, TypeOK
    <3> QED
      BY <1>6, <3>1, OwedShrinks DEF WriteOutput, db
  <2>3. CASE Becomes(p, NoRun)
    BY <1>1, <1>2, <2>1, <2>2, <2>3 DEF NoRun
  <2>4. CASE Becomes(p, r) /\ shown' = [shown EXCEPT ![t] = @ \cup run[p].fetched]
    <3>1. /\ r.pc = "ingest" /\ r.now = run[p].now /\ r.tenant = t
          /\ r.cutoff = run[p].cutoff /\ r.fromCursor = run[p].fromCursor
      BY <2>0 DEF TypeInv, TypeOK, RunState
    <3>2. ASSUME NEW m \in Messages, OwedTo(m, r)'
          PROVE  Kept(m, r.now)
      <4>1. OwedTo(m, run[p])
        BY <2>1, <2>2, <3>1, <3>2 DEF OwedTo, Shrinks
      <4>2. m \notin run[p].fetched
        BY <2>1, <2>4, <3>1, <3>2 DEF OwedTo, Owed, TypeInv, TypeOK
      <4> QED
        BY <2>1, <3>1, <4>1, <4>2 DEF SkipInv, CoverInv, Covers
    <3>3. \A m \in Messages : OwedTo(m, r)' => Covers(r, m)
      BY <3>1, <3>2 DEF Covers
    <3> QED
      BY <1>1, <2>1, <2>2, <2>4, <3>3
  <2> QED
    BY <1>6, <2>0, <2>3, <2>4 DEF WriteOutput
<1>7. ASSUME NEW p \in Runs, ReadIngest(p)
      PROVE  CoverInv' /\ NoTimelyMessageSkipped'
  <2>1. Shrinks /\ UNCHANGED cursor
    BY <1>7, ShrinksStutter DEF ReadIngest, db, ghost
  <2>2. run[p].tenant \in Tenants /\ run[p].pc = "ingest"
    BY <1>7, RunTyped DEF ReadIngest
  <2>3. CASE Becomes(p, NoRun)
    BY <1>1, <1>2, <2>1, <2>3 DEF NoRun
  <2>4. ASSUME NEW o \in okRuns,
               Becomes(p, [run[p] EXCEPT !.pc = "prior", !.target = o[2] - Margin])
        PROVE  CoverInv' /\ NoTimelyMessageSkipped'
    <3>0. PICK r : r = [run[p] EXCEPT !.pc = "prior", !.target = o[2] - Margin]
      OBVIOUS
    <3>1. /\ r.pc = "prior" /\ r.now = run[p].now /\ r.tenant = run[p].tenant
          /\ r.cutoff = run[p].cutoff /\ r.fromCursor = run[p].fromCursor
      BY <3>0 DEF TypeInv, TypeOK, RunState
    <3>2. ASSUME NEW m \in Messages, OwedTo(m, r)'
          PROVE  Kept(m, r.now)
      <4>1. OwedTo(m, run[p])
        BY <2>1, <2>2, <3>1, <3>2 DEF OwedTo, Shrinks
      <4> QED
        BY <2>2, <3>1, <4>1 DEF SkipInv, CoverInv, Covers
    <3>3. \A m \in Messages : OwedTo(m, r)' => Covers(r, m)
      BY <3>1, <3>2 DEF Covers
    <3> QED
      BY <1>1, <2>1, <2>4, <3>0, <3>3
  <2> QED
    BY <1>7, <2>3, <2>4 DEF ReadIngest
<1>8. ASSUME NEW p \in Runs
      PROVE  Marking(run[p]).pc = "mark"
  BY DEF Marking, NoRun
<1>9. ASSUME NEW p \in Runs, ReadPrior(p)
      PROVE  CoverInv' /\ NoTimelyMessageSkipped'
  <2>0. PICK r : r = [run[p] EXCEPT !.pc = "write", !.target = NewCursor(run[p])]
    OBVIOUS
  <2>1. Shrinks /\ UNCHANGED cursor
    BY <1>9, ShrinksStutter DEF ReadPrior, db, ghost
  <2>2. run[p].tenant \in Tenants /\ run[p].pc = "prior"
    BY <1>9, RunTyped DEF ReadPrior
  <2>3. CASE Becomes(p, Marking(run[p]))
    BY <1>1, <1>2, <1>8, <2>1, <2>3
  <2>4. CASE Becomes(p, r)
    <3>1. /\ r.pc = "write" /\ r.target = NewCursor(run[p])
          /\ r.tenant = run[p].tenant
          /\ r.cutoff = run[p].cutoff /\ r.fromCursor = run[p].fromCursor
      BY <2>0 DEF TypeInv, TypeOK, RunState
    <3>2. ASSUME NEW m \in Messages, OwedTo(m, r)'
          PROVE  Kept(m, r.target)
      <4>1. OwedTo(m, run[p])
        BY <2>1, <2>2, <3>1, <3>2 DEF OwedTo, Shrinks
      <4>2. Kept(m, run[p].now) \/ Kept(m, run[p].target)
        BY <2>2, <4>1 DEF SkipInv, CoverInv, Covers
      <4>3. SentAt[m] \in Nat
        BY MessagesAssumption
      <4> QED
        BY <3>1, <4>2, <4>3, RunTyped, Bounds DEF Kept, NewCursor, MinOf
    <3>3. \A m \in Messages : OwedTo(m, r)' => Covers(r, m)
      BY <3>1, <3>2 DEF Covers
    <3> QED
      BY <1>1, <2>1, <2>4, <3>3
  <2> QED
    BY <1>9, <2>0, <2>3, <2>4 DEF ReadPrior
<1>10. ASSUME NEW p \in Runs, WriteCursor(p)
       PROVE  CoverInv' /\ NoTimelyMessageSkipped'
  <2> DEFINE t == run[p].tenant
  <2>1. /\ t \in Tenants /\ run[p].pc = "write" /\ Becomes(p, Marking(run[p]))
        /\ cursor' = [cursor EXCEPT ![t] = run[p].target]
        /\ UNCHANGED <<rows, timely, shown>>
    BY <1>10, RunTyped DEF WriteCursor, db
  <2>2. \A u \in Tenants : /\ floor'[u] \in Int /\ floor[u] <= floor'[u]
                           /\ u = t /\ ~run[p].fromCursor
                                 => run[p].cutoff <= floor'[u]
    BY <1>10, <2>1, RunTyped DEF WriteCursor, MaxOf, TypeInv, TypeOK
  <2>3. Shrinks
    BY <2>1, <2>2, OwedShrinks
  <2>4. CoverInv'
    BY <1>2, <1>8, <2>1, <2>3, CoverBecomes DEF SkipInv
  <2>5. ASSUME NEW u \in Tenants, NEW m \in Messages, Owed(m, u)', cursor'[u] # None
        PROVE  SentAt[m] >= cursor'[u] - Overlap
    <3>1. Owed(m, u)
      BY <2>3, <2>5 DEF Shrinks
    <3>2. CASE u = t
      <4>1. SentAt[m] \in Nat /\ SentAt[m] >= floor'[t]
        BY <2>5, <3>2, MessagesAssumption DEF Owed
      <4>2. OwedTo(m, run[p])
        BY <2>1, <2>2, <3>1, <3>2, <4>1, RunTyped DEF OwedTo
      <4>3. Kept(m, run[p].target)
        BY <2>1, <4>2 DEF SkipInv, CoverInv, Covers
      <4>4. cursor'[u] = run[p].target
        BY <2>1, <3>2 DEF TypeInv, TypeOK
      <4> QED
        BY <4>3, <4>4 DEF Kept
    <3>3. CASE u # t
      <4>1. cursor'[u] = cursor[u]
        BY <2>1, <3>3 DEF TypeInv, TypeOK
      <4> QED
        BY <2>5, <3>1, <4>1 DEF SkipInv, NoTimelyMessageSkipped
    <3> QED
      BY <3>2, <3>3
  <2> QED
    BY <2>4, <2>5 DEF NoTimelyMessageSkipped
<1>11. ASSUME NEW p \in Runs, MarkSurfaced(p) \/ AbortRun(p)
       PROVE  CoverInv' /\ NoTimelyMessageSkipped'
  <2>1. Shrinks /\ Becomes(p, NoRun) /\ UNCHANGED cursor
    BY <1>11, ShrinksStutter DEF MarkSurfaced, AbortRun, db, ghost
  <2> QED
    BY <1>1, <1>2, <2>1 DEF NoRun
<1> QED
  BY <1>3, <1>4, <1>5, <1>6, <1>7, <1>9, <1>10, <1>11 DEF Reader, RunStep

LEMMA SkipRest ==
  ASSUME TypeInv, SkipInv,
         Tick \/ (\E t \in Tenants : DeleteState(t)) \/ UNCHANGED vars
  PROVE  CoverInv' /\ NoTimelyMessageSkipped'
<1>1. /\ UNCHANGED <<rows, timely, shown, floor, run>>
      /\ \A t \in Tenants : cursor'[t] # None => cursor'[t] = cursor[t]
  BY DEF Tick, DeleteState, vars, db, ghost, TypeInv, TypeOK
<1>2. Shrinks
  BY <1>1, ShrinksStutter
<1> QED
  BY <1>1, <1>2, CoverKept, SkipKept DEF SkipInv, CoverInv

LEMMA SkipInit == Init => SkipInv
<1> SUFFICES ASSUME Init PROVE SkipInv
  OBVIOUS
<1>1. TypeInv
  BY TypeInit
<1>2. GateInv
  BY <1>1, NoRunGate DEF Init, GateInv
<1>3. CoverInv /\ NoTimelyMessageSkipped
  BY DEF Init, NoRun, CoverInv, Covers, NoTimelyMessageSkipped
<1> QED
  BY <1>2, <1>3 DEF SkipInv

LEMMA SkipStep == TypeInv /\ SkipInv /\ [Next]_vars => SkipInv'
  BY GateStep, SkipDaemon, SkipReader, SkipRest DEF SkipInv, Next

(***************************************************************************)
(* For any number of overlapping unseen runs and of concurrent commits, a  *)
(* run killed at any step and a state file deleted at any time: a timely   *)
(* message the tenant has not been shown stays inside its next window.     *)
(***************************************************************************)
THEOREM NothingTimelySkipped == Spec => []NoTimelyMessageSkipped
<1>1. Init => TypeInv /\ SkipInv
  BY TypeInit, SkipInit
<1>2. TypeInv /\ SkipInv /\ [Next]_vars => TypeInv' /\ SkipInv'
  BY TypeStep, SkipStep
<1>3. SkipInv => NoTimelyMessageSkipped
  BY DEF SkipInv
<1> QED
  BY <1>1, <1>2, <1>3, PTL DEF Spec

-----------------------------------------------------------------------------
(***************************************************************************)
(* Media.  A run ticks off only what it fetched, and printed before.       *)
(***************************************************************************)
LEMMA FreshBecomes ==
  ASSUME TypeInv, MediaInv, NEW p \in Runs, NEW r, Becomes(p, r),
         \A t \in Tenants : announced[t] \subseteq announced'[t],
         r.pc \in {"ingest", "prior", "write", "mark"} =>
             r.tenant \in Tenants /\ r.fresh \subseteq announced'[r.tenant],
         surfaced' \subseteq surfaced
  PROVE  MediaInv'
<1>1. ASSUME NEW q \in Runs, q # p,
             run[q].pc \in {"ingest", "prior", "write", "mark"}
      PROVE  run[q].fresh \subseteq announced'[run[q].tenant]
  BY <1>1, RunTyped DEF MediaInv, FreshInv
<1>2. FreshInv'
  BY <1>1, BecomesAt DEF FreshInv
<1>3. SurfacedWasAnnounced'
  BY DEF MediaInv, SurfacedWasAnnounced
<1> QED
  BY <1>2, <1>3 DEF MediaInv

LEMMA MediaReader ==
  ASSUME TypeInv, MediaInv, Reader
  PROVE  MediaInv'
<1>1. ASSUME NEW p \in Runs, NEW r, Becomes(p, r), UNCHANGED <<announced, surfaced>>,
             r.pc \in {"ingest", "prior", "write", "mark"} =>
                 /\ run[p].pc \in {"ingest", "prior", "write", "mark"}
                 /\ r.tenant = run[p].tenant
                 /\ r.fresh = run[p].fresh
      PROVE  MediaInv'
  BY <1>1, FreshBecomes, RunTyped DEF MediaInv, FreshInv
<1>2. ASSUME NEW p \in Runs, NEW t \in Tenants, NEW advance \in Advances,
             NEW since \in Windows \cup {None}, StartRun(p, t, advance, since)
      PROVE  MediaInv'
  BY <1>1, <1>2 DEF StartRun, NoRun, db, ghost
<1>3. ASSUME NEW p \in Runs, ReadCutoff(p) \/ FetchRows(p)
      PROVE  MediaInv'
  <2>1. CASE ReadCutoff(p)
    <3> DEFINE r == [run[p] EXCEPT !.pc = "fetch", !.cutoff = CutoffFor(run[p]),
                                   !.fromCursor = run[p].since = None
                                                  /\ cursor[run[p].tenant] # None]
    <3>1. r.pc = "fetch"
      BY DEF TypeInv, TypeOK, RunState
    <3>2. Becomes(p, r)
      BY <2>1 DEF ReadCutoff
    <3> QED
      BY <1>1, <2>1, <3>1, <3>2 DEF ReadCutoff, db, ghost
  <2>2. CASE FetchRows(p)
    <3> DEFINE r == [run[p] EXCEPT !.pc = "print", !.fetched = Selected(run[p]),
                                   !.fresh = Selected(run[p]) \cap Unsurfaced]
    <3>1. r.pc = "print"
      BY DEF TypeInv, TypeOK, RunState
    <3>2. Becomes(p, r)
      BY <2>2 DEF FetchRows
    <3> QED
      BY <1>1, <2>2, <3>1, <3>2 DEF FetchRows, db, ghost
  <2> QED
    BY <1>3, <2>1, <2>2
<1>4. ASSUME NEW p \in Runs, WriteOutput(p)
      PROVE  MediaInv'
  <2>1. run[p].tenant \in Tenants /\ UNCHANGED surfaced
    BY <1>4, RunTyped DEF WriteOutput, db
  <2>2. CASE Becomes(p, NoRun) /\ UNCHANGED announced
    BY <1>1, <2>1, <2>2 DEF NoRun
  <2>3. CASE /\ Becomes(p, [run[p] EXCEPT !.pc = "ingest", !.fetched = {}])
             /\ announced' = [announced EXCEPT ![run[p].tenant] = @ \cup run[p].fresh]
    <3> DEFINE r == [run[p] EXCEPT !.pc = "ingest", !.fetched = {}]
    <3>1. r.tenant = run[p].tenant /\ r.fresh = run[p].fresh
      BY DEF TypeInv, TypeOK, RunState
    <3>2. /\ \A t \in Tenants : announced[t] \subseteq announced'[t]
          /\ r.fresh \subseteq announced'[run[p].tenant]
      BY <2>1, <2>3, <3>1 DEF TypeInv, TypeOK
    <3> QED
      BY <2>1, <2>3, <3>1, <3>2, FreshBecomes
  <2> QED
    BY <1>4, <2>2, <2>3 DEF WriteOutput
<1>5. ASSUME NEW p \in Runs, ReadIngest(p)
      PROVE  MediaInv'
  <2>1. UNCHANGED <<announced, surfaced>> /\ run[p].pc = "ingest"
    BY <1>5 DEF ReadIngest, db, ghost
  <2>2. ASSUME NEW o \in okRuns,
               Becomes(p, [run[p] EXCEPT !.pc = "prior", !.target = o[2] - Margin])
        PROVE  MediaInv'
    BY <1>1, <2>1, <2>2 DEF TypeInv, TypeOK, RunState
  <2>3. CASE Becomes(p, NoRun)
    BY <1>1, <2>1, <2>3 DEF NoRun
  <2> QED
    BY <1>5, <2>2, <2>3 DEF ReadIngest
<1>6. ASSUME NEW p \in Runs, ReadPrior(p) \/ WriteCursor(p)
      PROVE  MediaInv'
  <2>1. /\ UNCHANGED <<announced, surfaced>>
        /\ run[p].pc \in {"prior", "write"}
        /\ \/ Becomes(p, Marking(run[p]))
           \/ Becomes(p, [run[p] EXCEPT !.pc = "write", !.target = NewCursor(run[p])])
    BY <1>6 DEF ReadPrior, WriteCursor, db, ghost
  <2>2. CASE Becomes(p, Marking(run[p]))
    BY <1>1, <2>1, <2>2 DEF Marking, NoRun
  <2>3. CASE Becomes(p, [run[p] EXCEPT !.pc = "write", !.target = NewCursor(run[p])])
    BY <1>1, <2>1, <2>3 DEF TypeInv, TypeOK, RunState
  <2> QED
    BY <2>1, <2>2, <2>3
<1>7. ASSUME NEW p \in Runs, MarkSurfaced(p)
      PROVE  MediaInv'
  <2>1. /\ Becomes(p, NoRun) /\ UNCHANGED announced
        /\ surfaced' = surfaced \cup run[p].fresh
    BY <1>7 DEF MarkSurfaced, ghost
  <2>2. /\ run[p].tenant \in Tenants
        /\ run[p].fresh \subseteq announced[run[p].tenant]
    BY <1>7, RunTyped DEF MarkSurfaced, MediaInv, FreshInv
  <2>3. SurfacedWasAnnounced'
    BY <2>1, <2>2 DEF MediaInv, SurfacedWasAnnounced
  <2>4. FreshInv'
    BY <2>1, BecomesAt, NoRunTyped DEF MediaInv, FreshInv
  <2> QED
    BY <2>3, <2>4 DEF MediaInv
<1>8. ASSUME NEW p \in Runs, AbortRun(p)
      PROVE  MediaInv'
  BY <1>1, <1>8, NoRunTyped DEF AbortRun, db, ghost
<1> QED
  BY <1>2, <1>3, <1>4, <1>5, <1>6, <1>7, <1>8 DEF Reader, RunStep

LEMMA MediaStep == TypeInv /\ MediaInv /\ [Next]_vars => MediaInv'
<1> SUFFICES ASSUME TypeInv, MediaInv, [Next]_vars PROVE MediaInv'
  OBVIOUS
<1>1. ASSUME UNCHANGED <<run, announced>>, surfaced' \subseteq surfaced
      PROVE  MediaInv'
  BY <1>1 DEF MediaInv, FreshInv, SurfacedWasAnnounced
<1>2. CASE Daemon
  BY <1>1, <1>2
  DEF Daemon, BeginWrite, CommitMessage, MarkMediaOK, MarkMediaFailure,
      AbandonWrite, RecordOk, db, ghost
<1>3. CASE Tick \/ (\E t \in Tenants : DeleteState(t)) \/ UNCHANGED vars
  BY <1>1, <1>3 DEF Tick, DeleteState, vars, db, ghost
<1> QED
  BY <1>2, <1>3, MediaReader DEF Next

(***************************************************************************)
(* Whatever overlaps, is killed or is downloaded again: media whose        *)
(* announcement is ticked off was announced.                               *)
(***************************************************************************)
THEOREM SurfacedAnnounced == Spec => []SurfacedWasAnnounced
<1>1. Init => TypeInv /\ MediaInv
  BY TypeInit DEF Init, NoRun, MediaInv, FreshInv, SurfacedWasAnnounced
<1>2. TypeInv /\ MediaInv /\ [Next]_vars => TypeInv' /\ MediaInv'
  BY TypeStep, MediaStep
<1>3. MediaInv => SurfacedWasAnnounced
  BY DEF MediaInv
<1> QED
  BY <1>1, <1>2, <1>3, PTL DEF Spec

-----------------------------------------------------------------------------
(***************************************************************************)
(* A cursor against the run that is about to write it.                     *)
(***************************************************************************)
OneRun == \A p, q \in Runs : p = q

(* c, the cursor of r's tenant, is behind r's start, and behind r's target *)
(* once that has been compared with it.                                    *)
Behind(c, r) ==
    /\ r.pc \notin {"idle", "mark"} => c <= r.now
    /\ r.pc = "write" => c <= r.target

BehindInv ==
    \A p \in Runs :
        cursor[run[p].tenant] # None => Behind(cursor[run[p].tenant], run[p])

(* A slot at rest owes nothing.                                            *)
LEMMA RestBehind ==
  ASSUME NEW c, NEW p \in Runs
  PROVE  Behind(c, NoRun) /\ Behind(c, Marking(run[p]))
  BY DEF Behind, NoRun, Marking

(* The only run turns into r, the cursors as they are.                     *)
LEMMA BehindBecomes ==
  ASSUME OneRun, TypeInv, NEW p \in Runs, NEW r, Becomes(p, r), cursor' = cursor,
         cursor[r.tenant] # None => Behind(cursor[r.tenant], r)
  PROVE  BehindInv'
<1>1. run'[p] = r
  BY BecomesAt
<1>2. ASSUME NEW q \in Runs, cursor'[run'[q].tenant] # None
      PROVE  Behind(cursor'[run'[q].tenant], run'[q])
  <2>1. q = p
    BY DEF OneRun
  <2> QED
    BY <1>1, <1>2, <2>1
<1> QED
  BY <1>2 DEF BehindInv, Behind

LEMMA BehindReader ==
  ASSUME OneRun, TypeInv, GateInv, BehindInv, Reader
  PROVE  BehindInv'
<1> USE DEF ghost, db
<1>1. ASSUME NEW p \in Runs, NEW t \in Tenants, NEW advance \in Advances,
             NEW since \in Windows \cup {None}, StartRun(p, t, advance, since)
      PROVE  BehindInv'
  <2> DEFINE r == [NoRun EXCEPT !.pc = "cutoff", !.tenant = t, !.now = now,
                                !.advance = advance, !.since = since]
  <2>1. r.pc = "cutoff" /\ r.tenant = t /\ r.now = now
    BY DEF NoRun
  <2>2. cursor[t] # None => cursor[t] <= now
    BY DEF GateInv
  <2>3. cursor[r.tenant] # None => Behind(cursor[r.tenant], r)
    BY <2>1, <2>2 DEF Behind
  <2>4. Becomes(p, r) /\ cursor' = cursor
    BY <1>1 DEF StartRun
  <2> HIDE DEF r
  <2> QED
    BY <2>3, <2>4, BehindBecomes
<1>2. ASSUME NEW p \in Runs, NEW r, Becomes(p, r), cursor' = cursor,
             r.tenant = run[p].tenant, r.now = run[p].now,
             run[p].pc \notin {"idle", "mark"}, r.pc # "write"
      PROVE  BehindInv'
  BY <1>2, BehindBecomes DEF BehindInv, Behind
<1>3. ASSUME NEW p \in Runs, Becomes(p, NoRun) \/ Becomes(p, Marking(run[p])),
             cursor' = cursor
      PROVE  BehindInv'
  BY <1>3, RestBehind, BehindBecomes
<1>4. ASSUME NEW p \in Runs, ReadCutoff(p)
      PROVE  BehindInv'
  BY <1>2, <1>4 DEF ReadCutoff, TypeInv, TypeOK, RunState
<1>5. ASSUME NEW p \in Runs, FetchRows(p)
      PROVE  BehindInv'
  BY <1>2, <1>5 DEF FetchRows, TypeInv, TypeOK, RunState
<1>6. ASSUME NEW p \in Runs, WriteOutput(p)
      PROVE  BehindInv'
  BY <1>2, <1>3, <1>6 DEF WriteOutput, TypeInv, TypeOK, RunState
<1>7. ASSUME NEW p \in Runs, ReadIngest(p)
      PROVE  BehindInv'
  BY <1>2, <1>3, <1>7 DEF ReadIngest, TypeInv, TypeOK, RunState
<1>8. ASSUME NEW p \in Runs, ReadPrior(p)
      PROVE  BehindInv'
  <2> DEFINE t == run[p].tenant
             r == [run[p] EXCEPT !.pc = "write", !.target = NewCursor(run[p])]
  <2>1. CASE Becomes(p, Marking(run[p])) /\ cursor' = cursor
    BY <1>3, <2>1
  <2>2. CASE run[p].target > PriorCursor(t) /\ Becomes(p, r) /\ cursor' = cursor
    <3>1. r.pc = "write" /\ r.tenant = t /\ r.now = run[p].now
          /\ r.target = NewCursor(run[p])
      BY DEF TypeInv, TypeOK, RunState
    <3>2. ASSUME cursor[t] # None
          PROVE  Behind(cursor[t], r)
      <4>1. t \in Tenants /\ run[p].pc = "prior"
        BY <1>8, RunTyped DEF ReadPrior
      <4>2. cursor[t] \in Int /\ cursor[t] <= run[p].now
        BY <3>2, <4>1 DEF TypeInv, TypeOK, BehindInv, Behind
      <4>3. cursor[t] < run[p].target
        BY <2>2, <3>2, <4>2, RunTyped DEF PriorCursor
      <4>4. cursor[t] <= NewCursor(run[p])
        BY <4>2, <4>3, RunTyped DEF NewCursor, MinOf
      <4> QED
        BY <3>1, <4>2, <4>4 DEF Behind
    <3> HIDE DEF r
    <3> QED
      BY <2>2, <3>1, <3>2, BehindBecomes
  <2> QED
    BY <1>8, <2>1, <2>2 DEF ReadPrior
<1>9. ASSUME NEW p \in Runs, WriteCursor(p)
      PROVE  BehindInv'
  <2>1. run'[p] = Marking(run[p])
    BY <1>9, BecomesAt DEF WriteCursor
  <2>2. ASSUME NEW q \in Runs
        PROVE  Behind(cursor'[run'[q].tenant], run'[q])
    <3>1. q = p
      BY DEF OneRun
    <3> QED
      BY <2>1, <3>1, RestBehind
  <2> QED
    BY <2>2 DEF BehindInv, Behind
<1>10. ASSUME NEW p \in Runs, MarkSurfaced(p) \/ AbortRun(p)
       PROVE  BehindInv'
  BY <1>3, <1>10 DEF MarkSurfaced, AbortRun
<1> QED
  BY <1>1, <1>4, <1>5, <1>6, <1>7, <1>8, <1>9, <1>10 DEF Reader, RunStep

LEMMA BehindStep ==
  OneRun /\ TypeInv /\ GateInv /\ BehindInv /\ [Next]_vars => BehindInv'
<1> SUFFICES ASSUME OneRun, TypeInv, GateInv, BehindInv, [Next]_vars PROVE BehindInv'
  OBVIOUS
<1>1. ASSUME run' = run, \A t : cursor'[t] # None => cursor'[t] = cursor[t]
      PROVE  BehindInv'
  BY <1>1 DEF BehindInv, Behind
<1>2. CASE Daemon \/ Tick \/ UNCHANGED vars
  <2>1. run' = run /\ cursor' = cursor
    BY <1>2
    DEF Daemon, Tick, vars, BeginWrite, CommitMessage, MarkMediaOK, MarkMediaFailure,
        AbandonWrite, ghost
  <2> QED
    BY <1>1, <2>1
<1>3. ASSUME NEW t \in Tenants, DeleteState(t)
      PROVE  BehindInv'
  <2>1. /\ run' = run
        /\ cursor' = [cursor EXCEPT ![t] = None]
    BY <1>3 DEF DeleteState
  <2>2. ASSUME NEW p \in Runs, cursor'[run[p].tenant] # None
        PROVE  Behind(cursor'[run[p].tenant], run[p])
    <3>1. CASE run[p].tenant \in Tenants
      BY <2>1, <2>2, <3>1 DEF BehindInv, TypeInv, TypeOK
    <3>2. CASE run[p].tenant \notin Tenants
      BY <3>2, RunTyped DEF Behind
    <3> QED
      BY <3>1, <3>2
  <2> QED
    BY <2>1, <2>2 DEF BehindInv, Behind
<1> QED
  BY <1>2, <1>3, BehindReader DEF Next

(***************************************************************************)
(* Runs that do not overlap move a cursor forward only, whatever they are  *)
(* asked, wherever they are killed and whoever deletes the file meanwhile  *)
(* (unseen.go, runWithDB).                                                 *)
(***************************************************************************)
THEOREM CursorAdvances == OneRun => (Spec => CursorOnlyAdvances)
<1> SUFFICES ASSUME OneRun PROVE Spec => CursorOnlyAdvances
  OBVIOUS
<1> DEFINE Inv == TypeInv /\ GateInv /\ BehindInv
           Forward == \A t \in Tenants :
               cursor[t] # None /\ cursor'[t] # None => cursor'[t] >= cursor[t]
<1>1. Init => Inv
  BY TypeInit, SkipInit DEF Init, SkipInv, BehindInv, Behind, NoRun
<1>2. Inv /\ [Next]_vars => Inv'
  BY TypeStep, GateStep, BehindStep
<1>3. Inv /\ [Next]_vars => [Forward]_cursor
  <2> SUFFICES ASSUME Inv, [Next]_vars, cursor' # cursor PROVE Forward
    OBVIOUS
  <2>1. ASSUME NEW p \in Runs, WriteCursor(p)
        PROVE  Forward
    <3> DEFINE u == run[p].tenant
    <3>1. /\ u \in Tenants /\ run[p].pc = "write"
          /\ cursor' = [cursor EXCEPT ![u] = run[p].target]
      BY <2>1, RunTyped DEF WriteCursor
    <3>2. cursor[u] # None => cursor[u] <= run[p].target
      BY <3>1 DEF BehindInv, Behind
    <3>3. cursor \in [Tenants -> Int \cup {None}] /\ run[p].target \in Int
      BY RunTyped DEF TypeInv, TypeOK
    <3> HIDE DEF u
    <3> QED
      BY <3>1, <3>2, <3>3
  <2>2. ASSUME NEW u \in Tenants, DeleteState(u)
        PROVE  Forward
    <3>1. cursor \in [Tenants -> Int \cup {None}]
      BY DEF TypeInv, TypeOK
    <3> QED
      BY <2>2, <3>1 DEF DeleteState
  <2>3. \/ \E p \in Runs : WriteCursor(p)
        \/ \E u \in Tenants : DeleteState(u)
    BY DEF Next, Tick, Daemon, BeginWrite, CommitMessage, MarkMediaOK,
           MarkMediaFailure, AbandonWrite, Reader, RunStep, StartRun, ReadCutoff,
           FetchRows, WriteOutput, ReadIngest, ReadPrior, MarkSurfaced, AbortRun,
           vars, ghost
  <2> QED
    BY <2>1, <2>2, <2>3
<1> QED
  BY <1>1, <1>2, <1>3, PTL DEF Spec, CursorOnlyAdvances

-----------------------------------------------------------------------------
(***************************************************************************)
(* The refinement of Delivery.  What a run is about to print are committed *)
(* rows of its tenant's chats, the media among them included.              *)
(***************************************************************************)
Printable(r) ==
    r.pc = "print" => r.fetched \subseteq Visible(r.tenant) /\ r.fresh \subseteq r.fetched

PrintInv == \A p \in Runs : Printable(run[p])

LEMMA PrintBecomes ==
  ASSUME TypeInv, PrintInv, rows' = rows, NEW p \in Runs, NEW r, Becomes(p, r),
         Printable(r)
  PROVE  PrintInv'
  BY BecomesAt DEF PrintInv, Printable, Visible

LEMMA PrintReader ==
  ASSUME TypeInv, PrintInv, Reader
  PROVE  PrintInv'
<1> USE DEF ghost, db
<1>1. ASSUME NEW p \in Runs, NEW r, Becomes(p, r), rows' = rows, r.pc # "print"
      PROVE  PrintInv'
  BY <1>1, PrintBecomes DEF Printable
<1>2. ASSUME NEW p \in Runs, NEW t \in Tenants, NEW advance \in Advances,
             NEW since \in Windows \cup {None}, StartRun(p, t, advance, since)
      PROVE  PrintInv'
  BY <1>1, <1>2 DEF StartRun, NoRun
<1>3. ASSUME NEW p \in Runs, ReadCutoff(p)
      PROVE  PrintInv'
  BY <1>1, <1>3 DEF ReadCutoff, TypeInv, TypeOK, RunState
<1>4. ASSUME NEW p \in Runs, FetchRows(p)
      PROVE  PrintInv'
  <2> DEFINE r == [run[p] EXCEPT !.pc = "print", !.fetched = Selected(run[p]),
                                 !.fresh = Selected(run[p]) \cap Unsurfaced]
  <2>1. /\ r.tenant = run[p].tenant /\ r.fetched = Selected(run[p])
        /\ r.fresh = Selected(run[p]) \cap Unsurfaced
    BY DEF TypeInv, TypeOK, RunState
  <2>2. Printable(r)
    BY <2>1 DEF Printable, Selected
  <2>3. Becomes(p, r) /\ rows' = rows
    BY <1>4 DEF FetchRows
  <2> QED
    BY <2>2, <2>3, PrintBecomes
<1>5. ASSUME NEW p \in Runs, WriteOutput(p)
      PROVE  PrintInv'
  BY <1>1, <1>5 DEF WriteOutput, NoRun, TypeInv, TypeOK, RunState
<1>6. ASSUME NEW p \in Runs, ReadIngest(p)
      PROVE  PrintInv'
  BY <1>1, <1>6 DEF ReadIngest, NoRun, TypeInv, TypeOK, RunState
<1>7. ASSUME NEW p \in Runs, ReadPrior(p) \/ WriteCursor(p)
      PROVE  PrintInv'
  BY <1>1, <1>7 DEF ReadPrior, WriteCursor, Marking, NoRun, TypeInv, TypeOK, RunState
<1>8. ASSUME NEW p \in Runs, MarkSurfaced(p) \/ AbortRun(p)
      PROVE  PrintInv'
  BY <1>1, <1>8 DEF MarkSurfaced, AbortRun, NoRun
<1> QED
  BY <1>2, <1>3, <1>4, <1>5, <1>6, <1>7, <1>8 DEF Reader, RunStep

LEMMA PrintStep == TypeInv /\ PrintInv /\ [Next]_vars => PrintInv'
<1> SUFFICES ASSUME TypeInv, PrintInv, [Next]_vars PROVE PrintInv'
  OBVIOUS
<1>1. ASSUME run' = run, rows \subseteq rows'
      PROVE  PrintInv'
  BY <1>1 DEF PrintInv, Printable, Visible
<1>2. CASE Daemon
  BY <1>1, <1>2
  DEF Daemon, BeginWrite, CommitMessage, MarkMediaOK, MarkMediaFailure,
      AbandonWrite, db
<1>3. CASE Tick \/ (\E t \in Tenants : DeleteState(t)) \/ UNCHANGED vars
  BY <1>1, <1>3 DEF Tick, DeleteState, vars, db
<1> QED
  BY <1>2, <1>3, PrintReader DEF Next

(* The mapping moves only with what it is made of.                         *)
LEMMA MapStutter ==
  /\ UNCHANGED rows => UNCHANGED Inboxes
  /\ UNCHANGED <<rows, timely, shown, floor>> => UNCHANGED Debts
  /\ UNCHANGED cursor => UNCHANGED Reach
  BY DEF Inboxes, Debts, Reach, Owed, Visible

LEMMA Addressed ==
  \A m \in Messages : Addressees[m] = IF m \in Silent THEN {} ELSE Audience[m]
  BY DEF Addressees

LEMMA InboxIsVisible ==
  ASSUME TypeInv, NEW t \in Tenants
  PROVE  Inboxes[t] = Visible(t)
  BY Addressed DEF Inboxes, Visible, TypeInv, TypeOK

LEMMA DebtsAt ==
  ASSUME NEW t \in Tenants
  PROVE  Debts[t] = {m \in Messages : Owed(m, t)}
  BY DEF Debts

(* What no step of the daemon but a commit, and no step of a run but three,*)
(* touches.                                                                *)
LEMMA PromiseStutter ==
  ASSUME UNCHANGED <<rows, timely, shown, floor, cursor, announced, surfaced>>
  PROVE  UNCHANGED Promise!vars
  BY MapStutter DEF Promise!vars

LEMMA PromiseArrive ==
  ASSUME TypeInv, TypeInv', SkipInv', NEW w \in Writes, CommitMessage(w)
  PROVE  Promise!Next
<1> DEFINE m == write[w].msg
           T == {t \in Tenants : m \in Debts'[t] \ Debts[t]}
<1>1. /\ m \in Messages /\ rows' = rows \cup {m}
      /\ \A n \in Messages : n # m => (n \in timely' <=> n \in timely)
      /\ m \in rows => timely' = timely
      /\ UNCHANGED <<surfaced, cursor, shown, floor, announced>>
  BY DEF CommitMessage, TypeInv, WriteInv
<1>2. ASSUME NEW t \in Tenants, NEW n \in Messages
      PROVE  /\ Owed(n, t) => Owed(n, t)'
             /\ Owed(n, t)' /\ ~Owed(n, t) => n = m
  BY <1>1 DEF Owed, Visible, TypeInv, TypeOK, CommitMessage
<1>3. ASSUME NEW t \in Tenants
      PROVE  Debts'[t] = IF t \in T THEN Debts[t] \cup {m} ELSE Debts[t]
  BY <1>1, <1>2 DEF Debts
<1>4. Debts' = [t \in Tenants |-> IF t \in T THEN Debts[t] \cup {m} ELSE Debts[t]]
  BY <1>3 DEF Debts
<1>5. Inboxes' = [t \in Tenants |->
                    IF t \in Addressees[m] THEN Inboxes[t] \cup {m} ELSE Inboxes[t]]
  <2>1. ASSUME NEW t \in Tenants
        PROVE  {n \in rows' : t \in Addressees[n]} =
                 IF t \in Addressees[m] THEN Inboxes[t] \cup {m} ELSE Inboxes[t]
    BY <1>1 DEF Inboxes
  <2> QED
    BY <2>1 DEF Inboxes
<1>6. T \subseteq Addressees[m] /\ T \in SUBSET Tenants
  BY <1>1, Addressed DEF Debts, Owed, Visible
<1>7. \A t \in T : m \in Reach[t]
  BY <1>1 DEF Debts, Reach, SkipInv, NoTimelyMessageSkipped
<1>8. UNCHANGED <<Reach, shown, announced, surfaced>>
  BY <1>1, MapStutter
<1> HIDE DEF m, T
<1> QED
  BY <1>1, <1>4, <1>5, <1>6, <1>7, <1>8 DEF Promise!Next, Promise!Arrive

LEMMA PromiseDisplay ==
  ASSUME TypeInv, PrintInv, NEW p \in Runs, WriteOutput(p)
  PROVE  [Promise!Next]_(Promise!vars)
<1> DEFINE r == run[p]
           t == r.tenant
<1>1. CASE UNCHANGED <<shown, announced>>
  BY <1>1, PromiseStutter DEF WriteOutput, db
<1>2. CASE /\ shown' = [shown EXCEPT ![t] = @ \cup r.fetched]
           /\ announced' = [announced EXCEPT ![t] = @ \cup r.fresh]
  <2>1. /\ t \in Tenants /\ r.fetched \in SUBSET Messages /\ r.fresh \in SUBSET Messages
        /\ r.fetched \subseteq Visible(t) /\ r.fresh \subseteq r.fetched
        /\ UNCHANGED <<rows, surfaced, cursor, timely, floor>>
    BY RunTyped DEF WriteOutput, PrintInv, Printable, TypeInv, TypeOK, RunState, db
  <2>2. r.fetched \subseteq Inboxes[t]
    BY <2>1, InboxIsVisible
  <2>3. Debts' = [Debts EXCEPT ![t] = @ \ r.fetched]
    <3>1. ASSUME NEW u \in Tenants
          PROVE  Debts'[u] = IF u = t THEN Debts[t] \ r.fetched ELSE Debts[u]
      BY <1>2, <2>1 DEF Debts, Owed, Visible, TypeInv, TypeOK
    <3> QED
      BY <2>1, <3>1 DEF Debts
  <2>4. UNCHANGED <<Inboxes, Reach>>
    BY <2>1, MapStutter
  <2> HIDE DEF r, t
  <2> QED
    BY <1>2, <2>1, <2>2, <2>3, <2>4 DEF Promise!Next, Promise!Display
<1> QED
  BY <1>1, <1>2 DEF WriteOutput

(* Reach' is given by the cursor written.                                  *)
LEMMA ReachMoves ==
  ASSUME TypeInv, NEW t \in Tenants, NEW c, cursor' = [cursor EXCEPT ![t] = c]
  PROVE  Reach' = [Reach EXCEPT ![t] = Reach'[t]] /\ Reach'[t] \in SUBSET Messages
<1>1. ASSUME NEW u \in Tenants, u # t
      PROVE  cursor'[u] = cursor[u]
  BY <1>1 DEF TypeInv, TypeOK
<1>2. ASSUME NEW u \in Tenants, u # t
      PROVE  Reach'[u] = Reach[u]
  BY <1>1, <1>2 DEF Reach
<1> QED
  BY <1>2 DEF Reach

LEMMA PromiseMove ==
  ASSUME TypeInv, TypeInv', SkipInv', NEW p \in Runs, WriteCursor(p)
  PROVE  Promise!Next
<1> DEFINE t == run[p].tenant
           E == {m \in Debts[t] : SentAt[m] < floor'[t]}
<1>1. /\ t \in Tenants
      /\ cursor' = [cursor EXCEPT ![t] = run[p].target]
      /\ UNCHANGED <<rows, surfaced, timely, shown, announced>>
  BY RunTyped DEF WriteCursor, db
<1>2. /\ \A u \in Tenants : u # t => floor'[u] = floor[u]
      /\ floor[t] <= floor'[t] /\ floor'[t] \in Int /\ floor[t] \in Int
  BY <1>1, RunTyped DEF WriteCursor, MaxOf, TypeInv, TypeOK
<1>3. Debts' = [Debts EXCEPT ![t] = @ \ E]
  <2>1. ASSUME NEW u \in Tenants, NEW m \in Messages
        PROVE  Owed(m, u)' <=> Owed(m, u) /\ ~(u = t /\ SentAt[m] < floor'[t])
    <3>1. SentAt[m] \in Nat
      BY MessagesAssumption
    <3> QED
      BY <1>1, <1>2, <3>1 DEF Owed, Visible, TypeInv, TypeOK
  <2>2. ASSUME NEW u \in Tenants
        PROVE  Debts'[u] = IF u = t THEN Debts[t] \ E ELSE Debts[u]
    BY <2>1 DEF Debts
  <2> QED
    BY <1>1, <2>2 DEF Debts
<1>4. Debts[t] \ E \subseteq Reach'[t]
  <2>1. Debts[t] \ E = Debts'[t]
    BY <1>1, <1>3 DEF Debts
  <2> QED
    BY <1>1, <2>1 DEF Debts, Reach, SkipInv, NoTimelyMessageSkipped
<1>5. \A e \in E, m \in Debts[t] \ E : SentAt[e] < SentAt[m]
  BY <1>1, <1>2, MessagesAssumption DEF Debts
<1>6. E \subseteq Debts[t] /\ E \in SUBSET Messages
  BY <1>1 DEF Debts
<1>7. UNCHANGED Inboxes
  BY <1>1, MapStutter
<1>8. Reach' = [Reach EXCEPT ![t] = Reach'[t]] /\ Reach'[t] \in SUBSET Messages
  BY <1>1, ReachMoves
<1> HIDE DEF t, E
<1>9. Promise!LetGo(t, E, Reach'[t])
  BY <1>1, <1>3, <1>4, <1>5, <1>6, <1>7, <1>8 DEF Promise!LetGo
<1> QED
  BY <1>1, <1>6, <1>8, <1>9 DEF Promise!Next

LEMMA PromiseReader ==
  ASSUME TypeInv, TypeInv', SkipInv', MediaInv, PrintInv, Reader
  PROVE  [Promise!Next]_(Promise!vars)
<1>1. ASSUME NEW p \in Runs, WriteOutput(p)
      PROVE  [Promise!Next]_(Promise!vars)
  BY <1>1, PromiseDisplay
<1>2. ASSUME NEW p \in Runs, WriteCursor(p)
      PROVE  [Promise!Next]_(Promise!vars)
  BY <1>2, PromiseMove
<1>3. ASSUME NEW p \in Runs, MarkSurfaced(p)
      PROVE  [Promise!Next]_(Promise!vars)
  <2> DEFINE t == run[p].tenant
             S == run[p].fresh
  <2>1. /\ t \in Tenants /\ S \in SUBSET Messages /\ S \subseteq announced[t]
        /\ surfaced' = surfaced \cup S
        /\ UNCHANGED <<rows, timely, shown, floor, cursor, announced>>
    BY <1>3, RunTyped
    DEF MarkSurfaced, MediaInv, FreshInv, TypeInv, TypeOK, RunState, ghost
  <2>2. UNCHANGED <<Inboxes, Debts, Reach>>
    BY <2>1, MapStutter
  <2> HIDE DEF t, S
  <2> QED
    BY <2>1, <2>2 DEF Promise!Next, Promise!TickOff
<1>4. ASSUME NEW p \in Runs,
             \/ \E t \in Tenants, advance \in Advances, since \in Windows \cup {None} :
                   StartRun(p, t, advance, since)
             \/ ReadCutoff(p) \/ FetchRows(p) \/ ReadIngest(p) \/ ReadPrior(p)
             \/ AbortRun(p)
      PROVE  [Promise!Next]_(Promise!vars)
  <2>1. UNCHANGED <<rows, timely, shown, floor, cursor, announced, surfaced>>
    BY <1>4
    DEF StartRun, ReadCutoff, FetchRows, ReadIngest, ReadPrior, AbortRun, db, ghost
  <2> QED
    BY <2>1, PromiseStutter
<1> QED
  BY <1>1, <1>2, <1>3, <1>4 DEF Reader, RunStep

LEMMA PromiseStep ==
  ASSUME TypeInv, TypeInv', SkipInv', MediaInv, PrintInv, [Next]_vars
  PROVE  [Promise!Next]_(Promise!vars)
<1>1. ASSUME NEW w \in Writes, MarkMediaOK(w)
      PROVE  [Promise!Next]_(Promise!vars)
  <2>1. /\ write[w].msg \in Messages /\ surfaced' = surfaced \ {write[w].msg}
        /\ UNCHANGED <<rows, timely, shown, floor, cursor, announced>>
    BY <1>1 DEF MarkMediaOK, TypeInv, WriteInv
  <2>2. UNCHANGED <<Inboxes, Debts, Reach>>
    BY <2>1, MapStutter
  <2> QED
    BY <2>1, <2>2 DEF Promise!Next, Promise!Download
<1>2. ASSUME NEW w \in Writes,
             \/ \E m \in Messages, media \in BOOLEAN : BeginWrite(w, m, media)
             \/ MarkMediaFailure(w) \/ AbandonWrite(w)
      PROVE  [Promise!Next]_(Promise!vars)
  BY <1>2, PromiseStutter DEF BeginWrite, MarkMediaFailure, AbandonWrite, db, ghost
<1>3. CASE Tick \/ UNCHANGED vars
  BY <1>3, PromiseStutter DEF Tick, vars, ghost
<1>4. ASSUME NEW t \in Tenants, DeleteState(t)
      PROVE  [Promise!Next]_(Promise!vars)
  <2>1. /\ cursor' = [cursor EXCEPT ![t] = None]
        /\ UNCHANGED <<rows, timely, shown, floor, announced, surfaced>>
    BY <1>4 DEF DeleteState, db, ghost
  <2>2. Reach'[t] = Messages
    BY <2>1 DEF Reach, TypeInv, TypeOK
  <2>3. Reach' = [Reach EXCEPT ![t] = Messages]
    BY <2>1, <2>2, ReachMoves
  <2> QED
    BY <2>1, <2>3, MapStutter DEF Promise!Next, Promise!Reset
<1> QED
  BY <1>1, <1>2, <1>3, <1>4, PromiseArrive, PromiseReader DEF Next, Daemon

(***************************************************************************)
(* Table, cursor files and any number of overlapping runs implement        *)
(* Delivery: a claim to a timely message ends when the message is printed, *)
(* or with a window a person chose, and no tenant is shown another's rows. *)
(***************************************************************************)
THEOREM PromiseKept == Spec => KeepsPromise
<1> DEFINE Inv == TypeInv /\ SkipInv /\ MediaInv /\ PrintInv
<1>1. Init => Inv
  BY TypeInit, SkipInit
  DEF Init, NoRun, MediaInv, FreshInv, SurfacedWasAnnounced, PrintInv, Printable
<1>2. Inv /\ [Next]_vars => Inv'
  BY TypeStep, SkipStep, MediaStep, PrintStep
<1>3. Init => Promise!Init
  BY DEF Init, Promise!Init, Inboxes, Debts, Reach, Owed
<1>4. Inv /\ Inv' /\ [Next]_vars => [Promise!Next]_(Promise!vars)
  BY PromiseStep
<1> QED
  BY <1>1, <1>2, <1>3, <1>4, PTL DEF Spec, KeepsPromise, Promise!Spec

=============================================================================
