---------------------------- MODULE ReloadProofs ----------------------------
(***************************************************************************)
(* Proofs about Reload, for every set of chats and contents of the file,   *)
(* every capacity of the channel, and any number of edits and crashes.     *)
(*                                                                         *)
(* MtimeStandsForContent: a content read and not yet installed is the      *)
(* file's until the mtime is read, and from then on as long as the file    *)
(* has that mtime (LoadInv).                                               *)
(*                                                                         *)
(* AllowlistedHasRow: before the daemon is up main alone acts, and what    *)
(* main makes rows of is the allowlist (StartInv); after that each step    *)
(* hands a missing row from a notification to the channel, from there to   *)
(* the subscriber, and from there to a transaction.                        *)
(*                                                                         *)
(* RowsCurrent: the subscriber's reading of the allowlist is current, or   *)
(* there is a change behind it (LateReading).                              *)
(***************************************************************************)
EXTENDS Reload, TLAPS

ProcState == [pc : PCs, list : Allowlists, mtime : Nat]

LEMMA ProcMembership ==
    /\ Idle \in ProcState /\ Load \in ProcState
    /\ [Idle EXCEPT !.pc = "notify"] \in ProcState
    /\ [Idle EXCEPT !.pc = "groups"] \in ProcState
    /\ NoChats \in Allowlists
    /\ Down \in [Procs -> ProcState]
    /\ \A p : AfterReload(p) \in ProcState
    /\ \A l \in Allowlists : [Idle EXCEPT !.pc = "ensure", !.list = l] \in ProcState
    /\ \A s \in ProcState, l \in Allowlists : [s EXCEPT !.pc = "stat", !.list = l] \in ProcState
    /\ \A s \in ProcState, n \in Nat : [s EXCEPT !.pc = "swap", !.mtime = n] \in ProcState
<1>1. NoChats \in Allowlists
  BY DEF NoChats, Allowlists
<1>2. Idle = [pc |-> "idle", list |-> NoChats, mtime |-> 0]
  BY DEF Idle
<1>3. Load = [pc |-> "read", list |-> NoChats, mtime |-> 0]
  BY <1>2 DEF Load
<1>4. Idle \in ProcState /\ Load \in ProcState
  BY <1>1, <1>2, <1>3 DEF ProcState, PCs
<1>5. /\ [Idle EXCEPT !.pc = "notify"] \in ProcState
      /\ [Idle EXCEPT !.pc = "groups"] \in ProcState
  BY <1>1, <1>2 DEF ProcState, PCs
<1>6. Down \in [Procs -> ProcState]
  BY <1>4 DEF Down
<1>7. \A p : AfterReload(p) \in ProcState
  BY <1>4, <1>5 DEF AfterReload
<1>8. \A l \in Allowlists : [Idle EXCEPT !.pc = "ensure", !.list = l] \in ProcState
  BY <1>2 DEF ProcState, PCs
<1>9. \A s \in ProcState, l \in Allowlists : [s EXCEPT !.pc = "stat", !.list = l] \in ProcState
  BY DEF ProcState, PCs
<1>10. \A s \in ProcState, n \in Nat : [s EXCEPT !.pc = "swap", !.mtime = n] \in ProcState
  BY DEF ProcState, PCs
<1> QED
  BY <1>1, <1>4, <1>5, <1>6, <1>7, <1>8, <1>9, <1>10

(* What is left of TypeOK when the processes are set aside.                *)
LEMMA FileMembership ==
    ASSUME file \in [content : Files, mtime : Nat]
    PROVE  /\ file.mtime \in Nat
           /\ file.content # Broken => file.content \in Allowlists
  BY FilesAssumption

LEMMA UpsertedType ==
    ASSUME rows \in Allowlists, NEW l \in Allowlists PROVE Upserted(l) \in Allowlists
  BY DEF Upserted, Allowlists

-----------------------------------------------------------------------------
LEMMA ResetMembership ==
    /\ 0 \in 0..QueueCap
    /\ [h \in Handlers |-> Absent] \in [Handlers -> Chats \cup {Absent}]
  BY BoundAssumption

LEMMA InitTyped == Init => TypeOK
<1> SUFFICES ASSUME Init PROVE TypeOK
  OBVIOUS
<1>1. file \in [content : Files, mtime : Nat]
  BY DEF Init
<1>2. proc \in [Procs -> [pc : PCs, list : Allowlists, mtime : Nat]]
  BY ProcMembership DEF Init, ProcState
<1>3. groups \in Allowlists /\ rows \in Allowlists
  BY ProcMembership DEF Init
<1>4. queue \in 0..QueueCap /\ handler \in [Handlers -> Chats \cup {Absent}]
  BY ResetMembership DEF Init
<1> QED
  BY <1>1, <1>2, <1>3, <1>4 DEF Init, TypeOK

LEMMA StepTyped == TypeOK /\ [Next]_vars => TypeOK'
<1> SUFFICES ASSUME TypeOK, [Next]_vars PROVE TypeOK'
  OBVIOUS
<1>p. proc \in [Procs -> ProcState]
  BY DEF TypeOK, ProcState
<1>f. /\ file \in [content : Files, mtime : Nat]
      /\ file.mtime \in Nat
      /\ file.content # Broken => file.content \in Allowlists
  BY FileMembership DEF TypeOK
<1>s. "main" \in Procs /\ "watch" \in Procs /\ "hup" \in Procs /\ "sub" \in Procs
  BY DEF Procs
<1>l. \A p \in Procs : proc[p] \in ProcState /\ proc[p].list \in Allowlists /\ proc[p].mtime \in Nat
  BY <1>p DEF ProcState
<1>t. /\ groups \in Allowlists /\ modTime \in Nat /\ queue \in 0..QueueCap
      /\ hup \in BOOLEAN /\ up \in BOOLEAN /\ rows \in Allowlists
      /\ handler \in [Handlers -> Chats \cup {Absent}] /\ dropped \subseteq Chats
      /\ crashes \in Nat /\ unmade \subseteq Chats
  BY DEF TypeOK
<1>q. (proc' \in [Procs -> ProcState]) = (proc' \in [Procs -> [pc : PCs, list : Allowlists, mtime : Nat]])
  BY DEF ProcState
<1> HIDE DEF ProcState
<1>1. ASSUME NEW f \in Files, Edit(f) PROVE TypeOK'
  BY <1>1, <1>f, <1>t, <1>p, <1>q DEF Edit, TypeOK
<1>2. CASE Sighup
  BY <1>2, <1>f, <1>t, <1>p, <1>q DEF Sighup, TypeOK
<1>3. CASE Crash
  <2>1. proc' \in [Procs -> ProcState] /\ groups' \in Allowlists
    BY <1>3, ProcMembership DEF Crash
  <2>2. queue' \in 0..QueueCap /\ handler' \in [Handlers -> Chats \cup {Absent}]
    BY <1>3, ResetMembership DEF Crash
  <2>3. crashes' \in Nat /\ modTime' \in Nat
    BY <1>3, <1>t DEF Crash
  <2> QED
    BY <1>3, <1>f, <1>t, <1>q, <2>1, <2>2, <2>3 DEF Crash, TypeOK
<1>4. CASE WatchTick
  BY <1>4, <1>f, <1>t, <1>p, <1>q, <1>s, ProcMembership DEF WatchTick, TypeOK
<1>5. CASE TakeHup
  BY <1>5, <1>f, <1>t, <1>p, <1>q, <1>s, ProcMembership DEF TakeHup, TypeOK
<1>6. CASE TakeChange
  <2>1. queue' \in 0..QueueCap
    BY <1>6, <1>t, BoundAssumption DEF TakeChange
  <2> QED
    BY <1>6, <1>f, <1>t, <1>p, <1>q, <1>s, <2>1, ProcMembership DEF TakeChange, TypeOK
<1>7. ASSUME NEW p \in Procs, ReadFile(p) PROVE TypeOK'
  <2>1. proc' \in [Procs -> ProcState]
    <3>1. CASE proc' = [proc EXCEPT ![p] = Idle]
      BY <1>p, <3>1, ProcMembership
    <3>2. ASSUME file.content # Broken,
                 proc' = [proc EXCEPT ![p] = [@ EXCEPT !.pc = "stat", !.list = file.content]]
          PROVE  proc' \in [Procs -> ProcState]
      <4>1. [proc[p] EXCEPT !.pc = "stat", !.list = file.content] \in ProcState
        BY <1>f, <1>l, <3>2, ProcMembership
      <4> QED
        BY <1>p, <3>2, <4>1
    <3> QED
      BY <1>7, <3>1, <3>2 DEF ReadFile
  <2> QED
    BY <1>7, <1>f, <1>t, <1>q, <2>1 DEF ReadFile, TypeOK
<1>8. ASSUME NEW p \in Procs, StatFile(p) PROVE TypeOK'
  <2>1. proc' \in [Procs -> ProcState]
    BY <1>8, <1>f, <1>p, <1>l, ProcMembership DEF StatFile
  <2> QED
    BY <1>8, <1>f, <1>t, <1>q, <2>1 DEF StatFile, TypeOK
<1>9. ASSUME NEW p \in Procs, Swap(p) PROVE TypeOK'
  <2>1. proc' \in [Procs -> ProcState]
    BY <1>9, <1>p, <1>l, ProcMembership DEF Swap
  <2>2. unmade' \subseteq Chats
    BY <1>9, <1>t DEF Swap
  <2> QED
    BY <1>9, <1>f, <1>t, <1>l, <1>q, <2>1, <2>2 DEF Swap, TypeOK
<1>10. ASSUME NEW p \in Procs, Notify(p) PROVE TypeOK'
  <2>1. proc' \in [Procs -> ProcState]
    BY <1>10, <1>p, <1>l, ProcMembership DEF Notify
  <2>2. queue' \in 0..QueueCap
    BY <1>10, <1>t, BoundAssumption DEF Notify
  <2> QED
    BY <1>10, <1>f, <1>t, <1>q, <2>1, <2>2 DEF Notify, TypeOK
<1>11. ASSUME NEW p \in Procs, ReadGroups(p) PROVE TypeOK'
  <2>1. proc' \in [Procs -> ProcState]
    BY <1>11, <1>p, <1>t, ProcMembership DEF ReadGroups
  <2> QED
    BY <1>11, <1>f, <1>t, <1>q, <2>1 DEF ReadGroups, TypeOK
<1>12. ASSUME NEW p \in Procs, EnsureGroups(p) PROVE TypeOK'
  <2>1. proc' \in [Procs -> ProcState]
    BY <1>12, <1>p, ProcMembership DEF EnsureGroups
  <2>2. rows' \in Allowlists /\ up' \in BOOLEAN
    BY <1>12, <1>l, <1>t, UpsertedType DEF EnsureGroups
  <2>3. unmade' \subseteq Chats
    BY <1>12, <1>t DEF EnsureGroups
  <2> QED
    BY <1>12, <1>f, <1>t, <1>q, <2>1, <2>2, <2>3 DEF EnsureGroups, TypeOK
<1>13. ASSUME NEW p \in Procs, EnsureFails(p) PROVE TypeOK'
  <2>1. proc' \in [Procs -> ProcState] /\ groups' \in Allowlists /\ modTime' \in Nat
    <3>1. CASE p = "main"
      <4>1. proc' = Down /\ groups' = NoChats /\ modTime' = 0
        BY <1>13, <3>1 DEF EnsureFails
      <4> QED
        BY <4>1, ProcMembership
    <3>2. CASE p # "main"
      BY <1>13, <1>p, <1>t, <3>2, ProcMembership DEF EnsureFails
    <3> QED
      BY <3>1, <3>2
  <2>2. unmade' \subseteq Chats
    BY <1>13, <1>t DEF EnsureFails, Listed
  <2> QED
    BY <1>13, <1>f, <1>t, <1>q, <2>1, <2>2 DEF EnsureFails, TypeOK
<1>14. ASSUME NEW h \in Handlers, WriteMessage(h) PROVE TypeOK'
  <2>1. dropped' \subseteq Chats /\ handler' \in [Handlers -> Chats \cup {Absent}]
    BY <1>14, <1>t DEF WriteMessage
  <2> QED
    BY <1>14, <1>f, <1>t, <1>p, <1>q, <2>1 DEF WriteMessage, TypeOK
<1>15. ASSUME NEW h \in Handlers, NEW a \in Chats, AcceptMessage(h, a) PROVE TypeOK'
  BY <1>15, <1>f, <1>t, <1>p, <1>q DEF AcceptMessage, TypeOK
<1>16. CASE UNCHANGED vars
  BY <1>16 DEF vars, TypeOK
<1> QED
  BY <1>1, <1>2, <1>3, <1>4, <1>5, <1>6, <1>7, <1>8, <1>9, <1>10, <1>11, <1>12, <1>13,
     <1>14, <1>15, <1>16 DEF Next, Reload, Register

(***************************************************************************)
(* Every variable keeps its type: in particular the subscriber's channel   *)
(* never holds more than its capacity (config.go, Reload).                 *)
(***************************************************************************)
THEOREM TypeCorrect == Spec => []TypeOK
  BY InitTyped, StepTyped, PTL DEF Spec

-----------------------------------------------------------------------------
(* A content that was read, and the mtime read after it.                   *)
Loaded(s) ==
    /\ s.pc = "stat" => s.list = file.content
    /\ s.pc = "swap" => /\ s.mtime <= file.mtime
                        /\ s.mtime = file.mtime => s.list = file.content

LoadInv ==
    /\ 0 < file.mtime
    /\ modTime <= file.mtime
    /\ \A p \in Procs : Loaded(proc[p])

LEMMA StepKeepsLoad ==
    ASSUME EditDuringLoad = FALSE, TypeOK, LoadInv, MtimeStandsForContent, [Next]_vars
    PROVE  LoadInv' /\ MtimeStandsForContent'
<1>f. file.mtime \in Nat /\ modTime \in Nat
  BY DEF TypeOK
<1>p. proc \in [Procs -> ProcState] /\ \A p \in Procs : proc[p].mtime \in Nat
  BY DEF TypeOK, ProcState
<1>i. Idle.pc = "idle" /\ Load.pc = "read" /\ \A p : AfterReload(p).pc \in {"idle", "groups"}
  BY DEF Idle, Load, AfterReload
<1>d. \A p \in Procs : Down[p].pc \in {"idle", "read"}
  BY <1>i DEF Down
<1>1. ASSUME NEW f \in Files, Edit(f) PROVE LoadInv' /\ MtimeStandsForContent'
  BY <1>1, <1>f, <1>p DEF Edit, LoadInv, Loaded, MtimeStandsForContent
<1>2. ASSUME proc' = Down, modTime' = 0, file' = file PROVE LoadInv' /\ MtimeStandsForContent'
  <2>1. \A p \in Procs : Loaded(proc[p])'
    BY <1>2, <1>d DEF Loaded
  <2> QED
    BY <1>2, <1>f, <2>1 DEF LoadInv, MtimeStandsForContent
<1>3. ASSUME NEW q \in Procs, UNCHANGED <<file, groups, modTime>>,
             NEW s, proc' = [proc EXCEPT ![q] = s], s.pc \notin {"stat", "swap"}
      PROVE  LoadInv' /\ MtimeStandsForContent'
  <2>1. \A p \in Procs : Loaded(proc[p])'
    BY <1>3, <1>p DEF LoadInv, Loaded
  <2> QED
    BY <1>3, <2>1 DEF LoadInv, MtimeStandsForContent
<1>4. CASE UNCHANGED <<file, groups, modTime, proc>>
  BY <1>4 DEF LoadInv, Loaded, MtimeStandsForContent
<1>5. CASE WatchTick \/ TakeHup \/ TakeChange
  <2>1. [Idle EXCEPT !.pc = "groups"].pc = "groups"
    BY DEF Idle
  <2> QED
    BY <1>5, <1>3, <1>i, <2>1 DEF WatchTick, TakeHup, TakeChange, Procs
<1>6. ASSUME NEW p \in Procs, ReadFile(p) PROVE LoadInv' /\ MtimeStandsForContent'
  <2>1. CASE proc' = [proc EXCEPT ![p] = Idle]
    BY <1>6, <1>3, <1>i, <2>1 DEF ReadFile
  <2>2. CASE proc' = [proc EXCEPT ![p] = [@ EXCEPT !.pc = "stat", !.list = file.content]]
    <3>1. proc'[p].pc = "stat" /\ proc'[p].list = file.content
      BY <1>p, <2>2 DEF ProcState
    <3>2. \A q \in Procs \ {p} : proc'[q] = proc[q]
      BY <1>p, <2>2
    <3>3. file' = file /\ modTime' = modTime /\ groups' = groups
      BY <1>6 DEF ReadFile
    <3> QED
      BY <3>1, <3>2, <3>3 DEF LoadInv, Loaded, MtimeStandsForContent
  <2> QED
    BY <1>6, <2>1, <2>2 DEF ReadFile
<1>7. ASSUME NEW p \in Procs, StatFile(p) PROVE LoadInv' /\ MtimeStandsForContent'
  <2>1. /\ proc'[p].pc = "swap" /\ proc'[p].mtime = file.mtime
        /\ proc'[p].list = proc[p].list /\ proc[p].pc = "stat"
    BY <1>7, <1>p DEF StatFile, ProcState
  <2>2. \A q \in Procs \ {p} : proc'[q] = proc[q]
    BY <1>7, <1>p DEF StatFile
  <2>3. file' = file /\ modTime' = modTime /\ groups' = groups
    BY <1>7 DEF StatFile
  <2> QED
    BY <1>f, <2>1, <2>2, <2>3 DEF LoadInv, Loaded, MtimeStandsForContent
<1>8. ASSUME NEW p \in Procs, Swap(p) PROVE LoadInv' /\ MtimeStandsForContent'
  <2>1. Loaded(proc[p]) /\ proc[p].pc = "swap"
    BY <1>8 DEF Swap, LoadInv
  <2>2. file' = file /\ modTime' = proc[p].mtime /\ groups' = proc[p].list
    BY <1>8 DEF Swap
  <2>3. proc'[p].pc \in {"notify", "idle", "groups"}
    BY <1>8, <1>p, <1>i DEF Swap, Idle
  <2>4. \A q \in Procs \ {p} : proc'[q] = proc[q]
    BY <1>8, <1>p DEF Swap
  <2>5. LoadInv'
    BY <2>1, <2>2, <2>3, <2>4 DEF LoadInv, Loaded
  <2>6. MtimeStandsForContent'
    BY <2>1, <2>2 DEF Loaded, MtimeStandsForContent
  <2> QED
    BY <2>5, <2>6
<1>9. ASSUME NEW p \in Procs, Notify(p) PROVE LoadInv' /\ MtimeStandsForContent'
  <2>1. AfterReload(p).pc \notin {"stat", "swap"}
    BY <1>i
  <2> QED
    BY <1>9, <1>3, <2>1 DEF Notify
<1>10. ASSUME NEW p \in Procs, ReadGroups(p) PROVE LoadInv' /\ MtimeStandsForContent'
  <2>1. [Idle EXCEPT !.pc = "ensure", !.list = groups].pc = "ensure"
    BY DEF Idle
  <2> QED
    BY <1>10, <1>3, <2>1 DEF ReadGroups
<1>11. ASSUME NEW p \in Procs, EnsureGroups(p) PROVE LoadInv' /\ MtimeStandsForContent'
  BY <1>11, <1>3, <1>i DEF EnsureGroups
<1>12. ASSUME NEW p \in Procs, EnsureFails(p) PROVE LoadInv' /\ MtimeStandsForContent'
  BY <1>12, <1>2, <1>3, <1>i DEF EnsureFails
<1> QED
  BY <1>1, <1>2, <1>4, <1>5, <1>6, <1>7, <1>8, <1>9, <1>10, <1>11, <1>12
     DEF Next, Reload, Register, Sighup, Crash, WriteMessage, AcceptMessage, vars

(***************************************************************************)
(* No edit outside the window between reading a file and its mtime is      *)
(* overlooked, for any interleaving of polls, signals and restarts         *)
(* (config.go, Load and Reload).                                           *)
(***************************************************************************)
THEOREM NoEditOverlooked ==
    EditDuringLoad = FALSE => (Spec => []MtimeStandsForContent)
<1> SUFFICES ASSUME EditDuringLoad = FALSE PROVE Spec => []MtimeStandsForContent
  OBVIOUS
<1>1. Init => LoadInv /\ MtimeStandsForContent
  <2>1. \A p \in Procs : Down[p].pc \in {"idle", "read"}
    BY DEF Down, Idle, Load
  <2> QED
    BY <2>1 DEF Init, LoadInv, Loaded, MtimeStandsForContent
<1>2. TypeOK /\ LoadInv /\ MtimeStandsForContent /\ [Next]_vars
      => LoadInv' /\ MtimeStandsForContent'
  BY StepKeepsLoad
<1> QED
  BY <1>1, <1>2, TypeCorrect, PTL DEF Spec

-----------------------------------------------------------------------------
(* Before the daemon is up only main moves, and nobody is to be told; what *)
(* main makes rows of is what it loaded.                                   *)
StartInv ==
    /\ up => proc["main"].pc = "idle"
    /\ ~up => /\ ~hup /\ queue = 0
              /\ \A p \in Procs \ {"main"} : proc[p].pc = "idle"
              /\ proc["main"].pc = "ensure" => proc["main"].list = groups

Registered == StartInv /\ AllowlistedHasRow

(* The steps of a reload that move one process p on and leave alone what   *)
(* AllowlistedHasRow speaks of.                                            *)
LEMMA MovePreserves ==
    ASSUME TypeOK, Registered, NEW p \in Procs, NEW s,
           proc' = [proc EXCEPT ![p] = s],
           UNCHANGED <<groups, rows, up, unmade>>,
           queue' >= queue, queue' \in Nat,
           hup' = hup \/ up,
           s.pc # "ensure",
           proc[p].pc \in {"notify", "groups", "ensure"} =>
               queue' > 0 \/ s.pc \in {"notify", "groups"},
           up => p # "main" \/ s.pc = "idle",
           ~up => p = "main" /\ queue' = queue
    PROVE  Registered'
<1>p. /\ proc'[p] = s
      /\ \A q \in Procs \ {p} : proc'[q] = proc[q]
      /\ "main" \in Procs
  BY DEF TypeOK, Procs
<1>1. StartInv'
  <2>1. CASE up
    BY <1>p, <2>1 DEF Registered, StartInv
  <2>2. CASE ~up
    <3>1. p = "main" /\ queue' = queue /\ hup' = hup
      BY <2>2
    <3> QED
      BY <1>p, <2>2, <3>1 DEF Registered, StartInv
  <2> QED
    BY <2>1, <2>2
<1>2. ASSUME NEW a \in Chats, up', groups'[a] # Absent, rows'[a] = Absent, a \notin unmade'
      PROVE  RowIsComing(a)'
  <2>1. RowIsComing(a)
    BY <1>2 DEF Registered, AllowlistedHasRow
  <2>2. CASE queue > 0
    <3>1. queue \in Int /\ queue' > 0
      BY <2>2 DEF TypeOK
    <3> QED
      BY <3>1 DEF RowIsComing
  <2>3. CASE proc[p].pc \in {"notify", "groups", "ensure"}
    BY <1>p, <2>3 DEF RowIsComing
  <2>4. CASE \E q \in Procs \ {p} :
                \/ proc[q].pc \in {"notify", "groups"}
                \/ proc[q].pc = "ensure" /\ proc[q].list[a] # Absent
    BY <1>p, <2>4 DEF RowIsComing
  <2> QED
    BY <2>1, <2>2, <2>3, <2>4 DEF RowIsComing
<1> QED
  BY <1>1, <1>2 DEF Registered, AllowlistedHasRow

LEMMA StepKeepsRegistered ==
    ASSUME TypeOK, Registered, [Next]_vars
    PROVE  Registered'
<1>p. /\ proc \in [Procs -> ProcState]
      /\ "main" \in Procs /\ "watch" \in Procs /\ "hup" \in Procs /\ "sub" \in Procs
      /\ \A p \in Procs : proc[p].pc \in PCs
  BY DEF TypeOK, ProcState, Procs
<1>t. /\ queue \in Nat /\ QueueCap \in Nat /\ QueueCap >= 1
      /\ up \in BOOLEAN /\ hup \in BOOLEAN /\ groups \in Allowlists /\ rows \in Allowlists
  BY BoundAssumption DEF TypeOK
<1>i. /\ Idle.pc = "idle" /\ Load.pc = "read"
      /\ [Idle EXCEPT !.pc = "notify"].pc = "notify"
      /\ [Idle EXCEPT !.pc = "groups"].pc = "groups"
      /\ AfterReload("watch").pc = "idle"
      /\ \A p : p # "watch" => AfterReload(p).pc = "groups"
      /\ \A p : AfterReload(p).pc \in {"idle", "groups"}
  BY DEF Idle, Load, AfterReload
<1>m. \A p \in Procs : proc[p].pc # "idle" =>
          /\ up => p # "main"
          /\ ~up => p = "main"
  BY <1>p DEF Registered, StartInv
<1>1. CASE UNCHANGED <<groups, queue, up, proc, rows, unmade>> /\ (hup' = hup \/ up)
  BY <1>1 DEF Registered, StartInv, AllowlistedHasRow, RowIsComing
<1>2. CASE Crash
  <2>1. /\ proc' = Down /\ up' = FALSE /\ queue' = 0 /\ hup' = FALSE
    BY <1>2 DEF Crash
  <2>2. \A p \in Procs \ {"main"} : Down[p].pc = "idle"
    BY <1>i DEF Down
  <2>3. Down["main"].pc = "read"
    BY <1>i, <1>p DEF Down
  <2> QED
    BY <2>1, <2>2, <2>3 DEF Registered, StartInv, AllowlistedHasRow
<1>3. CASE WatchTick
  <2>1. up /\ proc["watch"] = Idle /\ proc' = [proc EXCEPT !["watch"] = Load]
    BY <1>3 DEF WatchTick
  <2>2. UNCHANGED <<groups, rows, up, unmade, queue, hup>>
    BY <1>3 DEF WatchTick
  <2>3. proc["watch"].pc = "idle" /\ Load.pc = "read"
    BY <1>i, <2>1
  <2>4. queue' >= queue /\ queue' \in Nat
    BY <1>t, <2>2
  <2> QED
    BY <1>p, <2>1, <2>2, <2>3, <2>4, MovePreserves
<1>4. CASE TakeHup
  <2>1. up
    BY <1>4 DEF TakeHup, Registered, StartInv
  <2>2. proc["hup"] = Idle /\ proc' = [proc EXCEPT !["hup"] = Load]
    BY <1>4 DEF TakeHup
  <2>3. UNCHANGED <<groups, rows, up, unmade, queue>> /\ hup' = FALSE
    BY <1>4 DEF TakeHup
  <2>4. proc["hup"].pc = "idle" /\ Load.pc = "read"
    BY <1>i, <2>2
  <2>5. queue' >= queue /\ queue' \in Nat
    BY <1>t, <2>3
  <2> QED
    BY <1>p, <2>1, <2>2, <2>3, <2>4, <2>5, MovePreserves
<1>5. CASE TakeChange
  <2>1. up
    BY <1>5, <1>t DEF TakeChange, Registered, StartInv
  <2>2. proc' = [proc EXCEPT !["sub"] = [Idle EXCEPT !.pc = "groups"]]
    BY <1>5 DEF TakeChange
  <2>3. proc'["sub"].pc = "groups" /\ proc'["main"] = proc["main"]
    BY <1>p, <1>i, <2>2
  <2>4. UNCHANGED <<groups, rows, up, unmade>>
    BY <1>5 DEF TakeChange
  <2> QED
    BY <1>p, <2>1, <2>3, <2>4 DEF Registered, StartInv, AllowlistedHasRow, RowIsComing
<1>6. ASSUME NEW p \in Procs, ReadFile(p) PROVE Registered'
  <2>1. PICK s : proc' = [proc EXCEPT ![p] = s] /\ s.pc \in {"idle", "stat"}
    <3>1. CASE proc' = [proc EXCEPT ![p] = Idle]
      BY <1>i, <3>1
    <3>2. CASE proc' = [proc EXCEPT ![p] = [@ EXCEPT !.pc = "stat", !.list = file.content]]
      <4>1. [proc[p] EXCEPT !.pc = "stat", !.list = file.content].pc = "stat"
        BY <1>p DEF ProcState
      <4> QED
        BY <3>2, <4>1
    <3> QED
      BY <1>6, <3>1, <3>2 DEF ReadFile
  <2>2. UNCHANGED <<groups, rows, up, unmade, queue, hup>> /\ proc[p].pc = "read"
    BY <1>6 DEF ReadFile
  <2>3. queue' >= queue /\ queue' \in Nat
    BY <1>t, <2>2
  <2>4. (up => p # "main") /\ (~up => p = "main")
    BY <1>m, <2>2
  <2> QED
    BY <2>1, <2>2, <2>3, <2>4, MovePreserves
<1>7. ASSUME NEW p \in Procs, StatFile(p) PROVE Registered'
  <2>1. PICK s : proc' = [proc EXCEPT ![p] = s] /\ s.pc = "swap"
    <3>1. [proc[p] EXCEPT !.pc = "swap", !.mtime = file.mtime].pc = "swap"
      BY <1>p DEF ProcState
    <3> QED
      BY <1>7, <3>1 DEF StatFile
  <2>2. UNCHANGED <<groups, rows, up, unmade, queue, hup>> /\ proc[p].pc = "stat"
    BY <1>7 DEF StatFile
  <2>3. queue' >= queue /\ queue' \in Nat
    BY <1>t, <2>2
  <2>4. (up => p # "main") /\ (~up => p = "main")
    BY <1>m, <2>2
  <2> QED
    BY <2>1, <2>2, <2>3, <2>4, MovePreserves
<1>8. ASSUME NEW p \in Procs, Swap(p) PROVE Registered'
  <2>1. PICK s : /\ proc' = [proc EXCEPT ![p] = s]
                 /\ s.pc \in {"notify", "idle", "groups"}
                 /\ groups' # groups => s.pc = "notify"
    BY <1>8, <1>i DEF Swap, Changed
  <2>2. UNCHANGED <<rows, up, queue, hup>> /\ proc[p].pc = "swap"
    BY <1>8 DEF Swap
  <2>3. CASE groups' = groups
    <3>1. queue' >= queue /\ queue' \in Nat
      BY <1>t, <2>2
    <3>3. unmade' = unmade
      BY <1>8, <2>3 DEF Swap, Changed
    <3>2. (up => p # "main") /\ (~up => p = "main")
      BY <1>m, <2>2
    <3> QED
      BY <2>1, <2>2, <2>3, <3>1, <3>2, <3>3, MovePreserves
  <2>4. CASE groups' # groups
    <3>1. proc'[p].pc = "notify" /\ \A q \in Procs \ {p} : proc'[q] = proc[q]
      BY <1>p, <2>1, <2>4
    <3>2. StartInv'
      BY <1>m, <1>p, <2>2, <3>1 DEF Registered, StartInv
    <3> QED
      BY <3>1, <3>2 DEF Registered, AllowlistedHasRow, RowIsComing
  <2> QED
    BY <2>3, <2>4
<1>9. ASSUME NEW p \in Procs, Notify(p) PROVE Registered'
  <2>1. /\ proc' = [proc EXCEPT ![p] = AfterReload(p)] /\ proc[p].pc = "notify"
        /\ UNCHANGED <<groups, rows, up, unmade, hup>>
    BY <1>9 DEF Notify
  <2>2. /\ queue' \in Nat /\ queue' >= queue
        /\ up => queue' > 0
        /\ ~up => queue' = queue
    BY <1>9, <1>t DEF Notify
  <2>3. ~up => p = "main"
    BY <1>m, <2>1
  <2>4. AfterReload(p).pc # "ensure" /\ (p = "main" => AfterReload(p).pc = "groups")
    BY <1>i
  <2> QED
    BY <1>m, <2>1, <2>2, <2>3, <2>4, MovePreserves
<1>10. ASSUME NEW p \in Procs, ReadGroups(p) PROVE Registered'
  <2>1. /\ [Idle EXCEPT !.pc = "ensure", !.list = groups].pc = "ensure"
        /\ [Idle EXCEPT !.pc = "ensure", !.list = groups].list = groups
    BY DEF Idle
  <2>2. /\ proc'[p].pc = "ensure" /\ proc'[p].list = groups
        /\ \A q \in Procs \ {p} : proc'[q] = proc[q]
        /\ proc[p].pc = "groups"
        /\ UNCHANGED <<groups, rows, up, unmade, queue, hup>>
    BY <1>10, <1>p, <2>1 DEF ReadGroups
  <2>3. StartInv'
    BY <1>m, <1>p, <2>2 DEF Registered, StartInv
  <2> QED
    BY <2>2, <2>3 DEF Registered, AllowlistedHasRow, RowIsComing
<1>11. ASSUME NEW p \in Procs, EnsureGroups(p) PROVE Registered'
  <2>1. /\ proc'[p] = Idle /\ proc[p].pc = "ensure"
        /\ \A q \in Procs \ {p} : proc'[q] = proc[q]
        /\ UNCHANGED <<groups, queue, hup>>
        /\ up' = (up \/ p = "main")
    BY <1>11, <1>p DEF EnsureGroups
  <2>2. \A a \in Chats : rows'[a] = Absent => rows[a] = Absent /\ proc[p].list[a] = Absent
    BY <1>11 DEF EnsureGroups, Upserted
  <2>6. \A a \in Chats : a \notin unmade' /\ proc[p].list[a] = Absent => a \notin unmade
    BY <1>11 DEF EnsureGroups, Listed
  <2>3. StartInv'
    BY <1>m, <1>p, <1>i, <2>1 DEF Registered, StartInv
  <2>4. CASE up
    BY <1>i, <2>1, <2>2, <2>3, <2>4, <2>6 DEF Registered, AllowlistedHasRow, RowIsComing
  <2>5. CASE ~up
    <3>1. proc[p].list = groups
      BY <1>m, <2>1, <2>5 DEF Registered, StartInv
    <3> QED
      BY <2>1, <2>2, <2>3, <3>1 DEF Registered, AllowlistedHasRow
  <2> QED
    BY <1>t, <2>4, <2>5
<1>12. ASSUME NEW p \in Procs, EnsureFails(p) PROVE Registered'
  <2>1. CASE p = "main"
    <3>1. ~up /\ up' = FALSE /\ queue' = queue /\ hup' = hup /\ proc' = Down
      BY <1>12, <1>m, <2>1 DEF EnsureFails
    <3>2. \A q \in Procs \ {"main"} : Down[q].pc = "idle"
      BY <1>i DEF Down
    <3>3. Down["main"].pc = "read"
      BY <1>i, <1>p DEF Down
    <3> QED
      BY <3>1, <3>2, <3>3 DEF Registered, StartInv, AllowlistedHasRow
  <2>2. CASE p # "main"
    <3>1. /\ up /\ up' = up /\ proc[p].pc = "ensure" /\ proc'[p] = Idle
          /\ \A q \in Procs \ {p} : proc'[q] = proc[q]
          /\ UNCHANGED <<groups, rows, queue>>
      BY <1>12, <1>m, <1>p, <1>t, <2>2 DEF EnsureFails
    <3>2. \A a \in Chats : a \notin unmade' => a \notin unmade /\ proc[p].list[a] = Absent
      BY <1>12, <2>2 DEF EnsureFails, Listed
    <3>3. StartInv'
      BY <1>p, <2>2, <3>1 DEF Registered, StartInv
    <3> QED
      BY <1>i, <3>1, <3>2, <3>3 DEF Registered, AllowlistedHasRow, RowIsComing
  <2> QED
    BY <2>1, <2>2
<1>13. CASE Sighup
  BY <1>13, <1>1 DEF Sighup
<1>14. ASSUME NEW f \in Files, Edit(f) PROVE Registered'
  BY <1>14, <1>1 DEF Edit
<1>15. ASSUME NEW h \in Handlers,
              WriteMessage(h) \/ (\E a \in Chats : AcceptMessage(h, a))
       PROVE  Registered'
  BY <1>15, <1>1 DEF WriteMessage, AcceptMessage
<1>16. CASE UNCHANGED vars
  BY <1>16, <1>1 DEF vars
<1> QED
  BY <1>2, <1>3, <1>4, <1>5, <1>6, <1>7, <1>8, <1>9, <1>10, <1>11, <1>12,
     <1>13, <1>14, <1>15, <1>16 DEF Next, Reload, Register

(***************************************************************************)
(* No allowlisted chat is left without a row and without one coming,       *)
(* unless the transaction of EnsureGroups failed since the allowlist last  *)
(* changed (main.go, startConfigReloaders).                                *)
(***************************************************************************)
THEOREM NoChatForgotten == Spec => []AllowlistedHasRow
<1>1. Init => Registered
  <2>1. /\ \A p \in Procs \ {"main"} : Down[p].pc = "idle"
        /\ Down["main"].pc = "read"
    BY DEF Down, Idle, Load, Procs
  <2> QED
    BY <2>1 DEF Init, Registered, StartInv, AllowlistedHasRow
<1>2. TypeOK /\ Registered /\ [Next]_vars => Registered'
  BY StepKeepsRegistered
<1>3. Registered => AllowlistedHasRow
  BY DEF Registered
<1> QED
  BY <1>1, <1>2, <1>3, TypeCorrect, PTL DEF Spec

-----------------------------------------------------------------------------
(***************************************************************************)
(* RowsCurrent.  Without SIGHUP only "watch" installs an allowlist once    *)
(* the daemon is up, and only "sub" upserts; a reading that is out of date *)
(* has a change behind it that "sub" still has to take.                    *)
(***************************************************************************)
RolesInv ==
    /\ ~hup /\ proc["hup"].pc = "idle"
    /\ proc["watch"].pc \notin {"groups", "ensure"}
    /\ proc["sub"].pc \in {"idle", "groups", "ensure"}

LateReading ==
    proc["sub"].pc = "ensure" /\ proc["sub"].list # groups
        => queue > 0 \/ proc["watch"].pc = "notify"

Followed == RolesInv /\ LateReading /\ RowsCurrent

LEMMA StepKeepsFollowed ==
    ASSUME SighupSent = FALSE, TypeOK, Registered, Followed, [Next]_vars
    PROVE  Followed'
<1>p. /\ proc \in [Procs -> ProcState]
      /\ "main" \in Procs /\ "watch" \in Procs /\ "hup" \in Procs /\ "sub" \in Procs
      /\ \A p \in Procs : p = "main" \/ p = "watch" \/ p = "hup" \/ p = "sub"
      /\ \A p \in Procs : proc[p].pc \in PCs
  BY DEF TypeOK, ProcState, Procs
<1>t. /\ queue \in Nat /\ QueueCap \in Nat /\ QueueCap >= 1 /\ up \in BOOLEAN
      /\ groups \in Allowlists /\ rows \in Allowlists
  BY BoundAssumption DEF TypeOK
<1>i. /\ Idle.pc = "idle" /\ Load.pc = "read"
      /\ [Idle EXCEPT !.pc = "notify"].pc = "notify"
      /\ [Idle EXCEPT !.pc = "groups"].pc = "groups"
      /\ AfterReload("watch").pc = "idle"
  BY DEF Idle, Load, AfterReload
<1>m. /\ up => proc["main"].pc = "idle"
      /\ ~up => /\ queue = 0
                /\ \A p \in Procs \ {"main"} : proc[p].pc = "idle"
                /\ proc["main"].pc = "ensure" => proc["main"].list = groups
  BY DEF Registered, StartInv
<1>1. CASE UNCHANGED <<groups, queue, up, hup, proc, rows, unmade>>
  BY <1>1 DEF Followed, RolesInv, LateReading, RowsCurrent, UpdateIsComing
(* Steps that begin anew, in a daemon that is not up.                      *)
<1>2. ASSUME proc' = Down, up' = FALSE, hup' = FALSE
      PROVE  Followed'
  <2>1. \A p \in Procs \ {"main"} : proc'[p].pc = "idle"
    BY <1>2, <1>i DEF Down
  <2> QED
    BY <1>2, <1>p, <2>1 DEF Followed, RolesInv, LateReading, RowsCurrent
(* Steps of main before it is up.                                          *)
<1>3. ASSUME ~up, ~up', UNCHANGED hup,
             NEW s, proc' = [proc EXCEPT !["main"] = s]
      PROVE  Followed'
  <2>1. \A p \in Procs \ {"main"} : proc'[p] = proc[p]
    BY <1>3, <1>p
  <2> QED
    BY <1>3, <1>m, <1>p, <2>1 DEF Followed, RolesInv, LateReading, RowsCurrent
(* Steps of watch that install nothing.                                    *)
<1>4. ASSUME up, UNCHANGED <<groups, up, hup, rows, unmade>>,
             NEW s, proc' = [proc EXCEPT !["watch"] = s],
             s.pc \notin {"groups", "ensure"},
             queue' \in Nat, queue' >= queue,
             proc["watch"].pc = "notify" => queue' > 0
      PROVE  Followed'
  <2>1. proc'["watch"] = s /\ \A p \in Procs \ {"watch"} : proc'[p] = proc[p]
    BY <1>4, <1>p
  <2>2. LateReading' /\ RolesInv'
    BY <1>4, <1>p, <1>t, <2>1 DEF Followed, RolesInv, LateReading
  <2>3. ASSUME NEW a \in Chats, UpdateIsComing(a)
        PROVE  UpdateIsComing(a)'
    <3>1. CASE queue > 0
      BY <1>4, <1>t, <3>1 DEF UpdateIsComing
    <3>2. CASE proc["watch"].pc = "notify"
      BY <1>4, <3>2 DEF UpdateIsComing
    <3>3. CASE \E q \in Procs \ {"watch"} :
                  \/ proc[q].pc \in {"notify", "groups"}
                  \/ proc[q].pc = "ensure" /\ proc[q].list[a] = groups[a]
      BY <1>4, <2>1, <3>3 DEF UpdateIsComing
    <3> QED
      BY <2>3, <3>1, <3>2, <3>3 DEF UpdateIsComing, Followed, RolesInv
  <2> QED
    BY <1>4, <2>2, <2>3 DEF Followed, RowsCurrent
<1>5. CASE Crash
  BY <1>5, <1>2 DEF Crash
<1>6. CASE WatchTick
  <2>1. /\ up /\ proc["watch"].pc = "idle"
        /\ proc' = [proc EXCEPT !["watch"] = Load]
        /\ UNCHANGED <<groups, up, hup, rows, unmade, queue>>
    BY <1>6, <1>i DEF WatchTick
  <2>2. queue' \in Nat /\ queue' >= queue
    BY <1>t, <2>1
  <2> QED
    BY <1>4, <1>i, <2>1, <2>2
<1>7. CASE TakeHup
  BY <1>7 DEF TakeHup, Followed, RolesInv
<1>8. CASE TakeChange
  <2>1. /\ proc'["sub"].pc = "groups"
        /\ \A p \in Procs \ {"sub"} : proc'[p] = proc[p]
        /\ hup' = hup
    BY <1>8, <1>p, <1>i DEF TakeChange
  <2> QED
    BY <1>p, <2>1
    DEF Followed, RolesInv, LateReading, RowsCurrent, UpdateIsComing
(* Who acts, when.                                                         *)
<1>9. ASSUME NEW p \in Procs, proc[p].pc # "idle"
      PROVE  IF up THEN p \in {"watch", "sub"} ELSE p = "main"
  BY <1>9, <1>m, <1>p DEF Followed, RolesInv
<1>10. ASSUME NEW p \in Procs, proc[p].pc \in {"read", "stat", "swap", "notify"}
       PROVE  IF up THEN p = "watch" ELSE p = "main"
  BY <1>10, <1>9 DEF Followed, RolesInv
<1>11. ASSUME NEW p \in Procs, proc[p].pc \in {"groups", "ensure"}
       PROVE  IF up THEN p = "sub" ELSE p = "main"
  BY <1>11, <1>9 DEF Followed, RolesInv
<1>12. ASSUME NEW p \in Procs, ReadFile(p) \/ StatFile(p)
       PROVE  Followed'
  <2>1. PICK s : proc' = [proc EXCEPT ![p] = s] /\ s.pc \in {"idle", "stat", "swap"}
    <3>1. CASE proc' = [proc EXCEPT ![p] = Idle]
      BY <1>i, <3>1
    <3>2. CASE proc' = [proc EXCEPT ![p] = [@ EXCEPT !.pc = "stat", !.list = file.content]]
      <4>1. [proc[p] EXCEPT !.pc = "stat", !.list = file.content].pc = "stat"
        BY <1>p DEF ProcState
      <4> QED
        BY <3>2, <4>1
    <3>3. CASE proc' = [proc EXCEPT ![p] = [@ EXCEPT !.pc = "swap", !.mtime = file.mtime]]
      <4>1. [proc[p] EXCEPT !.pc = "swap", !.mtime = file.mtime].pc = "swap"
        BY <1>p DEF ProcState
      <4> QED
        BY <3>3, <4>1
    <3> QED
      BY <1>12, <3>1, <3>2, <3>3 DEF ReadFile, StatFile
  <2>2. /\ UNCHANGED <<groups, up, hup, rows, unmade, queue>>
        /\ proc[p].pc \in {"read", "stat"}
    BY <1>12 DEF ReadFile, StatFile
  <2>3. CASE up
    <3>1. p = "watch"
      BY <1>10, <2>2, <2>3
    <3>2. queue' \in Nat /\ queue' >= queue
      BY <1>t, <2>2
    <3>3. proc["watch"].pc # "notify"
      BY <2>2, <3>1
    <3> QED
      BY <1>4, <2>1, <2>2, <2>3, <3>1, <3>2, <3>3
  <2>4. CASE ~up
    <3>1. p = "main"
      BY <1>10, <2>2, <2>4
    <3> QED
      BY <1>3, <2>1, <2>2, <2>4, <3>1
  <2> QED
    BY <2>3, <2>4
<1>13. ASSUME NEW p \in Procs, Swap(p)
       PROVE  Followed'
  <2>1. PICK s : /\ proc' = [proc EXCEPT ![p] = s]
                 /\ groups' # groups => s.pc = "notify"
                 /\ groups' = groups => s = AfterReload(p)
    BY <1>13, <1>i DEF Swap, Changed
  <2>2. UNCHANGED <<rows, up, queue, hup>> /\ proc[p].pc = "swap"
    BY <1>13 DEF Swap
  <2>3. CASE ~up
    <3>1. p = "main"
      BY <1>10, <2>2, <2>3
    <3> QED
      BY <1>3, <2>1, <2>2, <2>3, <3>1
  <2>4. CASE up /\ groups' = groups
    <3>1. p = "watch"
      BY <1>10, <2>2, <2>4
    <3>2. unmade' = unmade
      BY <1>13, <2>4 DEF Swap, Changed
    <3>3. queue' \in Nat /\ queue' >= queue
      BY <1>t, <2>2
    <3>4. proc["watch"].pc = "swap" /\ s.pc = "idle"
      BY <1>i, <2>1, <2>2, <2>4, <3>1
    <3> QED
      BY <1>4, <2>1, <2>2, <2>4, <3>1, <3>2, <3>3, <3>4
  <2>5. CASE up /\ groups' # groups
    <3>1. p = "watch"
      BY <1>10, <2>2, <2>5
    <3>2. proc'["watch"].pc = "notify" /\ \A q \in Procs \ {"watch"} : proc'[q] = proc[q]
      BY <1>p, <2>1, <2>5, <3>1
    <3> QED
      BY <1>p, <2>2, <3>2
      DEF Followed, RolesInv, LateReading, RowsCurrent, UpdateIsComing
  <2> QED
    BY <1>t, <2>3, <2>4, <2>5
<1>14. ASSUME NEW p \in Procs, Notify(p)
       PROVE  Followed'
  <2>1. /\ proc' = [proc EXCEPT ![p] = AfterReload(p)] /\ proc[p].pc = "notify"
        /\ UNCHANGED <<groups, rows, up, unmade, hup>>
        /\ queue' \in Nat /\ queue' >= queue
        /\ up => queue' > 0
    BY <1>14, <1>t DEF Notify
  <2>2. CASE up
    <3>1. p = "watch"
      BY <1>10, <2>1, <2>2
    <3> QED
      BY <1>4, <1>i, <2>1, <2>2, <3>1
  <2>3. CASE ~up
    <3>1. p = "main"
      BY <1>10, <2>1, <2>3
    <3> QED
      BY <1>3, <2>1, <2>3, <3>1
  <2> QED
    BY <2>2, <2>3
<1>15. ASSUME NEW p \in Procs, ReadGroups(p)
       PROVE  Followed'
  <2> DEFINE s == [Idle EXCEPT !.pc = "ensure", !.list = groups]
  <2>1. s.pc = "ensure" /\ s.list = groups
    BY DEF Idle
  <2>2. /\ proc' = [proc EXCEPT ![p] = s] /\ proc[p].pc = "groups"
        /\ UNCHANGED <<groups, rows, up, unmade, queue, hup>>
    BY <1>15 DEF ReadGroups
  <2> HIDE DEF s
  <2>3. CASE up
    <3>1. p = "sub"
      BY <1>11, <2>2, <2>3
    <3>2. proc'["sub"] = s /\ \A q \in Procs \ {"sub"} : proc'[q] = proc[q]
      BY <1>p, <2>2, <3>1
    <3> QED
      BY <1>p, <2>1, <2>2, <3>2
      DEF Followed, RolesInv, LateReading, RowsCurrent, UpdateIsComing
  <2>4. CASE ~up
    <3>1. p = "main"
      BY <1>11, <2>2, <2>4
    <3> QED
      BY <1>3, <2>2, <2>4, <3>1
  <2> QED
    BY <2>3, <2>4
(* The transaction, committed or not, settles every chat of the reading.   *)
<1>16. ASSUME NEW p \in Procs, EnsureGroups(p) \/ (p # "main" /\ EnsureFails(p))
       PROVE  Followed'
  <2>1. /\ proc'[p] = Idle /\ proc[p].pc = "ensure"
        /\ \A q \in Procs \ {p} : proc'[q] = proc[q]
        /\ UNCHANGED <<groups, queue, hup>>
        /\ up' => up \/ p = "main"
    BY <1>16, <1>p, <1>t DEF EnsureGroups, EnsureFails
  <2>2. RolesInv' /\ LateReading'
    BY <1>11, <1>i, <1>p, <2>1 DEF Followed, RolesInv, LateReading
  <2>3. ASSUME NEW a \in Chats, proc[p].list[a] # Absent, a \notin unmade'
        PROVE  rows'[a] = proc[p].list[a]
    BY <1>16, <2>3 DEF EnsureGroups, EnsureFails, Upserted, Listed
  <2>4. CASE proc[p].list = groups
    BY <2>1, <2>2, <2>3, <2>4 DEF Followed, RowsCurrent
  <2>5. CASE proc[p].list # groups
    <3>1. up /\ p = "sub"
      BY <1>11, <1>m, <1>t, <2>1, <2>5
    <3>2. queue' > 0 \/ proc'["watch"].pc = "notify"
      BY <1>p, <2>1, <2>5, <3>1 DEF Followed, LateReading
    <3> QED
      BY <1>p, <2>2, <3>2 DEF Followed, RowsCurrent, UpdateIsComing
  <2> QED
    BY <2>4, <2>5
<1>17. CASE "main" \in Procs /\ EnsureFails("main")
  <2>1. proc' = Down /\ UNCHANGED <<up, hup>> /\ proc["main"].pc = "ensure"
    BY <1>17 DEF EnsureFails
  <2>2. up' = FALSE /\ hup' = FALSE
    BY <1>m, <1>t, <2>1 DEF Followed, RolesInv, TypeOK
  <2> QED
    BY <1>2, <2>1, <2>2
<1>18. ASSUME NEW p \in Procs, Register(p)
       PROVE  Followed'
  BY <1>15, <1>16, <1>17, <1>18 DEF Register
<1>19. CASE \/ \E f \in Files : Edit(f)
            \/ \E h \in Handlers : WriteMessage(h) \/ \E a \in Chats : AcceptMessage(h, a)
            \/ UNCHANGED vars
  BY <1>19, <1>1 DEF Edit, WriteMessage, AcceptMessage, vars
<1>20. ~Sighup
  BY DEF Sighup
<1> QED
  BY <1>5, <1>6, <1>7, <1>8, <1>12, <1>13, <1>14, <1>18, <1>19, <1>20
  DEF Next, Reload

(***************************************************************************)
(* Without SIGHUP every row of an allowlisted chat has the allowlist's     *)
(* settings or is to be given them, for any order of edits, polls, full    *)
(* channels and restarts (main.go, startConfigReloaders); the transaction  *)
(* that fails is the exception.                                            *)
(***************************************************************************)
THEOREM RowsKeepUp == SighupSent = FALSE => (Spec => []RowsCurrent)
<1> SUFFICES ASSUME SighupSent = FALSE PROVE Spec => []RowsCurrent
  OBVIOUS
<1>1. Init => Registered /\ Followed
  <2>1. /\ \A p \in Procs \ {"main"} : Down[p].pc = "idle"
        /\ Down["main"].pc = "read"
        /\ {"hup", "watch", "sub"} \subseteq Procs \ {"main"}
    BY DEF Down, Idle, Load, Procs
  <2> QED
    BY <2>1
    DEF Init, Registered, StartInv, AllowlistedHasRow, Followed, RolesInv,
        LateReading, RowsCurrent
<1>2. TypeOK /\ Registered /\ Followed /\ [Next]_vars => Registered' /\ Followed'
  BY StepKeepsRegistered, StepKeepsFollowed
<1>3. Followed => RowsCurrent
  BY DEF Followed
<1> QED
  BY <1>1, <1>2, <1>3, TypeCorrect, PTL DEF Spec

=============================================================================
