------------------------------ MODULE MediaFile ------------------------------
(***************************************************************************)
(* The media of one message: Writer.writeMedia, markMediaOK and            *)
(* markMediaFailure (internal/writer/writer.go), called by the live worker *)
(* and by the goroutines of history syncs that have the message too.  All  *)
(* of them downloaded the same bytes.                                      *)
(***************************************************************************)
CONSTANT MediaWriters   \* goroutines that have the message

VARIABLES
    writing,        \* where a goroutine stands
    mediaFd, mediaTmp, mediaFinal,
    status,         \* media_hydration_status of the row
    hydrated,       \* whether the row's media_local_path is set
    \* Kept for the properties:
    overlapped,     \* a writer truncated what another had not yet renamed
    cutShort        \* a writer failed, or was killed, with the file open

mediaVars == <<writing, mediaFd, mediaTmp, mediaFinal, status, hydrated, overlapped,
               cutShort>>

file == <<mediaFd, mediaTmp, mediaFinal>>
row  == <<status, hydrated>>

Media == INSTANCE TempFile WITH
    Writers <- MediaWriters, fd <- mediaFd, tmp <- mediaTmp, final <- mediaFinal

(* write: the file is open; rename: it is written and closed; mark, fail:  *)
(* the row comes next.                                                     *)
WritingPCs == {"idle", "write", "rename", "mark", "fail"}

Contents == {"absent", "part", "whole"}

MediaTypeOK ==
    /\ writing \in [MediaWriters -> WritingPCs]
    /\ mediaFd \in [MediaWriters -> Media!Names]
    /\ \A w \in MediaWriters : writing[w] = "write" <=> mediaFd[w] # "none"
    /\ mediaTmp \in Contents /\ mediaFinal \in Contents
    /\ status \in {"none", "ok", "failed", "failed: expired"}
    /\ hydrated \in BOOLEAN /\ overlapped \in BOOLEAN /\ cutShort \in BOOLEAN

MediaInit ==
    /\ writing = [w \in MediaWriters |-> "idle"]
    /\ mediaFd = [w \in MediaWriters |-> "none"]
    /\ mediaTmp = "absent" /\ mediaFinal = "absent"
    /\ status = "none" /\ hydrated = FALSE
    /\ overlapped = FALSE /\ cutShort = FALSE

At(w, p) == writing' = [writing EXCEPT ![w] = p]

-----------------------------------------------------------------------------
(* A history sync whose download was answered 404 or 410.                  *)
MarkExpired(w) ==
    /\ writing[w] = "idle"
    /\ status' = "failed: expired"
    /\ UNCHANGED <<writing, file, hydrated, overlapped, cutShort>>

OpenTemp(w) ==
    /\ writing[w] = "idle"
    /\ Media!Create(w)
    /\ At(w, "write")
    /\ overlapped' = (overlapped \/ \E v \in MediaWriters : writing[v] \in {"write", "rename"})
    /\ UNCHANGED <<row, cutShort>>

WriteBytes(w) ==
    /\ writing[w] = "write"
    /\ Media!Fill(w, "whole")
    /\ At(w, "rename")
    /\ UNCHANGED <<row, overlapped, cutShort>>

WriteFailsLeaking(w) ==         \* faulty: returns without closing the file
    /\ writing[w] \in {"idle", "write", "rename"}
    /\ At(w, "fail")
    /\ cutShort' = (cutShort \/ writing[w] = "write")
    /\ UNCHANGED <<file, row, overlapped>>

WriteErrorIgnored(w) ==         \* faulty: goes on to the rename
    /\ writing[w] = "write"
    /\ Media!Close(w)
    /\ cutShort' = TRUE
    /\ At(w, "rename")
    /\ UNCHANGED <<mediaTmp, mediaFinal, row, overlapped>>

(* The directory or the file cannot be made, written or synced.            *)
WriteFails(w) ==
    /\ \/ writing[w] = "idle" /\ UNCHANGED <<mediaFd, cutShort>>
       \/ writing[w] = "write" /\ Media!Close(w) /\ cutShort' = TRUE
       \/ writing[w] = "rename" /\ UNCHANGED <<mediaFd, cutShort>>
    /\ At(w, "fail")
    /\ UNCHANGED <<mediaTmp, mediaFinal, row, overlapped>>

(* It fails when another writer has renamed the file already.              *)
RenameTemp(w) ==
    /\ writing[w] = "rename"
    /\ \/ Media!Rename /\ At(w, "mark")
       \/ mediaTmp = "absent" /\ At(w, "fail") /\ UNCHANGED file
    /\ UNCHANGED <<row, overlapped, cutShort>>

MarkMediaOK(w) ==
    /\ writing[w] = "mark"
    /\ status' = "ok" /\ hydrated' = TRUE
    /\ At(w, "idle")
    /\ UNCHANGED <<file, overlapped, cutShort>>

MarkFailureWithPath(w) ==       \* faulty: the row gets the path all the same
    /\ writing[w] = "fail"
    /\ status' = "failed" /\ hydrated' = TRUE
    /\ At(w, "idle")
    /\ UNCHANGED <<file, overlapped, cutShort>>

MarkMediaFailure(w) ==
    /\ writing[w] = "fail"
    /\ status' = "failed"
    /\ At(w, "idle")
    /\ UNCHANGED <<file, hydrated, overlapped, cutShort>>

(* The transaction of either mark fails.                                   *)
MarkFails(w) ==
    /\ writing[w] \in {"mark", "fail"}
    /\ At(w, "idle")
    /\ UNCHANGED <<file, row, overlapped, cutShort>>

(* The process is killed and started again; files and row remain.          *)
Kill ==
    /\ writing' = [w \in MediaWriters |-> "idle"]
    /\ mediaFd' = [w \in MediaWriters |-> "none"]
    /\ cutShort' = (cutShort \/ \E w \in MediaWriters : writing[w] = "write")
    /\ UNCHANGED <<mediaTmp, mediaFinal, row, overlapped>>

WriteMedia(w) ==
    \/ MarkExpired(w) \/ OpenTemp(w) \/ WriteBytes(w) \/ WriteFails(w) \/ RenameTemp(w)
    \/ MarkMediaOK(w) \/ MarkMediaFailure(w) \/ MarkFails(w)

MediaNext == (\E w \in MediaWriters : WriteMedia(w)) \/ Kill

MediaSpec == MediaInit /\ [][MediaNext]_mediaVars

-----------------------------------------------------------------------------
(***************************************************************************)
(* The path in the row leads to the whole file -- "writes them atomically  *)
(* [...], then updates media_local_path" (README, Architecture 2) -- also  *)
(* after failed writes and kills, if no writer ever truncated NAME.tmp     *)
(* under another.                                                          *)
(***************************************************************************)
AtomicUnlessOverlapped == hydrated /\ ~overlapped => mediaFinal = "whole"

(***************************************************************************)
(* When writers do overlap, the path may lead to a file that has been      *)
(* truncated, but the writer that did so still has it open and will fill   *)
(* it, unless that writer fails or is killed.                              *)
(***************************************************************************)
TornForNow ==
    hydrated /\ mediaFinal # "whole" =>
        cutShort \/ \E w \in MediaWriters : mediaFd[w] = "final"

=============================================================================
