------------------------------- MODULE TempFile -------------------------------
(***************************************************************************)
(* How the daemon replaces a file: NAME.tmp is opened with O_CREATE and    *)
(* O_TRUNC, written, and renamed to NAME (Writer.writeMedia in             *)
(* internal/writer/writer.go, Status.Write in internal/health/health.go).  *)
(* All goroutines use the same two names.                                  *)
(*                                                                         *)
(* A file that is open keeps being written whatever becomes of its name.   *)
(* Truncating, writing and renaming are one step of the file system each.  *)
(***************************************************************************)
CONSTANT Writers

VARIABLES
    fd,     \* the name that a writer's open file goes by
    tmp,    \* content of NAME.tmp: absent, part, or what was written
    final   \* content of NAME

(* lost: another file has been renamed over the one that is open.          *)
Names == {"none", "tmp", "final", "lost"}

Create(w) ==
    /\ fd' = [fd EXCEPT ![w] = "tmp"]
    /\ tmp' = "part"
    /\ UNCHANGED final

Close(w) == fd' = [fd EXCEPT ![w] = "none"]

(* What may be in a file after v was written at its start: all of v, or v  *)
(* and the rest of a longer text.                                          *)
Over(old, v) == IF old \in {"part", v} THEN {v} ELSE {v, "part"}

Fill(w, v) ==
    /\ \/ fd[w] = "tmp" /\ tmp' \in Over(tmp, v) /\ UNCHANGED final
       \/ fd[w] = "final" /\ final' \in Over(final, v) /\ UNCHANGED tmp
       \/ fd[w] = "lost" /\ UNCHANGED <<tmp, final>>
    /\ Close(w)

(* NAME.tmp is renamed, whoever wrote it, and whoever has it open.         *)
Rename ==
    /\ tmp # "absent"
    /\ final' = tmp
    /\ tmp' = "absent"
    /\ fd' = [v \in Writers |->
                CASE fd[v] = "tmp"   -> "final"
                  [] fd[v] = "final" -> "lost"
                  [] OTHER           -> fd[v]]
=============================================================================
