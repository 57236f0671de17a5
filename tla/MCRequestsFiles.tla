---------------------------- MODULE MCRequestsFiles ----------------------------
(***************************************************************************)
(* Small instances of Backfill, MediaFile and StatusFile for TLC, side by  *)
(* side: a behaviour takes the steps of one of them.  They share no        *)
(* variable and no guard of one reads another, so interleaving them would  *)
(* add no case.                                                            *)
(***************************************************************************)
EXTENDS Backfill, MediaFile, StatusFile, TLC

CONSTANTS c, d, j, k, worker, sync1, sync2

VARIABLE part

PartsInit ==
    /\ part \in {"requests", "media", "status"}
    /\ Init /\ (part # "requests" => ~online)
    /\ MediaInit
    /\ StatusInit /\ (part # "status" => statusTmp = "absent" /\ statusFinal = "absent")

PartsNext ==
    \/ part = "requests" /\ Next /\ UNCHANGED <<part, mediaVars, statusVars>>
    \/ part = "media" /\ MediaNext /\ UNCHANGED <<part, vars, statusVars>>
    \/ part = "status" /\ StatusNext /\ UNCHANGED <<part, vars, mediaVars>>

PartsSpec ==
    /\ PartsInit /\ [][PartsNext]_<<part, vars, mediaVars, statusVars>>
    /\ Fairness /\ StatusFairness
=============================================================================
