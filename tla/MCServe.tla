------------------------------- MODULE MCServe -------------------------------
(* Small instance of Serve for TLC.                                       *)
EXTENDS Serve, TLC

CONSTANTS m1, m2, s, t, k
=============================================================================
