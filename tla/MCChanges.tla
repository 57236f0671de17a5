------------------------------ MODULE MCChanges ------------------------------
(* Small instances of Changes for TLC.                                     *)
EXTENDS Changes, TLC

CONSTANTS j, c, d, g, h

(* Two clients of one chat, and one client of it.                          *)
MCSameChat  == c :> j @@ d :> j
MCOneConn   == c :> j

MCSymmetry == Permutations(Handlers) \cup Permutations(Conns)
=============================================================================
