------------------------------ MODULE MCUnseen ------------------------------
(* Small instances of Unseen for TLC.                                      *)
EXTENDS Unseen, TLC, FiniteSets

CONSTANTS m1, m2, a, b, p, q, w, x

(* m1 is sent early in the clock's range, m2 late; both in a chat of a     *)
(* tenant, or of two.                                                      *)
MCSentAt   == m1 :> 1 @@ m2 :> 2
MCSentAtOne == m1 :> 1
MCOneChat  == m1 :> {a} @@ m2 :> {a}
MCOneMessage == m1 :> {a}
MCShared   == m1 :> {a, b} @@ m2 :> {a, b}

MCSymmetry == Permutations(Runs)
=============================================================================
