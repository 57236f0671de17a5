------------------------------ MODULE MCReload ------------------------------
(* Small instances of Reload for TLC.                                      *)
EXTENDS Reload, TLC

CONSTANTS a, b, x, y, h

(* Chat a stays or changes its settings, chat b comes and goes.            *)
MCFiles ==
    {a :> x @@ b :> Absent, a :> y @@ b :> Absent, a :> x @@ b :> y, Broken}
=============================================================================
