-------------------------------- MODULE Inbox --------------------------------
(***************************************************************************)
(* What the daemon promises for the live messages WhatsApp hands to it     *)
(* (README, Architecture 1): a message is refused on arrival because       *)
(* Capacity others wait, or it is handled, once, and after those that came *)
(* before it; only when the daemon stops are waiting messages given up.    *)
(***************************************************************************)
EXTENDS Naturals, Sequences

CONSTANTS Messages, Capacity

VARIABLES
    waiting,    \* accepted and not yet taken, oldest first
    working,    \* being handled: one message at most
    handled,
    refused,
    open        \* whether messages are still taken

vars == <<waiting, working, handled, refused, open>>

Init ==
    /\ waiting = << >>
    /\ working = {} /\ handled = {} /\ refused = {}
    /\ open = TRUE

Fresh(m) ==
    /\ \A i \in DOMAIN waiting : waiting[i] # m
    /\ m \notin working \cup handled \cup refused

Accept(m) ==
    /\ Fresh(m)
    /\ Len(waiting) < Capacity
    /\ waiting' = Append(waiting, m)
    /\ UNCHANGED <<working, handled, refused, open>>

Refuse(m) ==
    /\ Fresh(m)
    /\ Len(waiting) = Capacity
    /\ refused' = refused \cup {m}
    /\ UNCHANGED <<waiting, working, handled, open>>

Take ==
    /\ open /\ working = {} /\ waiting # << >>
    /\ working' = {Head(waiting)}
    /\ waiting' = Tail(waiting)
    /\ UNCHANGED <<handled, refused, open>>

Finish ==
    /\ working # {}
    /\ handled' = handled \cup working
    /\ working' = {}
    /\ UNCHANGED <<waiting, refused, open>>

Stop ==
    /\ open /\ working = {}
    /\ open' = FALSE
    /\ UNCHANGED <<waiting, working, handled, refused>>

Next ==
    \/ \E m \in Messages : Accept(m) \/ Refuse(m)
    \/ Take
    \/ Finish
    \/ Stop

Spec == Init /\ [][Next]_vars
=============================================================================
