------------------------------ MODULE Delivery ------------------------------
(***************************************************************************)
(* What the daemon's table and the unseen command promise each tenant      *)
(* together (README, Architecture 2 and 3): a message that arrives in time *)
(* is owed to the tenants of its chat and stays in their window until it   *)
(* was printed for them; a message too old for a window that a person      *)
(* chose may be let go; nothing is printed for a tenant that is not of its *)
(* chats; and media is ticked off only once it was announced.              *)
(***************************************************************************)
EXTENDS Integers

CONSTANTS
    Messages, Tenants,
    SentAt,     \* a message's place in time, by which windows exclude it
    Audience    \* the tenants a message is for

VARIABLES
    inbox,      \* per tenant, the messages that arrived for it
    owed,       \* per tenant, those it has a claim to see
    window,     \* per tenant, the messages its next run would reach
    shown,      \* per tenant, the messages printed
    announced,  \* per tenant, the messages printed with their media
    ticked      \* messages whose media needs no announcement any more

vars == <<inbox, owed, window, shown, announced, ticked>>

Init ==
    /\ inbox = [t \in Tenants |-> {}]
    /\ owed = [t \in Tenants |-> {}]
    /\ window = [t \in Tenants |-> Messages]
    /\ shown = [t \in Tenants |-> {}]
    /\ announced = [t \in Tenants |-> {}]
    /\ ticked = {}

(* m arrives; the tenants of T have a claim to it.                         *)
Arrive(m, T) ==
    /\ T \subseteq Audience[m]
    /\ \A t \in T : m \in window[t]
    /\ inbox' = [t \in Tenants |->
                    IF t \in Audience[m] THEN inbox[t] \cup {m} ELSE inbox[t]]
    /\ owed' = [t \in Tenants |-> IF t \in T THEN owed[t] \cup {m} ELSE owed[t]]
    /\ UNCHANGED <<window, shown, announced, ticked>>

(* S is printed for t, the messages of A with their media.                 *)
Display(t, S, A) ==
    /\ S \subseteq inbox[t] /\ A \subseteq S
    /\ shown' = [shown EXCEPT ![t] = @ \cup S]
    /\ owed' = [owed EXCEPT ![t] = @ \ S]
    /\ announced' = [announced EXCEPT ![t] = @ \cup A]
    /\ UNCHANGED <<inbox, window, ticked>>

(* The window moves on, as far as what is owed lets it.                    *)
Move(t, W) ==
    /\ owed[t] \subseteq W
    /\ window' = [window EXCEPT ![t] = W]
    /\ UNCHANGED <<inbox, owed, shown, announced, ticked>>

(* A chosen window lets go of what is older than all it keeps.             *)
LetGo(t, E, W) ==
    /\ E \subseteq owed[t] /\ owed[t] \ E \subseteq W
    /\ \A e \in E, m \in owed[t] \ E : SentAt[e] < SentAt[m]
    /\ owed' = [owed EXCEPT ![t] = @ \ E]
    /\ window' = [window EXCEPT ![t] = W]
    /\ UNCHANGED <<inbox, shown, announced, ticked>>

Reset(t) ==
    /\ window' = [window EXCEPT ![t] = Messages]
    /\ UNCHANGED <<inbox, owed, shown, announced, ticked>>

Download(m) ==
    /\ ticked' = ticked \ {m}
    /\ UNCHANGED <<inbox, owed, window, shown, announced>>

TickOff(t, S) ==
    /\ S \subseteq announced[t]
    /\ ticked' = ticked \cup S
    /\ UNCHANGED <<inbox, owed, window, shown, announced>>

Next ==
    \/ \E m \in Messages : Download(m) \/ \E T \in SUBSET Tenants : Arrive(m, T)
    \/ \E t \in Tenants :
          \/ \E S, A \in SUBSET Messages : Display(t, S, A)
          \/ \E W \in SUBSET Messages :
                Move(t, W) \/ \E E \in SUBSET Messages : LetGo(t, E, W)
          \/ Reset(t)
          \/ \E S \in SUBSET Messages : TickOff(t, S)

Spec == Init /\ [][Next]_vars
=============================================================================
