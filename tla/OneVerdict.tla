------------------------------ MODULE OneVerdict ------------------------------
(***************************************************************************)
(* What the control server promises a client that asks for a backfill      *)
(* (README, Architecture 6): requests are served one at a time, each gets  *)
(* one verdict, once it was served, and VIABLE means that the messages of  *)
(* a sync of its chat, sent for a request that was served, have been       *)
(* handled; only a daemon that is going down may say so of a sync it cut   *)
(* short.                                                                  *)
(***************************************************************************)
CONSTANTS Requests, Chats, None

VARIABLES
    chat,       \* the chat a request is for
    state,      \* of each request: idle, queued, served, done
    verdict,
    ingested,   \* requests whose sync has been handled
    down

vars == <<chat, state, verdict, ingested, down>>

Init ==
    /\ chat = [c \in Requests |-> None]
    /\ state = [c \in Requests |-> "idle"]
    /\ verdict = [c \in Requests |-> None]
    /\ ingested = {}
    /\ down = FALSE

Move(c, from, to) ==
    /\ state[c] = from
    /\ state' = [state EXCEPT ![c] = to]

Choose(c) == \E j \in Chats : chat' = [chat EXCEPT ![c] = j]

Ask(c) ==
    /\ Move(c, "idle", "queued")
    /\ Choose(c)
    /\ UNCHANGED <<verdict, ingested, down>>

Refuse(c) ==
    /\ Move(c, "idle", "done")
    /\ verdict' = [verdict EXCEPT ![c] = "ERROR"]
    /\ Choose(c)
    /\ UNCHANGED <<ingested, down>>

Serve(c) ==
    /\ \A d \in Requests : state[d] # "served"
    /\ Move(c, "queued", "served")
    /\ UNCHANGED <<chat, verdict, ingested, down>>

Ingest(r) ==
    /\ state[r] \in {"served", "done"}
    /\ ingested' = ingested \cup {r}
    /\ UNCHANGED <<chat, state, verdict, down>>

Viable(c) == down \/ \E r \in ingested : chat[r] = chat[c]

Conclude(c, v) ==
    /\ Move(c, "served", "done")
    /\ v = "VIABLE" => Viable(c)
    /\ verdict' = [verdict EXCEPT ![c] = v]
    /\ UNCHANGED <<chat, ingested, down>>

GoDown ==
    /\ down' = TRUE
    /\ UNCHANGED <<chat, state, verdict, ingested>>

Next ==
    \/ \E c \in Requests :
          \/ Ask(c) \/ Refuse(c) \/ Serve(c) \/ Ingest(c)
          \/ \E v \in {"VIABLE", "UNAVAILABLE", "ERROR"} : Conclude(c, v)
    \/ GoDown

Spec == Init /\ [][Next]_vars
=============================================================================
