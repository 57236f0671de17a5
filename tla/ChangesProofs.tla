---------------------------- MODULE ChangesProofs ----------------------------
(***************************************************************************)
(* Proofs about Changes, for every set of chats, handlers and connections. *)
(*                                                                         *)
(* NoLostWake is inductive with the types: each step that takes a pending  *)
(* reading off one place of its way (handler, token, loop, socket, client) *)
(* puts it on the next; a failed media write leaves the way, and puts the  *)
(* chat among the unwoken until the next wake.                             *)
(*                                                                         *)
(* ToldOnlyWhileOwned rests on OwnerInv: while a chat is owned, the last   *)
(* owned commit is the last commit, so the second look at the owner, which *)
(* comes after the token is taken, covers all the token may speak of.      *)
(***************************************************************************)
EXTENDS Changes, TLAPS

HandlerStates == [pc : {"idle"}, chat : {None}]
                 \cup [pc : {"media", "notify"}, chat : Chats]

LEMMA HandlerMembership ==
    /\ Idle \in HandlerStates
    /\ \A j \in Chats, p \in {"media", "notify"} : [pc |-> p, chat |-> j] \in HandlerStates
    /\ \A s \in HandlerStates :
          s.pc \in {"media", "notify"} =>
              /\ s.chat \in Chats
              /\ [s EXCEPT !.pc = "notify"] \in HandlerStates
  BY DEF HandlerStates, Idle

LEMMA InitTyped == Init => TypeOK
  BY HandlerMembership, SMT DEF Init, TypeOK, ConnStates, HandlerStates, Idle, None

LEMMA StepTyped == TypeOK /\ [Next]_vars => TypeOK'
<1> SUFFICES ASSUME TypeOK, [Next]_vars PROVE TypeOK'
  OBVIOUS
<1>h. handler \in [Handlers -> HandlerStates]
  BY DEF TypeOK, HandlerStates
<1>c. Selects \in [Conns -> Chats]
  BY ConnsAssumption
<1> HIDE DEF HandlerStates
<1>1. ASSUME NEW h \in Handlers, NEW j \in Chats, NEW media \in BOOLEAN, HandleCommit(h, j, media)
      PROVE  TypeOK'
  <2>1. handler' \in [Handlers -> HandlerStates]
    BY <1>1, <1>h, HandlerMembership DEF HandleCommit
  <2>2. committed' \in [Chats -> Nat] /\ lastOwned' \in [Chats -> Nat]
    BY <1>1 DEF HandleCommit, Commit, TypeOK
  <2> QED
    BY <1>1, <2>1, <2>2 DEF HandleCommit, TypeOK, HandlerStates
<1>2. ASSUME NEW h \in Handlers, HandleMediaOK(h)  PROVE TypeOK'
  <2>1. handler' \in [Handlers -> HandlerStates] /\ handler[h].chat \in Chats
    BY <1>2, <1>h, HandlerMembership DEF HandleMediaOK
  <2>2. committed' \in [Chats -> Nat] /\ lastOwned' \in [Chats -> Nat]
    BY <1>2, <2>1 DEF HandleMediaOK, Commit, TypeOK
  <2> QED
    BY <1>2, <2>1, <2>2 DEF HandleMediaOK, TypeOK, HandlerStates
<1>3. ASSUME NEW h \in Handlers, HandleMediaFailure(h) PROVE TypeOK'
  <2>1. handler' \in [Handlers -> HandlerStates] /\ handler[h].chat \in Chats
    BY <1>3, <1>h, HandlerMembership DEF HandleMediaFailure
  <2> QED
    BY <1>3, <2>1 DEF HandleMediaFailure, TypeOK, HandlerStates
<1>4. ASSUME NEW h \in Handlers, Notify(h) PROVE TypeOK'
  <2>1. handler' \in [Handlers -> HandlerStates]
    BY <1>4, <1>h, HandlerMembership DEF Notify
  <2>2. wake' \in [Conns -> 0..1]
    BY <1>4 DEF Notify, TypeOK
  <2> QED
    BY <1>4, <2>1, <2>2 DEF Notify, TypeOK, HandlerStates
<1>5. ASSUME NEW c \in Conns, Accept(c) PROVE TypeOK'
  BY <1>5 DEF Accept, TypeOK, ConnStates
<1>6. ASSUME NEW c \in Conns, ServeConn(c) PROVE TypeOK'
  <2>1. CASE Subscribe(c)
    BY <2>1 DEF Subscribe, TypeOK, ConnStates
  <2>2. CASE SendReady(c)
    BY <2>2 DEF SendReady, Send, TypeOK, ConnStates
  <2>3. CASE TakeWake(c)
    <3>1. wake[c] = 1 /\ wake' = [wake EXCEPT ![c] = wake[c] - 1]
      BY <2>3 DEF TakeWake, TypeOK
    <3>2. wake' \in [Conns -> 0..1]
      BY <3>1 DEF TypeOK
    <3>3. known' \in [Conns -> Nat]
      BY <2>3, <1>c DEF TakeWake, TypeOK
    <3>4. conn' \in [Conns -> ConnStates]
      BY <2>3 DEF TakeWake, TypeOK, ConnStates
    <3> QED
      BY <2>3, <3>2, <3>3, <3>4 DEF TakeWake, TypeOK
  <2>4. CASE CheckOwner(c)
    BY <2>4 DEF CheckOwner, TypeOK, ConnStates
  <2>5. CASE SendChanged(c)
    BY <2>5 DEF SendChanged, Send, TypeOK, ConnStates
  <2> QED
    BY <1>6, <2>1, <2>2, <2>3, <2>4, <2>5 DEF ServeConn
<1>7. ASSUME NEW c \in Conns, Close(c) PROVE TypeOK'
  BY <1>7 DEF Close, TypeOK, ConnStates
<1>8. ASSUME NEW c \in Conns, Client(c) PROVE TypeOK'
  <2>1. CASE ClientReceive(c)
    BY <2>1 DEF ClientReceive, TypeOK
  <2>2. CASE ClientRead(c)
    BY <2>2, <1>c DEF ClientRead, TypeOK
  <2> QED
    BY <1>8, <2>1, <2>2 DEF Client
<1>9. ASSUME NEW j \in Chats, Reconfigure(j) PROVE TypeOK'
  BY <1>9 DEF Reconfigure, TypeOK
<1>10. CASE Crash
  <2>1. handler' \in [Handlers -> HandlerStates]
    BY <1>10, HandlerMembership DEF Crash
  <2> QED
    BY <1>10, <2>1 DEF Crash, TypeOK, ConnStates, HandlerStates
<1>11. CASE UNCHANGED vars
  BY <1>11 DEF vars, TypeOK
<1> QED
  BY <1>1, <1>2, <1>3, <1>4, <1>5, <1>6, <1>7, <1>8, <1>9, <1>10, <1>11 DEF Next, Handle

(***************************************************************************)
(* Every variable keeps its type: in particular the one-slot channel of a  *)
(* subscription never holds two tokens (changes.go, Notify).               *)
(***************************************************************************)
THEOREM TypeCorrect == Spec => []TypeOK
  BY InitTyped, StepTyped, PTL DEF Spec

-----------------------------------------------------------------------------
LEMMA StepKeepsWake ==
    ASSUME TypeOK, NoLostWake, [Next]_vars
    PROVE  NoLostWake'
<1> SUFFICES ASSUME NEW c \in Conns, Subscribed(c)', seen'[c] < committed'[Selects[c]],
                    Selects[c] \notin unwoken'
             PROVE  OnItsWay(c)'
  BY DEF NoLostWake, Behind
<1>c. Selects[c] \in Chats
  BY ConnsAssumption
<1>i. Subscribed(c) /\ seen[c] < committed[Selects[c]] /\ Selects[c] \notin unwoken
         => OnItsWay(c)
  BY DEF NoLostWake, Behind
<1>h. handler \in [Handlers -> HandlerStates]
  BY DEF TypeOK, HandlerStates
<1>1. ASSUME NEW h \in Handlers, NEW j \in Chats, NEW media \in BOOLEAN, HandleCommit(h, j, media)
      PROVE  OnItsWay(c)'
  <2>1. CASE j = Selects[c]
    BY <1>1, <1>h, <2>1 DEF HandleCommit, OnItsWay
  <2>2. CASE j # Selects[c]
    <3>1. committed'[Selects[c]] = committed[Selects[c]]
      BY <1>1, <1>c, <2>2 DEF HandleCommit, Commit, TypeOK
    <3>2. OnItsWay(c)
      BY <1>1, <1>i, <3>1 DEF HandleCommit, Subscribed
    <3> QED
      BY <1>1, <1>h, <3>2 DEF HandleCommit, OnItsWay, Idle
  <2> QED
    BY <2>1, <2>2
<1>2. ASSUME NEW h \in Handlers, HandleMediaOK(h)  PROVE OnItsWay(c)'
  <2>1. CASE handler[h].chat = Selects[c]
    BY <1>2, <1>h, <2>1 DEF HandleMediaOK, OnItsWay, HandlerStates
  <2>2. CASE handler[h].chat # Selects[c]
    <3>1. committed'[Selects[c]] = committed[Selects[c]]
      BY <1>2, <1>c, <2>2 DEF HandleMediaOK, Commit, TypeOK
    <3>2. OnItsWay(c)
      BY <1>2, <1>i, <3>1 DEF HandleMediaOK, Subscribed
    <3> QED
      BY <1>2, <1>h, <2>2, <3>2 DEF HandleMediaOK, OnItsWay, HandlerStates
  <2> QED
    BY <2>1, <2>2
<1>3. ASSUME NEW h \in Handlers, HandleMediaFailure(h) PROVE OnItsWay(c)'
  <2>1. handler[h].chat # Selects[c] /\ OnItsWay(c)
    BY <1>3, <1>i DEF HandleMediaFailure, Subscribed
  <2> QED
    BY <1>3, <1>h, <2>1 DEF HandleMediaFailure, OnItsWay
<1>4. ASSUME NEW h \in Handlers, Notify(h) PROVE OnItsWay(c)'
  <2>2. CASE handler[h].chat = Selects[c]
    BY <1>4, <2>2 DEF Notify, OnItsWay, Subscribed
  <2>3. CASE handler[h].chat # Selects[c]
    <3>1. OnItsWay(c) /\ Subscribed(c)
      BY <1>4, <1>i, <2>3 DEF Notify, Subscribed
    <3> QED
      BY <1>4, <1>h, <2>3, <3>1 DEF Notify, OnItsWay, TypeOK
  <2> QED
    BY <2>2, <2>3
<1>5. ASSUME NEW d \in Conns, Accept(d) PROVE OnItsWay(c)'
  <2>1. c # d
    BY <1>5 DEF Accept, Subscribed, TypeOK
  <2> QED
    BY <1>5, <1>i, <2>1 DEF Accept, Subscribed, OnItsWay, TypeOK
<1>6. ASSUME NEW d \in Conns, ServeConn(d) PROVE OnItsWay(c)'
  <2>1. CASE Subscribe(d)
    BY <2>1, <1>i DEF Subscribe, Subscribed, OnItsWay, TypeOK
  <2>2. CASE SendReady(d)
    BY <2>2, <1>i DEF SendReady, Send, Subscribed, OnItsWay, TypeOK
  <2>3. CASE TakeWake(d)
    BY <2>3, <1>i DEF TakeWake, Subscribed, OnItsWay, TypeOK
  <2>4. CASE CheckOwner(d)
    BY <2>4, <1>i DEF CheckOwner, Subscribed, OnItsWay, TypeOK
  <2>5. CASE SendChanged(d)
    BY <2>5, <1>i DEF SendChanged, Send, Subscribed, OnItsWay, TypeOK
  <2> QED
    BY <1>6, <2>1, <2>2, <2>3, <2>4, <2>5 DEF ServeConn
<1>7. ASSUME NEW d \in Conns, Close(d) PROVE OnItsWay(c)'
  BY <1>7, <1>i DEF Close, Subscribed, OnItsWay, TypeOK
<1>8. ASSUME NEW d \in Conns, Client(d) PROVE OnItsWay(c)'
  <2>1. CASE ClientReceive(d)
    BY <2>1, <1>i DEF ClientReceive, Subscribed, OnItsWay, TypeOK
  <2>2. CASE ClientRead(d)
    <3>1. c # d
      BY <2>2, <1>c DEF ClientRead, TypeOK
    <3> QED
      BY <2>2, <1>i, <3>1 DEF ClientRead, Subscribed, OnItsWay, TypeOK
  <2> QED
    BY <1>8, <2>1, <2>2 DEF Client
<1>9. ASSUME NEW j \in Chats, Reconfigure(j) PROVE OnItsWay(c)'
  BY <1>9, <1>i DEF Reconfigure, Subscribed, OnItsWay
<1>10. CASE Crash
  BY <1>10 DEF Crash, Subscribed
<1>11. CASE UNCHANGED vars
  BY <1>11, <1>i DEF vars, Subscribed, OnItsWay
<1> QED
  BY <1>1, <1>2, <1>3, <1>4, <1>5, <1>6, <1>7, <1>8, <1>9, <1>10, <1>11 DEF Next, Handle

(***************************************************************************)
(* No wake of a live connection is lost (changes.go:51), whatever commits, *)
(* edits, failed media writes and restarts interleave, except that a chat  *)
(* whose last media write failed waits for the wake of the next message.   *)
(***************************************************************************)
THEOREM NoWakeLost == Spec => []NoLostWake
<1>1. Init => NoLostWake
  BY DEF Init, NoLostWake, Behind, Subscribed
<1>2. TypeOK /\ NoLostWake /\ [Next]_vars => NoLostWake'
  BY StepKeepsWake
<1> QED
  BY <1>1, <1>2, TypeCorrect, PTL DEF Spec

-----------------------------------------------------------------------------
(* How commits, ownership and what a connection may tell are related.      *)
OwnerInv ==
    /\ \A j \in Chats : lastOwned[j] <= committed[j]
    /\ \A j \in owned : lastOwned[j] = committed[j]
    /\ \A c \in Conns : known[c] <= committed[Selects[c]]

LEMMA CommitKeepsOwner ==
    ASSUME TypeOK, OwnerInv, ToldOnlyWhileOwned, NEW j \in Chats, Commit(j),
           UNCHANGED <<owned, conn, known>>
    PROVE  OwnerInv' /\ ToldOnlyWhileOwned'
<1>1. /\ committed[j] \in Nat /\ committed' = [committed EXCEPT ![j] = @ + 1]
      /\ lastOwned[j] \in Nat
      /\ committed'[j] = committed[j] + 1
      /\ \A i \in Chats \ {j} : committed'[i] = committed[i] /\ lastOwned'[i] = lastOwned[i]
      /\ lastOwned'[j] = IF j \in owned THEN committed[j] + 1 ELSE lastOwned[j]
  BY DEF Commit, TypeOK
<1>2. \A i \in Chats : lastOwned'[i] <= committed'[i]
  BY <1>1 DEF OwnerInv, TypeOK
<1>3. \A i \in owned : lastOwned'[i] = committed'[i]
  BY <1>1 DEF OwnerInv, TypeOK
<1>4. \A i \in Chats : lastOwned[i] <= lastOwned'[i] /\ committed[i] <= committed'[i]
  BY <1>1 DEF OwnerInv, TypeOK
<1>5. \A c \in Conns : Selects[c] \in Chats /\ known[c] \in Nat
  BY ConnsAssumption DEF TypeOK
<1>6. \A i \in Chats : /\ committed[i] \in Nat /\ committed'[i] \in Nat
                       /\ lastOwned[i] \in Nat /\ lastOwned'[i] \in Nat
  BY <1>1 DEF TypeOK
<1>7. OwnerInv'
  BY <1>2, <1>3, <1>4, <1>5, <1>6 DEF OwnerInv
<1>8. ToldOnlyWhileOwned'
  BY <1>4, <1>5, <1>6 DEF ToldOnlyWhileOwned
<1> QED
  BY <1>7, <1>8

LEMMA StepKeepsOwner ==
    ASSUME TypeOK, OwnerInv, ToldOnlyWhileOwned, [Next]_vars
    PROVE  OwnerInv' /\ ToldOnlyWhileOwned'
<1>c. \A c \in Conns : Selects[c] \in Chats
  BY ConnsAssumption
<1>t. /\ \A c \in Conns : known[c] \in Nat
      /\ \A j \in Chats : committed[j] \in Nat /\ lastOwned[j] \in Nat
  BY DEF TypeOK
<1>1. ASSUME NEW h \in Handlers, NEW j \in Chats, NEW media \in BOOLEAN, HandleCommit(h, j, media)
      PROVE  OwnerInv' /\ ToldOnlyWhileOwned'
  BY <1>1, CommitKeepsOwner DEF HandleCommit
<1>2. ASSUME NEW h \in Handlers, HandleMediaOK(h) PROVE OwnerInv' /\ ToldOnlyWhileOwned'
  <2>1. handler[h].chat \in Chats
    BY <1>2 DEF HandleMediaOK, TypeOK
  <2> QED
    BY <1>2, <2>1, CommitKeepsOwner DEF HandleMediaOK
<1>3. ASSUME NEW h \in Handlers, HandleMediaFailure(h) \/ Notify(h)
      PROVE  OwnerInv' /\ ToldOnlyWhileOwned'
  BY <1>3 DEF HandleMediaFailure, Notify, OwnerInv, ToldOnlyWhileOwned
<1>4. ASSUME NEW d \in Conns, Accept(d) PROVE OwnerInv' /\ ToldOnlyWhileOwned'
  <2>1. OwnerInv'
    BY <1>4, <1>c, <1>t DEF Accept, OwnerInv, TypeOK
  <2>2. ToldOnlyWhileOwned'
    BY <1>4, <1>c, <1>t DEF Accept, ToldOnlyWhileOwned, TypeOK
  <2> QED
    BY <2>1, <2>2
<1>5. ASSUME NEW d \in Conns, Subscribe(d) \/ SendReady(d) \/ SendChanged(d) \/ Close(d)
      PROVE  OwnerInv' /\ ToldOnlyWhileOwned'
  BY <1>5 DEF Subscribe, SendReady, SendChanged, Close, OwnerInv, ToldOnlyWhileOwned, TypeOK
<1>6. ASSUME NEW d \in Conns, TakeWake(d) PROVE OwnerInv' /\ ToldOnlyWhileOwned'
  BY <1>6, <1>c, <1>t DEF TakeWake, OwnerInv, ToldOnlyWhileOwned, TypeOK
<1>7. ASSUME NEW d \in Conns, CheckOwner(d) PROVE OwnerInv' /\ ToldOnlyWhileOwned'
  <2>1. OwnerInv'
    BY <1>7 DEF CheckOwner, OwnerInv
  <2>2. ToldOnlyWhileOwned'
    BY <1>7, <1>c DEF CheckOwner, OwnerInv, ToldOnlyWhileOwned, TypeOK
  <2> QED
    BY <2>1, <2>2
<1>8. ASSUME NEW d \in Conns, Client(d) PROVE OwnerInv' /\ ToldOnlyWhileOwned'
  BY <1>8 DEF Client, ClientReceive, ClientRead, OwnerInv, ToldOnlyWhileOwned
<1>9. ASSUME NEW j \in Chats, Reconfigure(j) PROVE OwnerInv' /\ ToldOnlyWhileOwned'
  <2>1. /\ lastOwned'[j] = committed[j]
        /\ \A i \in Chats \ {j} : lastOwned'[i] = lastOwned[i]
        /\ \A i \in owned' \ {j} : i \in owned
        /\ owned \subseteq Chats /\ owned' \subseteq Chats
    BY <1>9 DEF Reconfigure, TypeOK
  <2>2. OwnerInv'
    BY <1>9, <1>t, <2>1 DEF Reconfigure, OwnerInv
  <2>3. ToldOnlyWhileOwned'
    BY <1>9, <1>c, <1>t, <2>1 DEF Reconfigure, OwnerInv, ToldOnlyWhileOwned
  <2> QED
    BY <2>2, <2>3
<1>10. CASE Crash
  BY <1>10 DEF Crash, OwnerInv, ToldOnlyWhileOwned
<1>11. CASE UNCHANGED vars
  BY <1>11 DEF vars, OwnerInv, ToldOnlyWhileOwned
<1> QED
  BY <1>1, <1>2, <1>3, <1>4, <1>5, <1>6, <1>7, <1>8, <1>9, <1>10, <1>11
     DEF Next, Handle, ServeConn

(***************************************************************************)
(* No client is told of a commit made after its tenant stopped being the   *)
(* chat's only owner: changes.go:64 looks the group up after the token.    *)
(***************************************************************************)
THEOREM OnlyOwnersTold == Spec => []ToldOnlyWhileOwned
<1>1. Init => OwnerInv /\ ToldOnlyWhileOwned
  BY ConnsAssumption DEF Init, OwnerInv, ToldOnlyWhileOwned
<1>2. TypeOK /\ OwnerInv /\ ToldOnlyWhileOwned /\ [Next]_vars
      => OwnerInv' /\ ToldOnlyWhileOwned'
  BY StepKeepsOwner
<1> QED
  BY <1>1, <1>2, TypeCorrect, PTL DEF Spec

=============================================================================
