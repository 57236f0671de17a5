----------------------------- MODULE BackfillProofs -----------------------------
(***************************************************************************)
(* Proofs about Backfill, for any number of requests and chats and every   *)
(* capacity of the channel.                                                *)
(*                                                                         *)
(* All rests on LockInv, requestMu held from the anchor to the verdict.    *)
(* With SentInv, which follows an answer from the send through the         *)
(* channel to the request that takes it, it gives NoStolenAnswer; with     *)
(* HandledInv it gives the refinement of OneVerdict.                       *)
(***************************************************************************)
EXTENDS Backfill, SequenceTheorems, TLAPS

Busy == {"anchor", "unready", "stable", "send", "sent", "wait", "judge"}

LockInv == \A c \in Requests : pc[c] \in Busy <=> mutex = c

AskedOnceSent ==
    \A r \in Requests : sync[r] # "none" => pc[r] \in {"sent", "wait", "judge", "done"}

ResultsSent == \A i \in 1..Len(results) : sync[results[i]] = "sent"

GotSent ==
    \A c \in Requests :
        pc[c] = "judge" =>
            got[c] \in Requests /\ sync[got[c]] = "sent" /\ chat[got[c]] = chat[c]

SentInv == AskedOnceSent /\ ResultsSent /\ GotSent

GoingDown == stage \in {"cancelled", "closed", "exit"}

HandledInv ==
    \A r \in Requests : sync[r] \in {"send", "sent"} => r \in ingested \/ GoingDown

(* An answer that must be in the channel.                                  *)
Early(r) == pc[r] \in {"sent", "wait"} /\ sync[r] = "sent" /\ r \notin empty

StillSent == \A r \in Requests : sync[r] = "sent" => sync'[r] = "sent"

NoneOld == \A r \in Requests : Early(r)' => Early(r) \/ SendResult(r)

Inv == TypeOK /\ LockInv /\ SentInv /\ HandledInv /\ EarlyAnswerKept

LEMMA StepKinds ==
    ASSUME [Next]_vars
    PROVE  \/ UNCHANGED vars
           \/ \E c \in Requests, j \in Chats : Arrive(c, j)
           \/ \E c \in Requests :
                 \/ HangUp(c) \/ Lock(c) \/ ResolveAnchor(c) \/ PollReady(c) \/ GiveUp(c)
                 \/ Send(c) \/ EmitSent(c) \/ Receive(c) \/ StopWaiting(c) \/ Judge(c)
                 \/ Answer(c) \/ Ingest(c) \/ SendResult(c)
           \/ ChangeConnection \/ Shutdown \/ CloseResults
  BY DEF Next, Request, Sync, Exited

LEMMA ResultsAfter ==
    ASSUME NEW q \in Seq(Requests), Len(q) <= ResultCap
    PROVE  /\ \A r \in Requests : Append(q, r) \in Seq(Requests)
           /\ \A r \in Requests : Len(q) < ResultCap => Len(Append(q, r)) <= ResultCap
           /\ q # << >> => /\ Head(q) \in Requests /\ Tail(q) \in Seq(Requests)
                           /\ Len(Tail(q)) <= ResultCap
<1>1. Len(q) \in Nat /\ ResultCap \in Nat
  BY CapAssumption, LenProperties
<1>2. \A r \in Requests : Append(q, r) \in Seq(Requests) /\ Len(Append(q, r)) = Len(q) + 1
  BY AppendProperties
<1>3. q # << >> => /\ Head(q) \in Requests /\ Tail(q) \in Seq(Requests)
                   /\ Len(Tail(q)) = Len(q) - 1
  BY HeadTailProperties
<1> QED
  BY <1>1, <1>2, <1>3

LEMMA ElementsAfter ==
    ASSUME NEW q \in Seq(Requests)
    PROVE  /\ \A r \in Requests :
                 /\ \A i \in 1..Len(Append(q, r)) :
                       Append(q, r)[i] = r \/ \E k \in 1..Len(q) : Append(q, r)[i] = q[k]
                 /\ \E i \in 1..Len(Append(q, r)) : Append(q, r)[i] = r
                 /\ \A k \in 1..Len(q) : \E i \in 1..Len(Append(q, r)) : Append(q, r)[i] = q[k]
           /\ q # << >> =>
                 /\ \A i \in 1..Len(Tail(q)) : \E k \in 1..Len(q) : Tail(q)[i] = q[k]
                 /\ \A k \in 1..Len(q) :
                       q[k] = Head(q) \/ \E i \in 1..Len(Tail(q)) : Tail(q)[i] = q[k]
                 /\ \E k \in 1..Len(q) : q[k] = Head(q)
<1>1. Len(q) \in Nat
  BY LenProperties
<1>2. ASSUME NEW r \in Requests
      PROVE  /\ Len(Append(q, r)) = Len(q) + 1
             /\ \A i \in 1..Len(q) : Append(q, r)[i] = q[i]
             /\ Append(q, r)[Len(q) + 1] = r
  BY AppendProperties
<1>3. ASSUME q # << >>
      PROVE  /\ Len(Tail(q)) = Len(q) - 1
             /\ \A i \in 1..Len(Tail(q)) : Tail(q)[i] = q[i + 1]
             /\ Head(q) = q[1]
             /\ Len(q) > 0
  BY <1>3, HeadTailProperties, EmptySeq
<1>4. ASSUME NEW r \in Requests
      PROVE  /\ \A i \in 1..Len(Append(q, r)) :
                   Append(q, r)[i] = r \/ \E k \in 1..Len(q) : Append(q, r)[i] = q[k]
             /\ \E i \in 1..Len(Append(q, r)) : Append(q, r)[i] = r
             /\ \A k \in 1..Len(q) : \E i \in 1..Len(Append(q, r)) : Append(q, r)[i] = q[k]
  BY <1>1, <1>2
<1>5. ASSUME q # << >>
      PROVE  /\ \A i \in 1..Len(Tail(q)) : \E k \in 1..Len(q) : Tail(q)[i] = q[k]
             /\ \A k \in 1..Len(q) :
                   q[k] = Head(q) \/ \E i \in 1..Len(Tail(q)) : Tail(q)[i] = q[k]
             /\ \E k \in 1..Len(q) : q[k] = Head(q)
  <2>1. \A i \in 1..Len(Tail(q)) : i + 1 \in 1..Len(q) /\ Tail(q)[i] = q[i + 1]
    BY <1>1, <1>3, <1>5
  <2>2. \A k \in 1..Len(q) : k = 1 \/ (k - 1 \in 1..Len(Tail(q)) /\ Tail(q)[k - 1] = q[k])
    BY <1>1, <1>3, <1>5
  <2>3. 1 \in 1..Len(q) /\ q[1] = Head(q)
    BY <1>1, <1>3, <1>5
  <2> QED
    BY <2>1, <2>2, <2>3
<1> QED
  BY <1>4, <1>5

Plain ==
    /\ chat \in [Requests -> Chats \cup {None}] /\ pc \in [Requests -> PCs]
    /\ verdict \in [Requests -> Verdicts \cup {None}]
    /\ mutex \in Requests \cup {None} /\ gone \subseteq Requests
    /\ sync \in [Requests -> SyncPCs] /\ empty \subseteq Requests
    /\ got \in [Requests -> Requests \cup {None}] /\ online \in BOOLEAN
    /\ stage \in Stages /\ ingested \subseteq Requests

LEMMA InitInv == Init => Inv
<1> SUFFICES ASSUME Init PROVE Inv
  OBVIOUS
<1>1. Plain
  BY DEF Init, Plain, PCs, SyncPCs, Stages
<1>2. results \in Seq(Requests) /\ Len(results) <= ResultCap
  BY EmptySeq, CapAssumption DEF Init
<1>3. TypeOK
  BY <1>1, <1>2 DEF TypeOK, Plain
<1>4. LockInv
  BY NoneAssumption DEF Init, LockInv, Busy
<1>5. SentInv
  <2>1. Len(results) = 0
    BY EmptySeq DEF Init
  <2>2. ResultsSent
    BY <2>1 DEF ResultsSent
  <2> QED
    BY <2>2 DEF Init, SentInv, AskedOnceSent, GotSent
<1>6. HandledInv /\ EarlyAnswerKept
  BY DEF Init, HandledInv, EarlyAnswerKept
<1> QED
  BY <1>3, <1>4, <1>5, <1>6 DEF Inv

LEMMA StepPlain == TypeOK /\ [Next]_vars => Plain'
<1> SUFFICES ASSUME TypeOK, [Next]_vars PROVE Plain'
  OBVIOUS
<1> USE DEF Plain, PCs, SyncPCs, Stages, Verdicts
<1>i. Plain
  BY DEF TypeOK, Plain
<1>1. CASE UNCHANGED vars
  BY <1>1, <1>i DEF vars
<1>2. ASSUME NEW c \in Requests, NEW j \in Chats, Arrive(c, j) PROVE Plain'
  BY <1>2, <1>i DEF Arrive, GoTo, End, answers, daemon
<1>3. ASSUME NEW c \in Requests, HangUp(c) PROVE Plain'
  BY <1>3, <1>i DEF HangUp, answers, daemon
<1>4. ASSUME NEW c \in Requests, Lock(c) PROVE Plain'
  BY <1>4, <1>i DEF Lock, GoTo, answers, daemon
<1>5. ASSUME NEW c \in Requests, ResolveAnchor(c) PROVE Plain'
  BY <1>5, <1>i DEF ResolveAnchor, GoTo, Fail, End, held, answers, daemon
<1>6. ASSUME NEW c \in Requests, PollReady(c) PROVE Plain'
  BY <1>6, <1>i DEF PollReady, GoTo, held, answers, daemon
<1>7. ASSUME NEW c \in Requests, GiveUp(c) PROVE Plain'
  BY <1>7, <1>i DEF GiveUp, Fail, End, GoTo, answers, daemon
<1>8. ASSUME NEW c \in Requests, Send(c) PROVE Plain'
  BY <1>8, <1>i DEF Send, GoTo, Fail, End, held, daemon
<1>9. ASSUME NEW c \in Requests, EmitSent(c) PROVE Plain'
  BY <1>9, <1>i DEF EmitSent, GoTo, Fail, End, held, answers, daemon
<1>10. ASSUME NEW c \in Requests, Receive(c) PROVE Plain'
  <2>1. results # << >> => Head(results) \in Requests
    BY ResultsAfter DEF TypeOK
  <2> QED
    BY <2>1, <1>10, <1>i DEF Receive, GoTo, answers, daemon

<1>11. ASSUME NEW c \in Requests, StopWaiting(c) PROVE Plain'
  BY <1>11, <1>i DEF StopWaiting, End, GoTo, answers, daemon
<1>12. ASSUME NEW c \in Requests, Judge(c) PROVE Plain'
  BY <1>12, <1>i DEF Judge, End, GoTo, answers, daemon
<1>13. ASSUME NEW c \in Requests, Answer(c) PROVE Plain'
  BY <1>13, <1>i DEF Answer, held, daemon
<1>14. ASSUME NEW c \in Requests, Ingest(c) PROVE Plain'
  BY <1>14, <1>i DEF Ingest, held, daemon
<1>15. ASSUME NEW c \in Requests, SendResult(c) PROVE Plain'
  BY <1>15, <1>i DEF SendResult, held, daemon
<1>16. CASE ChangeConnection
  BY <1>16, <1>i DEF ChangeConnection, held, answers
<1>17. CASE Shutdown
  BY <1>17, <1>i DEF Shutdown, held, answers
<1>18. CASE CloseResults
  BY <1>18, <1>i DEF CloseResults, held, answers
<1> QED
  BY <1>1, <1>2, <1>3, <1>4, <1>5, <1>6, <1>7, <1>8, <1>9, <1>10, <1>11, <1>12, <1>13, <1>14,
       <1>15, <1>16, <1>17, <1>18, StepKinds

LEMMA ResultsChange ==
    ASSUME [Next]_vars
    PROVE  \/ UNCHANGED results
           \/ \E c \in Requests : Receive(c) \/ SendResult(c)
  BY StepKinds
     DEF vars, Arrive, HangUp, Lock, ResolveAnchor, PollReady, GiveUp, Send, EmitSent,
         StopWaiting, Judge, Answer, Ingest, ChangeConnection, Shutdown, CloseResults

LEMMA StepResults ==
    TypeOK /\ [Next]_vars => results' \in Seq(Requests) /\ Len(results') <= ResultCap
<1> SUFFICES ASSUME TypeOK, [Next]_vars
    PROVE  results' \in Seq(Requests) /\ Len(results') <= ResultCap
  OBVIOUS
<1>i. results \in Seq(Requests) /\ Len(results) <= ResultCap
  BY DEF TypeOK
<1>1. ASSUME NEW c \in Requests, Receive(c)
      PROVE  results' \in Seq(Requests) /\ Len(results') <= ResultCap
  <2>1. results # << >> /\ results' = Tail(results)
    BY <1>1 DEF Receive
  <2> QED
    BY <1>i, <2>1, ResultsAfter
<1>2. ASSUME NEW c \in Requests, SendResult(c)
      PROVE  results' \in Seq(Requests) /\ Len(results') <= ResultCap
  <2>1. \/ Len(results) < ResultCap /\ results' = Append(results, c)
        \/ results' = results
    BY <1>2 DEF SendResult
  <2> QED
    BY <1>i, <2>1, ResultsAfter
<1>3. CASE UNCHANGED results
  BY <1>3, <1>i
<1> QED
  BY <1>1, <1>2, <1>3, ResultsChange

LEMMA StepTyped == TypeOK /\ [Next]_vars => TypeOK'
  BY StepPlain, StepResults DEF TypeOK, Plain

LEMMA StepLock == TypeOK /\ LockInv /\ [Next]_vars => LockInv'
<1> SUFFICES ASSUME TypeOK, LockInv, [Next]_vars PROVE LockInv'
  OBVIOUS
<1> USE DEF LockInv, Busy
<1>i. pc \in [Requests -> PCs] /\ mutex \in Requests \cup {None} /\ LockInv
  BY DEF TypeOK
<1>n. None \notin Requests
  BY NoneAssumption
<1>1. CASE UNCHANGED vars
  BY <1>1, <1>i, <1>n DEF vars
<1>2. ASSUME NEW c \in Requests, NEW j \in Chats, Arrive(c, j) PROVE LockInv'
  BY <1>2, <1>i, <1>n DEF Arrive, GoTo, End, answers, daemon
<1>3. ASSUME NEW c \in Requests, HangUp(c) PROVE LockInv'
  BY <1>3, <1>i, <1>n DEF HangUp, answers, daemon
<1>4. ASSUME NEW c \in Requests, Lock(c) PROVE LockInv'
  BY <1>4, <1>i, <1>n DEF Lock, GoTo, answers, daemon
<1>5. ASSUME NEW c \in Requests, ResolveAnchor(c) PROVE LockInv'
  BY <1>5, <1>i, <1>n DEF ResolveAnchor, GoTo, Fail, End, held, answers, daemon
<1>6. ASSUME NEW c \in Requests, PollReady(c) PROVE LockInv'
  BY <1>6, <1>i, <1>n DEF PollReady, GoTo, held, answers, daemon
<1>7. ASSUME NEW c \in Requests, GiveUp(c) PROVE LockInv'
  BY <1>7, <1>i, <1>n DEF GiveUp, Fail, End, GoTo, answers, daemon
<1>8. ASSUME NEW c \in Requests, Send(c) PROVE LockInv'
  BY <1>8, <1>i, <1>n DEF Send, GoTo, Fail, End, held, daemon
<1>9. ASSUME NEW c \in Requests, EmitSent(c) PROVE LockInv'
  BY <1>9, <1>i, <1>n DEF EmitSent, GoTo, Fail, End, held, answers, daemon
<1>10. ASSUME NEW c \in Requests, Receive(c) PROVE LockInv'
  BY <1>10, <1>i, <1>n DEF Receive, GoTo, Matches, answers, daemon
<1>11. ASSUME NEW c \in Requests, StopWaiting(c) PROVE LockInv'
  BY <1>11, <1>i, <1>n DEF StopWaiting, End, GoTo, answers, daemon
<1>12. ASSUME NEW c \in Requests, Judge(c) PROVE LockInv'
  BY <1>12, <1>i, <1>n DEF Judge, End, GoTo, answers, daemon
<1>13. ASSUME NEW c \in Requests, Answer(c) PROVE LockInv'
  BY <1>13, <1>i, <1>n DEF Answer, held, daemon
<1>14. ASSUME NEW c \in Requests, Ingest(c) PROVE LockInv'
  BY <1>14, <1>i, <1>n DEF Ingest, held, daemon
<1>15. ASSUME NEW c \in Requests, SendResult(c) PROVE LockInv'
  BY <1>15, <1>i, <1>n DEF SendResult, held, daemon
<1>16. CASE ChangeConnection
  BY <1>16, <1>i, <1>n DEF ChangeConnection, held, answers
<1>17. CASE Shutdown
  BY <1>17, <1>i, <1>n DEF Shutdown, held, answers
<1>18. CASE CloseResults
  BY <1>18, <1>i, <1>n DEF CloseResults, held, answers
<1> QED
  BY <1>1, <1>2, <1>3, <1>4, <1>5, <1>6, <1>7, <1>8, <1>9, <1>10, <1>11, <1>12, <1>13, <1>14,
       <1>15, <1>16, <1>17, <1>18, StepKinds

LEMMA StepAsked == TypeOK /\ AskedOnceSent /\ [Next]_vars => AskedOnceSent'
<1> SUFFICES ASSUME TypeOK, AskedOnceSent, [Next]_vars PROVE AskedOnceSent'
  OBVIOUS
<1> USE DEF AskedOnceSent
<1>i. /\ pc \in [Requests -> PCs] /\ sync \in [Requests -> SyncPCs]
      /\ AskedOnceSent
  BY DEF TypeOK
<1>1. CASE UNCHANGED vars
  BY <1>1, <1>i DEF vars
<1>2. ASSUME NEW c \in Requests, NEW j \in Chats, Arrive(c, j) PROVE AskedOnceSent'
  BY <1>2, <1>i DEF Arrive, GoTo, End, answers, daemon
<1>3. ASSUME NEW c \in Requests, HangUp(c) PROVE AskedOnceSent'
  BY <1>3, <1>i DEF HangUp, answers, daemon
<1>4. ASSUME NEW c \in Requests, Lock(c) PROVE AskedOnceSent'
  BY <1>4, <1>i DEF Lock, GoTo, answers, daemon
<1>5. ASSUME NEW c \in Requests, ResolveAnchor(c) PROVE AskedOnceSent'
  BY <1>5, <1>i DEF ResolveAnchor, GoTo, Fail, End, held, answers, daemon
<1>6. ASSUME NEW c \in Requests, PollReady(c) PROVE AskedOnceSent'
  BY <1>6, <1>i DEF PollReady, GoTo, held, answers, daemon
<1>7. ASSUME NEW c \in Requests, GiveUp(c) PROVE AskedOnceSent'
  BY <1>7, <1>i DEF GiveUp, Fail, End, GoTo, answers, daemon
<1>8. ASSUME NEW c \in Requests, Send(c) PROVE AskedOnceSent'
  BY <1>8, <1>i DEF Send, GoTo, Fail, End, held, daemon
<1>9. ASSUME NEW c \in Requests, EmitSent(c) PROVE AskedOnceSent'
  BY <1>9, <1>i DEF EmitSent, GoTo, Fail, End, held, answers, daemon
<1>10. ASSUME NEW c \in Requests, Receive(c) PROVE AskedOnceSent'
  BY <1>10, <1>i DEF Receive, GoTo, Matches, answers, daemon
<1>11. ASSUME NEW c \in Requests, StopWaiting(c) PROVE AskedOnceSent'
  BY <1>11, <1>i DEF StopWaiting, End, GoTo, answers, daemon
<1>12. ASSUME NEW c \in Requests, Judge(c) PROVE AskedOnceSent'
  BY <1>12, <1>i DEF Judge, End, GoTo, answers, daemon
<1>13. ASSUME NEW c \in Requests, Answer(c) PROVE AskedOnceSent'
  BY <1>13, <1>i DEF Answer, held, daemon
<1>14. ASSUME NEW c \in Requests, Ingest(c) PROVE AskedOnceSent'
  BY <1>14, <1>i DEF Ingest, held, daemon
<1>15. ASSUME NEW c \in Requests, SendResult(c) PROVE AskedOnceSent'
  BY <1>15, <1>i DEF SendResult, held, daemon
<1>16. CASE ChangeConnection
  BY <1>16, <1>i DEF ChangeConnection, held, answers
<1>17. CASE Shutdown
  BY <1>17, <1>i DEF Shutdown, held, answers
<1>18. CASE CloseResults
  BY <1>18, <1>i DEF CloseResults, held, answers
<1> QED
  BY <1>1, <1>2, <1>3, <1>4, <1>5, <1>6, <1>7, <1>8, <1>9, <1>10, <1>11, <1>12, <1>13, <1>14,
       <1>15, <1>16, <1>17, <1>18, StepKinds

LEMMA SentStays == TypeOK /\ AskedOnceSent /\ [Next]_vars => StillSent
<1> SUFFICES ASSUME TypeOK, AskedOnceSent, [Next]_vars PROVE StillSent
  OBVIOUS
<1> USE DEF AskedOnceSent, StillSent
<1>i. /\ pc \in [Requests -> PCs] /\ sync \in [Requests -> SyncPCs]
      /\ AskedOnceSent
  BY DEF TypeOK
<1>1. CASE UNCHANGED vars
  BY <1>1, <1>i DEF vars
<1>2. ASSUME NEW c \in Requests, NEW j \in Chats, Arrive(c, j) PROVE StillSent
  BY <1>2, <1>i DEF Arrive, GoTo, End, answers, daemon
<1>3. ASSUME NEW c \in Requests, HangUp(c) PROVE StillSent
  BY <1>3, <1>i DEF HangUp, answers, daemon
<1>4. ASSUME NEW c \in Requests, Lock(c) PROVE StillSent
  BY <1>4, <1>i DEF Lock, GoTo, answers, daemon
<1>5. ASSUME NEW c \in Requests, ResolveAnchor(c) PROVE StillSent
  BY <1>5, <1>i DEF ResolveAnchor, GoTo, Fail, End, held, answers, daemon
<1>6. ASSUME NEW c \in Requests, PollReady(c) PROVE StillSent
  BY <1>6, <1>i DEF PollReady, GoTo, held, answers, daemon
<1>7. ASSUME NEW c \in Requests, GiveUp(c) PROVE StillSent
  BY <1>7, <1>i DEF GiveUp, Fail, End, GoTo, answers, daemon
<1>8. ASSUME NEW c \in Requests, Send(c) PROVE StillSent
  BY <1>8, <1>i DEF Send, GoTo, Fail, End, held, daemon
<1>9. ASSUME NEW c \in Requests, EmitSent(c) PROVE StillSent
  BY <1>9, <1>i DEF EmitSent, GoTo, Fail, End, held, answers, daemon
<1>10. ASSUME NEW c \in Requests, Receive(c) PROVE StillSent
  BY <1>10, <1>i DEF Receive, GoTo, Matches, answers, daemon
<1>11. ASSUME NEW c \in Requests, StopWaiting(c) PROVE StillSent
  BY <1>11, <1>i DEF StopWaiting, End, GoTo, answers, daemon
<1>12. ASSUME NEW c \in Requests, Judge(c) PROVE StillSent
  BY <1>12, <1>i DEF Judge, End, GoTo, answers, daemon
<1>13. ASSUME NEW c \in Requests, Answer(c) PROVE StillSent
  BY <1>13, <1>i DEF Answer, held, daemon
<1>14. ASSUME NEW c \in Requests, Ingest(c) PROVE StillSent
  BY <1>14, <1>i DEF Ingest, held, daemon
<1>15. ASSUME NEW c \in Requests, SendResult(c) PROVE StillSent
  BY <1>15, <1>i DEF SendResult, held, daemon
<1>16. CASE ChangeConnection
  BY <1>16, <1>i DEF ChangeConnection, held, answers
<1>17. CASE Shutdown
  BY <1>17, <1>i DEF Shutdown, held, answers
<1>18. CASE CloseResults
  BY <1>18, <1>i DEF CloseResults, held, answers
<1> QED
  BY <1>1, <1>2, <1>3, <1>4, <1>5, <1>6, <1>7, <1>8, <1>9, <1>10, <1>11, <1>12, <1>13, <1>14,
       <1>15, <1>16, <1>17, <1>18, StepKinds

LEMMA StepResultsSent == TypeOK /\ AskedOnceSent /\ ResultsSent /\ [Next]_vars => ResultsSent'
<1> SUFFICES ASSUME TypeOK, AskedOnceSent, ResultsSent, [Next]_vars PROVE ResultsSent'
  OBVIOUS
<1>i. results \in Seq(Requests) /\ sync \in [Requests -> SyncPCs]
  BY DEF TypeOK
<1>e. \A k \in 1..Len(results) : results[k] \in Requests /\ sync'[results[k]] = "sent"
  BY <1>i, ElementOfSeq, SentStays DEF ResultsSent, StillSent
<1>1. ASSUME NEW c \in Requests, Receive(c) PROVE ResultsSent'
  <2>1. results # << >> /\ results' = Tail(results)
    BY <1>1 DEF Receive
  <2>2. \A i \in 1..Len(results') : \E k \in 1..Len(results) : results'[i] = results[k]
    BY <1>i, <2>1, ElementsAfter
  <2> QED
    BY <1>e, <2>2 DEF ResultsSent
<1>2. ASSUME NEW c \in Requests, SendResult(c) PROVE ResultsSent'
  <2>1. CASE results' = Append(results, c) /\ sync' = [sync EXCEPT ![c] = "sent"]
    <3>1. \A i \in 1..Len(results') :
             results'[i] = c \/ \E k \in 1..Len(results) : results'[i] = results[k]
      BY <1>i, <2>1, ElementsAfter
    <3>2. sync'[c] = "sent"
      BY <1>i, <2>1
    <3> QED
      BY <1>e, <3>1, <3>2 DEF ResultsSent
  <2>2. CASE results' = results
    BY <1>e, <2>2 DEF ResultsSent
  <2> QED
    BY <1>2, <2>1, <2>2 DEF SendResult
<1>3. CASE UNCHANGED results
  BY <1>3, <1>e DEF ResultsSent
<1> QED
  BY <1>1, <1>2, <1>3, ResultsChange

LEMMA StepGot == TypeOK /\ AskedOnceSent /\ ResultsSent /\ GotSent /\ [Next]_vars => GotSent'
<1> SUFFICES ASSUME TypeOK, AskedOnceSent, ResultsSent, GotSent, [Next]_vars PROVE GotSent'
  OBVIOUS
<1> USE DEF GotSent, AskedOnceSent
<1>i. /\ pc \in [Requests -> PCs] /\ chat \in [Requests -> Chats \cup {None}]
      /\ got \in [Requests -> Requests \cup {None}] /\ GotSent /\ AskedOnceSent
  BY DEF TypeOK
<1>s. \A r \in Requests : sync[r] = "sent" => sync'[r] = "sent"
  BY SentStays DEF StillSent
<1>1. CASE UNCHANGED vars
  BY <1>1, <1>i, <1>s DEF vars
<1>2. ASSUME NEW c \in Requests, NEW j \in Chats, Arrive(c, j) PROVE GotSent'
  BY <1>2, <1>i, <1>s DEF Arrive, GoTo, End, answers, daemon
<1>3. ASSUME NEW c \in Requests, HangUp(c) PROVE GotSent'
  BY <1>3, <1>i, <1>s DEF HangUp, answers, daemon
<1>4. ASSUME NEW c \in Requests, Lock(c) PROVE GotSent'
  BY <1>4, <1>i, <1>s DEF Lock, GoTo, answers, daemon
<1>5. ASSUME NEW c \in Requests, ResolveAnchor(c) PROVE GotSent'
  BY <1>5, <1>i, <1>s DEF ResolveAnchor, GoTo, Fail, End, held, answers, daemon
<1>6. ASSUME NEW c \in Requests, PollReady(c) PROVE GotSent'
  BY <1>6, <1>i, <1>s DEF PollReady, GoTo, held, answers, daemon
<1>7. ASSUME NEW c \in Requests, GiveUp(c) PROVE GotSent'
  BY <1>7, <1>i, <1>s DEF GiveUp, Fail, End, GoTo, answers, daemon
<1>8. ASSUME NEW c \in Requests, Send(c) PROVE GotSent'
  BY <1>8, <1>i, <1>s DEF Send, GoTo, Fail, End, held, daemon
<1>9. ASSUME NEW c \in Requests, EmitSent(c) PROVE GotSent'
  BY <1>9, <1>i, <1>s DEF EmitSent, GoTo, Fail, End, held, answers, daemon
<1>10. ASSUME NEW c \in Requests, Receive(c) PROVE GotSent'
  <2>1. results # << >> => Head(results) \in Requests /\ sync[Head(results)] = "sent"
    <3>1. results \in Seq(Requests)
      BY DEF TypeOK
    <3> QED
      BY <3>1, ResultsAfter, ElementsAfter DEF TypeOK, ResultsSent
  <2> QED
    BY <2>1, <1>10, <1>i, <1>s DEF Receive, GoTo, Matches, answers, daemon

<1>11. ASSUME NEW c \in Requests, StopWaiting(c) PROVE GotSent'
  BY <1>11, <1>i, <1>s DEF StopWaiting, End, GoTo, answers, daemon
<1>12. ASSUME NEW c \in Requests, Judge(c) PROVE GotSent'
  BY <1>12, <1>i, <1>s DEF Judge, End, GoTo, answers, daemon
<1>13. ASSUME NEW c \in Requests, Answer(c) PROVE GotSent'
  BY <1>13, <1>i, <1>s DEF Answer, held, daemon
<1>14. ASSUME NEW c \in Requests, Ingest(c) PROVE GotSent'
  BY <1>14, <1>i, <1>s DEF Ingest, held, daemon
<1>15. ASSUME NEW c \in Requests, SendResult(c) PROVE GotSent'
  BY <1>15, <1>i, <1>s DEF SendResult, held, daemon
<1>16. CASE ChangeConnection
  BY <1>16, <1>i, <1>s DEF ChangeConnection, held, answers
<1>17. CASE Shutdown
  BY <1>17, <1>i, <1>s DEF Shutdown, held, answers
<1>18. CASE CloseResults
  BY <1>18, <1>i, <1>s DEF CloseResults, held, answers
<1> QED
  BY <1>1, <1>2, <1>3, <1>4, <1>5, <1>6, <1>7, <1>8, <1>9, <1>10, <1>11, <1>12, <1>13, <1>14,
       <1>15, <1>16, <1>17, <1>18, StepKinds

LEMMA StepHandled == TypeOK /\ HandledInv /\ [Next]_vars => HandledInv'
<1> SUFFICES ASSUME TypeOK, HandledInv, [Next]_vars PROVE HandledInv'
  OBVIOUS
<1> USE DEF HandledInv, GoingDown, Stages
<1>i. /\ sync \in [Requests -> SyncPCs] /\ stage \in Stages /\ ingested \subseteq Requests
      /\ HandledInv
  BY DEF TypeOK
<1>1. CASE UNCHANGED vars
  BY <1>1, <1>i DEF vars
<1>2. ASSUME NEW c \in Requests, NEW j \in Chats, Arrive(c, j) PROVE HandledInv'
  BY <1>2, <1>i DEF Arrive, GoTo, End, answers, daemon
<1>3. ASSUME NEW c \in Requests, HangUp(c) PROVE HandledInv'
  BY <1>3, <1>i DEF HangUp, answers, daemon
<1>4. ASSUME NEW c \in Requests, Lock(c) PROVE HandledInv'
  BY <1>4, <1>i DEF Lock, GoTo, answers, daemon
<1>5. ASSUME NEW c \in Requests, ResolveAnchor(c) PROVE HandledInv'
  BY <1>5, <1>i DEF ResolveAnchor, GoTo, Fail, End, held, answers, daemon
<1>6. ASSUME NEW c \in Requests, PollReady(c) PROVE HandledInv'
  BY <1>6, <1>i DEF PollReady, GoTo, held, answers, daemon
<1>7. ASSUME NEW c \in Requests, GiveUp(c) PROVE HandledInv'
  BY <1>7, <1>i DEF GiveUp, Fail, End, GoTo, answers, daemon
<1>8. ASSUME NEW c \in Requests, Send(c) PROVE HandledInv'
  BY <1>8, <1>i DEF Send, GoTo, Fail, End, held, daemon
<1>9. ASSUME NEW c \in Requests, EmitSent(c) PROVE HandledInv'
  BY <1>9, <1>i DEF EmitSent, GoTo, Fail, End, held, answers, daemon
<1>10. ASSUME NEW c \in Requests, Receive(c) PROVE HandledInv'
  BY <1>10, <1>i DEF Receive, GoTo, Matches, answers, daemon
<1>11. ASSUME NEW c \in Requests, StopWaiting(c) PROVE HandledInv'
  BY <1>11, <1>i DEF StopWaiting, End, GoTo, answers, daemon
<1>12. ASSUME NEW c \in Requests, Judge(c) PROVE HandledInv'
  BY <1>12, <1>i DEF Judge, End, GoTo, answers, daemon
<1>13. ASSUME NEW c \in Requests, Answer(c) PROVE HandledInv'
  BY <1>13, <1>i DEF Answer, held, daemon
<1>14. ASSUME NEW c \in Requests, Ingest(c) PROVE HandledInv'
  BY <1>14, <1>i DEF Ingest, held, daemon
<1>15. ASSUME NEW c \in Requests, SendResult(c) PROVE HandledInv'
  BY <1>15, <1>i DEF SendResult, held, daemon
<1>16. CASE ChangeConnection
  BY <1>16, <1>i DEF ChangeConnection, held, answers
<1>17. CASE Shutdown
  BY <1>17, <1>i DEF Shutdown, held, answers
<1>18. CASE CloseResults
  BY <1>18, <1>i DEF CloseResults, held, answers
<1> QED
  BY <1>1, <1>2, <1>3, <1>4, <1>5, <1>6, <1>7, <1>8, <1>9, <1>10, <1>11, <1>12, <1>13, <1>14,
       <1>15, <1>16, <1>17, <1>18, StepKinds

LEMMA EarlyBefore == TypeOK /\ [Next]_vars => NoneOld
<1> SUFFICES ASSUME TypeOK, [Next]_vars PROVE NoneOld
  OBVIOUS
<1> USE DEF Early, NoneOld
<1>i. /\ pc \in [Requests -> PCs] /\ sync \in [Requests -> SyncPCs]
  BY DEF TypeOK
<1>1. CASE UNCHANGED vars
  BY <1>1, <1>i DEF vars
<1>2. ASSUME NEW c \in Requests, NEW j \in Chats, Arrive(c, j) PROVE NoneOld
  BY <1>2, <1>i DEF Arrive, GoTo, End, answers, daemon
<1>3. ASSUME NEW c \in Requests, HangUp(c) PROVE NoneOld
  BY <1>3, <1>i DEF HangUp, answers, daemon
<1>4. ASSUME NEW c \in Requests, Lock(c) PROVE NoneOld
  BY <1>4, <1>i DEF Lock, GoTo, answers, daemon
<1>5. ASSUME NEW c \in Requests, ResolveAnchor(c) PROVE NoneOld
  BY <1>5, <1>i DEF ResolveAnchor, GoTo, Fail, End, held, answers, daemon
<1>6. ASSUME NEW c \in Requests, PollReady(c) PROVE NoneOld
  BY <1>6, <1>i DEF PollReady, GoTo, held, answers, daemon
<1>7. ASSUME NEW c \in Requests, GiveUp(c) PROVE NoneOld
  BY <1>7, <1>i DEF GiveUp, Fail, End, GoTo, answers, daemon
<1>8. ASSUME NEW c \in Requests, Send(c) PROVE NoneOld
  BY <1>8, <1>i DEF Send, GoTo, Fail, End, held, daemon
<1>9. ASSUME NEW c \in Requests, EmitSent(c) PROVE NoneOld
  BY <1>9, <1>i DEF EmitSent, GoTo, Fail, End, held, answers, daemon
<1>10. ASSUME NEW c \in Requests, Receive(c) PROVE NoneOld
  BY <1>10, <1>i DEF Receive, GoTo, Matches, answers, daemon
<1>11. ASSUME NEW c \in Requests, StopWaiting(c) PROVE NoneOld
  BY <1>11, <1>i DEF StopWaiting, End, GoTo, answers, daemon
<1>12. ASSUME NEW c \in Requests, Judge(c) PROVE NoneOld
  BY <1>12, <1>i DEF Judge, End, GoTo, answers, daemon
<1>13. ASSUME NEW c \in Requests, Answer(c) PROVE NoneOld
  BY <1>13, <1>i DEF Answer, held, daemon
<1>14. ASSUME NEW c \in Requests, Ingest(c) PROVE NoneOld
  BY <1>14, <1>i DEF Ingest, held, daemon
<1>15. ASSUME NEW c \in Requests, SendResult(c) PROVE NoneOld
  BY <1>15, <1>i DEF SendResult, held, daemon
<1>16. CASE ChangeConnection
  BY <1>16, <1>i DEF ChangeConnection, held, answers
<1>17. CASE Shutdown
  BY <1>17, <1>i DEF Shutdown, held, answers
<1>18. CASE CloseResults
  BY <1>18, <1>i DEF CloseResults, held, answers
<1> QED
  BY <1>1, <1>2, <1>3, <1>4, <1>5, <1>6, <1>7, <1>8, <1>9, <1>10, <1>11, <1>12, <1>13, <1>14,
       <1>15, <1>16, <1>17, <1>18, StepKinds

LEMMA StepEarly == TypeOK /\ LockInv /\ EarlyAnswerKept /\ [Next]_vars => EarlyAnswerKept'
<1> SUFFICES ASSUME TypeOK, LockInv, EarlyAnswerKept, [Next]_vars,
                    NEW r \in Requests, Early(r)'
             PROVE  \E i \in DOMAIN results' : results'[i] = r
  BY DEF EarlyAnswerKept, Early
<1>i. /\ results \in Seq(Requests) /\ pc \in [Requests -> PCs] /\ sync \in [Requests -> SyncPCs]
      /\ results' \in Seq(Requests) /\ empty \subseteq Requests
  BY StepTyped DEF TypeOK
<1>d. DOMAIN results = 1..Len(results) /\ DOMAIN results' = 1..Len(results')
  BY <1>i, LenProperties
<1>k. Early(r) => \E k \in 1..Len(results) : results[k] = r
  BY <1>d DEF EarlyAnswerKept, Early
<1>1. ASSUME NEW c \in Requests, SendResult(c) PROVE \E i \in DOMAIN results' : results'[i] = r
  <2>1. pc' = pc /\ empty' = empty
    BY <1>1 DEF SendResult
  <2>2. CASE results' = Append(results, c) /\ sync' = [sync EXCEPT ![c] = "sent"]
    <3>1. /\ \E i \in 1..Len(results') : results'[i] = c
          /\ \A k \in 1..Len(results) : \E i \in 1..Len(results') : results'[i] = results[k]
      BY <1>i, <2>2, ElementsAfter
    <3> QED
      BY <1>i, <1>d, <1>k, <2>1, <2>2, <3>1 DEF Early
  <2>3. CASE results' = results /\ sync' = [sync EXCEPT ![c] = "dropped"]
    BY <1>i, <1>d, <1>k, <2>1, <2>3 DEF Early
  <2> QED
    BY <1>1, <2>2, <2>3 DEF SendResult
<1>2. ASSUME NEW c \in Requests, Receive(c) PROVE \E i \in DOMAIN results' : results'[i] = r
  <2>1. results # << >> /\ results' = Tail(results) /\ sync' = sync /\ empty' = empty
    BY <1>2 DEF Receive, answers
  <2>2. \A k \in 1..Len(results) :
           results[k] = Head(results) \/ \E i \in 1..Len(results') : results'[i] = results[k]
    BY <1>i, <2>1, ElementsAfter
  <2>3. Early(r)
    BY <1>2, <1>i, <2>1 DEF Receive, GoTo, Early
  <2>4. r = c
    BY <1>2, <2>3 DEF LockInv, Busy, Receive, Early
  <2>5. Head(results) # r
    <3>1. ASSUME Head(results) = r PROVE FALSE
      <4>1. Matches(Head(results), c)
        BY <2>3, <2>4, <3>1 DEF Matches, Early
      <4>2. pc'[r] = "judge"
        BY <1>2, <1>i, <2>4, <4>1 DEF Receive, GoTo
      <4> QED
        BY <4>2 DEF Early
    <3> QED
      BY <3>1
  <2> QED
    BY <1>d, <1>k, <2>1, <2>2, <2>3, <2>5
<1>3. CASE UNCHANGED results
  <2>1. Early(r) \/ SendResult(r)
    BY EarlyBefore DEF NoneOld
  <2> QED
    BY <1>1, <1>3, <1>d, <1>k, <2>1
<1> QED
  BY <1>1, <1>2, <1>3, ResultsChange

LEMMA Invariance == Spec => []Inv
<1>1. Init => Inv
  BY InitInv
<1>2. Inv /\ [Next]_vars => Inv'
  BY StepTyped, StepLock, StepAsked, StepResultsSent, StepGot, StepHandled, StepEarly
     DEF Inv, SentInv
<1> QED
  BY <1>1, <1>2, PTL DEF Spec

(* Backfill keeps its types; the channel holds no more than its capacity   *)
(* (auth.go:176, 224-231).                                                 *)
THEOREM TypeCorrect == Spec => []TypeOK
<1>1. Inv => TypeOK
  BY DEF Inv
<1> QED
  BY <1>1, Invariance, PTL

(* An answer that another request takes is left over (control.go:222,      *)
(* backfill.go:565-586).                                                   *)
THEOREM NoneStolen == Spec => []NoStolenAnswer
<1>1. Inv => NoStolenAnswer
  <2> SUFFICES ASSUME Inv, NEW c \in Requests, pc[c] = "judge", got[c] # c
               PROVE  pc[got[c]] = "done"
    BY DEF NoStolenAnswer
  <2>1. got[c] \in Requests /\ sync[got[c]] = "sent"
    BY DEF Inv, SentInv, GotSent
  <2>2. pc[got[c]] \in {"sent", "wait", "judge", "done"}
    BY <2>1 DEF Inv, SentInv, AskedOnceSent
  <2>3. mutex = c /\ (pc[got[c]] \in Busy => mutex = got[c])
    BY <2>1 DEF Inv, LockInv, Busy
  <2> QED
    BY <2>2, <2>3 DEF Busy
<1> QED
  BY <1>1, Invariance, PTL

(* An answer that comes before its request waits is in the channel         *)
(* (auth.go:224-231, backfill.go:433-438).                                 *)
THEOREM EarlyKept == Spec => []EarlyAnswerKept
<1>1. Inv => EarlyAnswerKept
  BY DEF Inv
<1> QED
  BY <1>1, Invariance, PTL

-----------------------------------------------------------------------------
(* The refinement of OneVerdict.                                           *)
StateOf(p) == IF p \in {"idle", "queued", "done"} THEN p ELSE "served"

LEMMA Moves ==
    ASSUME TypeOK, NEW c \in Requests, NEW p, pc' = [pc EXCEPT ![c] = p]
    PROVE  Promise!Move(c, StateOf(pc[c]), StateOf(p))
  BY DEF TypeOK, Promise!Move, StateOf

LEMMA Rests ==
    ASSUME TypeOK, NEW c \in Requests, NEW p, pc' = [pc EXCEPT ![c] = p],
           StateOf(p) = StateOf(pc[c]), UNCHANGED <<chat, verdict, ingested, stage>>
    PROVE  UNCHANGED Promise!vars
<1>1. \A x \in Requests : StateOf(pc'[x]) = StateOf(pc[x])
  BY DEF TypeOK
<1> QED
  BY <1>1 DEF StateOf, Promise!vars

LEMMA Stutters ==
    ASSUME UNCHANGED <<pc, chat, verdict, ingested>>, GoingDown' = GoingDown
    PROVE  UNCHANGED Promise!vars
  BY DEF GoingDown, Promise!vars

LEMMA Concludes ==
    ASSUME TypeOK, NEW c \in Requests, NEW v \in Verdicts, End(c, v), StateOf(pc[c]) = "served",
           v = "VIABLE" => Promise!Viable(c), UNCHANGED <<chat, ingested, stage>>
    PROVE  Promise!Next
<1>1. Promise!Move(c, "served", "done")
  <2>1. Promise!Move(c, StateOf(pc[c]), StateOf("done"))
    BY Moves DEF End, GoTo
  <2> QED
    BY <2>1 DEF StateOf
<1>2. Promise!Conclude(c, v)
  BY <1>1 DEF Promise!Conclude, End
<1> QED
  BY <1>2 DEF Promise!Next, Verdicts

LEMMA PromiseStep == Inv /\ [Next]_vars => [Promise!Next]_(Promise!vars)
<1> SUFFICES ASSUME Inv, [Next]_vars PROVE [Promise!Next]_(Promise!vars)
  OBVIOUS
<1>t. TypeOK
  BY DEF Inv
<1>v. "ERROR" \in Verdicts /\ "UNAVAILABLE" \in Verdicts /\ "VIABLE" \in Verdicts
  BY DEF Verdicts
<1>1. CASE UNCHANGED vars
  BY <1>1, Stutters DEF vars, GoingDown
<1>2. ASSUME NEW c \in Requests, NEW j \in Chats, Arrive(c, j) PROVE Promise!Next
  <2>1. pc[c] = "idle" /\ Promise!Choose(c) /\ UNCHANGED <<ingested, stage>>
    BY <1>2 DEF Arrive, answers, daemon, Promise!Choose
  <2>2. CASE GoTo(c, "queued") /\ UNCHANGED verdict
    <3>1. Promise!Move(c, StateOf("idle"), StateOf("queued"))
      BY <1>t, <2>1, <2>2, Moves DEF GoTo
    <3>2. Promise!Ask(c)
      BY <2>1, <2>2, <3>1 DEF Promise!Ask, StateOf
    <3> QED
      BY <3>2 DEF Promise!Next
  <2>3. CASE End(c, "ERROR")
    <3>1. Promise!Move(c, StateOf("idle"), StateOf("done"))
      BY <1>t, <2>1, <2>3, Moves DEF End, GoTo
    <3>2. Promise!Refuse(c)
      BY <2>1, <2>3, <3>1 DEF Promise!Refuse, StateOf, End
    <3> QED
      BY <3>2 DEF Promise!Next
  <2> QED
    BY <1>2, <2>2, <2>3 DEF Arrive
<1>3. ASSUME NEW c \in Requests, HangUp(c) PROVE UNCHANGED Promise!vars
  BY <1>3, Stutters DEF HangUp, answers, daemon, GoingDown
<1>4. ASSUME NEW c \in Requests, Lock(c) PROVE Promise!Next
  <2>1. pc[c] = "queued" /\ pc' = [pc EXCEPT ![c] = "anchor"]
    BY <1>4 DEF Lock, GoTo
  <2>2. Promise!Move(c, StateOf("queued"), StateOf("anchor"))
    BY <1>t, <2>1, Moves
  <2>3. ASSUME NEW d \in Requests
        PROVE  StateOf(pc[d]) # "served"
    <3>1. pc[d] \notin Busy
      BY <1>4, NoneAssumption DEF Lock, Inv, LockInv
    <3>2. pc[d] \in PCs
      BY <1>t DEF TypeOK
    <3> QED
      BY <3>1, <3>2 DEF Busy, PCs, StateOf
  <2>4. Promise!Serve(c)
    BY <1>4, <2>2, <2>3 DEF Promise!Serve, StateOf, Lock, answers, daemon
  <2> QED
    BY <2>4 DEF Promise!Next
<1>5. ASSUME NEW c \in Requests, StateOf(pc[c]) = "served", Fail(c),
             UNCHANGED <<chat, ingested, stage>>
      PROVE  Promise!Next
  BY <1>5, <1>t, <1>v, Concludes DEF Fail
<1>6. ASSUME NEW c \in Requests, NEW p, StateOf(pc[c]) = "served", GoTo(c, p),
             StateOf(p) = "served", UNCHANGED <<chat, verdict, ingested, stage>>
      PROVE  UNCHANGED Promise!vars
  BY <1>6, <1>t, Rests DEF GoTo
<1>7. ASSUME NEW c \in Requests, ResolveAnchor(c) PROVE [Promise!Next]_(Promise!vars)
  BY <1>5, <1>6, <1>7 DEF ResolveAnchor, StateOf, held, answers, daemon
<1>8. ASSUME NEW c \in Requests, PollReady(c) PROVE [Promise!Next]_(Promise!vars)
  BY <1>6, <1>8 DEF PollReady, StateOf, held, answers, daemon
<1>9. ASSUME NEW c \in Requests, GiveUp(c) PROVE Promise!Next
  BY <1>5, <1>9 DEF GiveUp, StateOf, answers, daemon
<1>10. ASSUME NEW c \in Requests, Send(c) PROVE [Promise!Next]_(Promise!vars)
  BY <1>5, <1>6, <1>10 DEF Send, StateOf, held, daemon
<1>11. ASSUME NEW c \in Requests, EmitSent(c) PROVE [Promise!Next]_(Promise!vars)
  BY <1>5, <1>6, <1>11 DEF EmitSent, StateOf, held, answers, daemon
<1>12. ASSUME NEW c \in Requests, Receive(c) PROVE UNCHANGED Promise!vars
  <2>1. CASE GoTo(c, "judge")
    BY <1>6, <1>12, <2>1 DEF Receive, StateOf, answers, daemon
  <2>2. CASE UNCHANGED pc
    BY <1>12, <2>2, Stutters DEF Receive, answers, daemon, GoingDown
  <2> QED
    BY <1>12, <2>1, <2>2 DEF Receive
<1>13. ASSUME NEW c \in Requests, StopWaiting(c) PROVE Promise!Next
  <2>1. StateOf(pc[c]) = "served" /\ UNCHANGED <<chat, ingested, stage>>
    BY <1>13 DEF StopWaiting, StateOf, answers, daemon
  <2>2. End(c, "UNAVAILABLE") \/ End(c, "ERROR")
    BY <1>13 DEF StopWaiting
  <2> QED
    BY <1>t, <1>v, <2>1, <2>2, Concludes
<1>14. ASSUME NEW c \in Requests, Judge(c) PROVE Promise!Next
  <2>1. StateOf(pc[c]) = "served" /\ UNCHANGED <<chat, ingested, stage>>
    BY <1>14 DEF Judge, StateOf, answers, daemon
  <2>2. got[c] \in Requests /\ sync[got[c]] = "sent" /\ chat[got[c]] = chat[c]
    BY <1>14 DEF Judge, Inv, SentInv, GotSent
  <2>3. Promise!Viable(c)
    BY <2>2 DEF Inv, HandledInv, GoingDown, Promise!Viable
  <2>4. End(c, "VIABLE") \/ End(c, "UNAVAILABLE") \/ End(c, "ERROR")
    BY <1>14 DEF Judge
  <2> QED
    BY <1>t, <1>v, <2>1, <2>3, <2>4, Concludes
<1>15. ASSUME NEW r \in Requests, Answer(r) \/ SendResult(r) PROVE UNCHANGED Promise!vars
  BY <1>15, Stutters DEF Answer, SendResult, held, daemon, GoingDown
<1>16. ASSUME NEW r \in Requests, Ingest(r) PROVE [Promise!Next]_(Promise!vars)
  <2>1. CASE ingested' = ingested \cup {r}
    <3>1. sync[r] # "none"
      BY <1>16 DEF Ingest
    <3>2. StateOf(pc[r]) \in {"served", "done"}
      BY <3>1 DEF Inv, SentInv, AskedOnceSent, StateOf
    <3>3. Promise!Ingest(r)
      BY <1>16, <2>1, <3>2 DEF Ingest, Promise!Ingest, StateOf, held, daemon
    <3> QED
      BY <3>3 DEF Promise!Next
  <2>2. CASE UNCHANGED ingested
    BY <1>16, <2>2, Stutters DEF Ingest, held, daemon, GoingDown
  <2> QED
    BY <1>16, <2>1, <2>2 DEF Ingest
<1>17. ASSUME UNCHANGED <<pc, chat, verdict, ingested>>,
              GoingDown => GoingDown'
       PROVE  [Promise!Next]_(Promise!vars)
  <2>1. CASE GoingDown' = GoingDown
    BY <1>17, <2>1, Stutters
  <2>2. CASE GoingDown' /\ ~GoingDown
    <3>1. Promise!GoDown
      BY <1>17, <2>2 DEF Promise!GoDown, GoingDown
    <3> QED
      BY <3>1 DEF Promise!Next
  <2> QED
    BY <1>17, <2>1, <2>2 DEF GoingDown
<1>18. CASE ChangeConnection \/ Shutdown \/ CloseResults
  <2>1. UNCHANGED <<pc, chat, verdict, ingested>>
    BY <1>18 DEF ChangeConnection, Shutdown, CloseResults, held, answers
  <2>2. GoingDown => GoingDown'
    BY <1>18 DEF ChangeConnection, Shutdown, CloseResults, GoingDown
  <2> QED
    BY <1>17, <2>1, <2>2
<1> QED
  BY <1>1, <1>2, <1>3, <1>4, <1>7, <1>8, <1>9, <1>10, <1>11, <1>12, <1>13, <1>14, <1>15, <1>16,
     <1>18, StepKinds

(* Requests, phones and shutdown implement OneVerdict: one request served  *)
(* at a time, one verdict for each, after it was served, and VIABLE only   *)
(* when the messages of a sync of its chat are handled (control.go:222-233,*)
(* auth.go:212-232).                                                       *)
THEOREM PromiseKept == Spec => KeepsPromise
<1>1. Init => Promise!Init
  BY DEF Init, Promise!Init
<1>2. Inv /\ [Next]_vars => [Promise!Next]_(Promise!vars)
  BY PromiseStep
<1> QED
  BY <1>1, <1>2, Invariance, PTL DEF Spec, KeepsPromise, Promise!Spec

=============================================================================
