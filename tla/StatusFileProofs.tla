--------------------------- MODULE StatusFileProofs ---------------------------
(***************************************************************************)
(* Type correctness of StatusFile, FileKeepsUp and DownBeforeExit, proved. *)
(* What an event leaves in health.json follows from the calls of Write one *)
(* after the other: none that read an older status is at work when the     *)
(* event handler has read its own (OldReadersGone), and a later one reads  *)
(* the same.  A permanent disconnect is the event DownBeforeExit is about. *)
(***************************************************************************)
EXTENDS StatusFile, TLAPS

Active(w) == saving[w] \in {"open", "write", "rename"}

(* One call of Write at a time has NAME.tmp for itself.                    *)
OneWrites ==
    ~disturbed =>
        /\ \A v, w \in Savers : Active(v) /\ Active(w) => v = w
        /\ \A w \in Savers :
              /\ saving[w] = "write" => statusFd[w] = "tmp" /\ statusTmp = "part"
              /\ saving[w] = "rename" => statusTmp = snapshot[w]

(* The order in handleConnectionEvent: set, write, report.                 *)
ReportedLast ==
    /\ permanent => connection = "down" /\ changes > 0
    /\ fatal => permanent /\ saving["handler"] = "idle"

OldReadersGone ==
    ~disturbed /\ changes > 0 /\ saving["handler"] # "read" =>
        \A w \in Savers : Active(w) => snapshot[w] = connection

Written ==
    ~disturbed /\ changes > 0 /\ saving["handler"] = "idle" => statusFinal = connection

StatusInv == StatusTypeOK /\ OneWrites /\ ReportedLast /\ OldReadersGone /\ Written

LEMMA StatusStepKinds ==
    ASSUME [StatusNext]_statusVars
    PROVE  \/ UNCHANGED statusVars
           \/ BeginProcess \/ BeginServe \/ ServerStart \/ ServerClose \/ EndProcess
           \/ ReportFatal \/ Tick
           \/ \E last \in BOOLEAN : HandleConnection("down", last)
           \/ HandleConnection("up", FALSE)
           \/ \E w \in Savers :
                 ReadStatus(w) \/ OpenStatus(w) \/ FillStatus(w) \/ RenameStatus(w) \/ SaveFails(w)
  BY DEF StatusNext, Process, Ended, Save

LEMMA StatusInitInv == StatusInit => StatusInv
<1> SUFFICES ASSUME StatusInit PROVE StatusInv
  OBVIOUS
<1>1. permanent \in BOOLEAN /\ fatal \in BOOLEAN /\ disturbed \in BOOLEAN
  BY DEF StatusInit
<1>2. changes \in 0..MaxChanges
  BY ChangesAssumption DEF StatusInit
<1>3. /\ serving \in Servings /\ connection \in {"up", "down"}
      /\ saving \in [Savers -> SavingPCs] /\ snapshot \in [Savers -> {"up", "down"}]
      /\ statusFd \in [Savers -> Json!Names]
      /\ statusTmp \in Texts /\ statusFinal \in Texts
      /\ \A w \in Savers : saving[w] = "write" <=> statusFd[w] # "none"
  BY DEF StatusInit, Servings, SavingPCs, Texts, Json!Names
<1>4. OneWrites /\ ReportedLast /\ OldReadersGone /\ Written
  BY DEF StatusInit, OneWrites, ReportedLast, OldReadersGone, Written, Active
<1> QED
  BY <1>1, <1>2, <1>3, <1>4 DEF StatusInv, StatusTypeOK

LEMMA StepStatusTyped == StatusInv /\ [StatusNext]_statusVars => StatusTypeOK'
<1> SUFFICES ASSUME StatusInv, [StatusNext]_statusVars PROVE StatusTypeOK'
  OBVIOUS
<1> USE DEF StatusTypeOK, Servings, SavingPCs, Texts, Json!Names, Savers
<1>i. StatusTypeOK
  BY DEF StatusInv
<1>1. CASE UNCHANGED statusVars
  BY <1>1, <1>i DEF statusVars
<1>2. CASE BeginProcess
  BY <1>2, <1>i DEF BeginProcess, Serving, GoOn, Idle, jsonFile, service
<1>3. CASE BeginServe
  BY <1>3, <1>i DEF BeginServe, Serving, GoOn, Idle, jsonFile, service
<1>4. CASE ServerStart
  BY <1>4, <1>i DEF ServerStart, Serving, GoOn, Idle, jsonFile, service
<1>5. CASE ServerClose
  BY <1>5, <1>i DEF ServerClose, Serving, GoOn, Idle, jsonFile, service
<1>6. CASE EndProcess
  BY <1>6, <1>i DEF EndProcess, Serving, GoOn, Idle, jsonFile, service
<1>7. CASE ReportFatal
  BY <1>7, <1>i DEF ReportFatal, GoOn, Idle, jsonFile, service
<1>8. CASE Tick
  BY <1>8, <1>i DEF Tick, GoOn, Idle, jsonFile, service
<1>9. ASSUME NEW last \in BOOLEAN, HandleConnection("down", last) PROVE StatusTypeOK'
  BY <1>9, <1>i, ChangesAssumption DEF HandleConnection, GoOn, Idle, jsonFile, service
<1>10. CASE HandleConnection("up", FALSE)
  <2>1. permanent' \in BOOLEAN /\ fatal' \in BOOLEAN /\ disturbed' \in BOOLEAN
    BY <1>10, <1>i DEF HandleConnection
  <2>2. changes' \in 0..MaxChanges
    BY <1>10, <1>i, ChangesAssumption DEF HandleConnection
  <2>3. /\ serving' \in Servings /\ connection' \in {"up", "down"}
        /\ saving' \in [Savers -> SavingPCs] /\ snapshot' \in [Savers -> {"up", "down"}]
        /\ statusFd' \in [Savers -> Json!Names]
        /\ statusTmp' \in Texts /\ statusFinal' \in Texts
        /\ \A w \in Savers : saving'[w] = "write" <=> statusFd'[w] # "none"
    BY <1>10, <1>i DEF HandleConnection, GoOn, Idle, jsonFile
  <2> QED
    BY <2>1, <2>2, <2>3
<1>11. ASSUME NEW w \in Savers, ReadStatus(w) PROVE StatusTypeOK'
  BY <1>11, <1>i DEF ReadStatus, GoOn, Idle, jsonFile, service
<1>12. ASSUME NEW w \in Savers, OpenStatus(w) PROVE StatusTypeOK'
  BY <1>12, <1>i DEF OpenStatus, Json!Create, GoOn, Idle, jsonFile, service
<1>13. ASSUME NEW w \in Savers, FillStatus(w) PROVE StatusTypeOK'
  BY <1>13, <1>i DEF FillStatus, Json!Fill, Json!Over, Json!Close, GoOn, Idle, jsonFile, service
<1>14. ASSUME NEW w \in Savers, RenameStatus(w) PROVE StatusTypeOK'
  BY <1>14, <1>i DEF RenameStatus, Json!Rename, GoOn, Idle, jsonFile, service
<1>15. ASSUME NEW w \in Savers, SaveFails(w) PROVE StatusTypeOK'
  BY <1>15, <1>i, ChangesAssumption DEF SaveFails, Json!Close, GoOn, Idle, jsonFile, service
<1> QED
  BY <1>1, <1>2, <1>3, <1>4, <1>5, <1>6, <1>7, <1>8, <1>9, <1>10, <1>11, <1>12, <1>13, <1>14, <1>15, StatusStepKinds

LEMMA StepOneWrites == StatusInv /\ [StatusNext]_statusVars => OneWrites'
<1> SUFFICES ASSUME StatusInv, [StatusNext]_statusVars PROVE OneWrites'
  OBVIOUS
<1> USE DEF StatusTypeOK, Servings, SavingPCs, Texts, Json!Names, OneWrites, Active, Savers
<1>i. StatusTypeOK /\ OneWrites
  BY DEF StatusInv
<1>1. CASE UNCHANGED statusVars
  BY <1>1, <1>i DEF statusVars
<1>2. CASE BeginProcess
  BY <1>2, <1>i DEF BeginProcess, Serving, GoOn, Idle, jsonFile, service
<1>3. CASE BeginServe
  BY <1>3, <1>i DEF BeginServe, Serving, GoOn, Idle, jsonFile, service
<1>4. CASE ServerStart
  BY <1>4, <1>i DEF ServerStart, Serving, GoOn, Idle, jsonFile, service
<1>5. CASE ServerClose
  BY <1>5, <1>i DEF ServerClose, Serving, GoOn, Idle, jsonFile, service
<1>6. CASE EndProcess
  BY <1>6, <1>i DEF EndProcess, Serving, GoOn, Idle, jsonFile, service
<1>7. CASE ReportFatal
  BY <1>7, <1>i DEF ReportFatal, GoOn, Idle, jsonFile, service
<1>8. CASE Tick
  BY <1>8, <1>i DEF Tick, GoOn, Idle, jsonFile, service
<1>9. ASSUME NEW last \in BOOLEAN, HandleConnection("down", last) PROVE OneWrites'
  BY <1>9, <1>i, ChangesAssumption DEF HandleConnection, GoOn, Idle, jsonFile, service
<1>10. CASE HandleConnection("up", FALSE)
  BY <1>10, <1>i, ChangesAssumption DEF HandleConnection, GoOn, Idle, jsonFile, service
<1>11. ASSUME NEW w \in Savers, ReadStatus(w) PROVE OneWrites'
  BY <1>11, <1>i DEF ReadStatus, GoOn, Idle, jsonFile, service
<1>12. ASSUME NEW w \in Savers, OpenStatus(w) PROVE OneWrites'
  BY <1>12, <1>i DEF OpenStatus, Json!Create, GoOn, Idle, jsonFile, service
<1>13. ASSUME NEW w \in Savers, FillStatus(w) PROVE OneWrites'
  BY <1>13, <1>i DEF FillStatus, Json!Fill, Json!Over, Json!Close, GoOn, Idle, jsonFile, service
<1>14. ASSUME NEW w \in Savers, RenameStatus(w) PROVE OneWrites'
  BY <1>14, <1>i DEF RenameStatus, Json!Rename, GoOn, Idle, jsonFile, service
<1>15. ASSUME NEW w \in Savers, SaveFails(w) PROVE OneWrites'
  BY <1>15, <1>i, ChangesAssumption DEF SaveFails, Json!Close, GoOn, Idle, jsonFile, service
<1> QED
  BY <1>1, <1>2, <1>3, <1>4, <1>5, <1>6, <1>7, <1>8, <1>9, <1>10, <1>11, <1>12, <1>13, <1>14, <1>15, StatusStepKinds

LEMMA StepReportedLast == StatusInv /\ [StatusNext]_statusVars => ReportedLast'
<1> SUFFICES ASSUME StatusInv, [StatusNext]_statusVars PROVE ReportedLast'
  OBVIOUS
<1> USE DEF StatusTypeOK, Servings, SavingPCs, Texts, Json!Names, ReportedLast, Savers
<1>i. StatusTypeOK /\ ReportedLast
  BY DEF StatusInv
<1>1. CASE UNCHANGED statusVars
  BY <1>1, <1>i DEF statusVars
<1>2. CASE BeginProcess
  BY <1>2, <1>i DEF BeginProcess, Serving, GoOn, Idle, jsonFile, service
<1>3. CASE BeginServe
  BY <1>3, <1>i DEF BeginServe, Serving, GoOn, Idle, jsonFile, service
<1>4. CASE ServerStart
  BY <1>4, <1>i DEF ServerStart, Serving, GoOn, Idle, jsonFile, service
<1>5. CASE ServerClose
  BY <1>5, <1>i DEF ServerClose, Serving, GoOn, Idle, jsonFile, service
<1>6. CASE EndProcess
  BY <1>6, <1>i DEF EndProcess, Serving, GoOn, Idle, jsonFile, service
<1>7. CASE ReportFatal
  BY <1>7, <1>i DEF ReportFatal, GoOn, Idle, jsonFile, service
<1>8. CASE Tick
  BY <1>8, <1>i DEF Tick, GoOn, Idle, jsonFile, service
<1>9. ASSUME NEW last \in BOOLEAN, HandleConnection("down", last) PROVE ReportedLast'
  BY <1>9, <1>i, ChangesAssumption DEF HandleConnection, GoOn, Idle, jsonFile, service
<1>10. CASE HandleConnection("up", FALSE)
  BY <1>10, <1>i, ChangesAssumption DEF HandleConnection, GoOn, Idle, jsonFile, service
<1>11. ASSUME NEW w \in Savers, ReadStatus(w) PROVE ReportedLast'
  BY <1>11, <1>i DEF ReadStatus, GoOn, Idle, jsonFile, service
<1>12. ASSUME NEW w \in Savers, OpenStatus(w) PROVE ReportedLast'
  BY <1>12, <1>i DEF OpenStatus, Json!Create, GoOn, Idle, jsonFile, service
<1>13. ASSUME NEW w \in Savers, FillStatus(w) PROVE ReportedLast'
  BY <1>13, <1>i DEF FillStatus, Json!Fill, Json!Over, Json!Close, GoOn, Idle, jsonFile, service
<1>14. ASSUME NEW w \in Savers, RenameStatus(w) PROVE ReportedLast'
  BY <1>14, <1>i DEF RenameStatus, Json!Rename, GoOn, Idle, jsonFile, service
<1>15. ASSUME NEW w \in Savers, SaveFails(w) PROVE ReportedLast'
  BY <1>15, <1>i, ChangesAssumption DEF SaveFails, Json!Close, GoOn, Idle, jsonFile, service
<1> QED
  BY <1>1, <1>2, <1>3, <1>4, <1>5, <1>6, <1>7, <1>8, <1>9, <1>10, <1>11, <1>12, <1>13, <1>14, <1>15, StatusStepKinds

LEMMA StepOldReadersGone == StatusInv /\ [StatusNext]_statusVars => OldReadersGone'
<1> SUFFICES ASSUME StatusInv, [StatusNext]_statusVars PROVE OldReadersGone'
  OBVIOUS
<1> USE DEF StatusTypeOK, Servings, SavingPCs, Texts, Json!Names, ReportedLast, OldReadersGone, Active, Savers
<1>i. StatusTypeOK /\ ReportedLast /\ OldReadersGone
  BY DEF StatusInv
<1>1. CASE UNCHANGED statusVars
  BY <1>1, <1>i DEF statusVars
<1>2. CASE BeginProcess
  BY <1>2, <1>i DEF BeginProcess, Serving, GoOn, Idle, jsonFile, service
<1>3. CASE BeginServe
  BY <1>3, <1>i DEF BeginServe, Serving, GoOn, Idle, jsonFile, service
<1>4. CASE ServerStart
  BY <1>4, <1>i DEF ServerStart, Serving, GoOn, Idle, jsonFile, service
<1>5. CASE ServerClose
  BY <1>5, <1>i DEF ServerClose, Serving, GoOn, Idle, jsonFile, service
<1>6. CASE EndProcess
  BY <1>6, <1>i DEF EndProcess, Serving, GoOn, Idle, jsonFile, service
<1>7. CASE ReportFatal
  BY <1>7, <1>i DEF ReportFatal, GoOn, Idle, jsonFile, service
<1>8. CASE Tick
  BY <1>8, <1>i DEF Tick, GoOn, Idle, jsonFile, service
<1>9. ASSUME NEW last \in BOOLEAN, HandleConnection("down", last) PROVE OldReadersGone'
  BY <1>9, <1>i, ChangesAssumption DEF HandleConnection, GoOn, Idle, jsonFile, service
<1>10. CASE HandleConnection("up", FALSE)
  BY <1>10, <1>i, ChangesAssumption DEF HandleConnection, GoOn, Idle, jsonFile, service
<1>11. ASSUME NEW w \in Savers, ReadStatus(w) PROVE OldReadersGone'
  BY <1>11, <1>i DEF ReadStatus, GoOn, Idle, jsonFile, service
<1>12. ASSUME NEW w \in Savers, OpenStatus(w) PROVE OldReadersGone'
  BY <1>12, <1>i DEF OpenStatus, Json!Create, GoOn, Idle, jsonFile, service
<1>13. ASSUME NEW w \in Savers, FillStatus(w) PROVE OldReadersGone'
  BY <1>13, <1>i DEF FillStatus, Json!Fill, Json!Over, Json!Close, GoOn, Idle, jsonFile, service
<1>14. ASSUME NEW w \in Savers, RenameStatus(w) PROVE OldReadersGone'
  BY <1>14, <1>i DEF RenameStatus, Json!Rename, GoOn, Idle, jsonFile, service
<1>15. ASSUME NEW w \in Savers, SaveFails(w) PROVE OldReadersGone'
  BY <1>15, <1>i, ChangesAssumption DEF SaveFails, Json!Close, GoOn, Idle, jsonFile, service
<1> QED
  BY <1>1, <1>2, <1>3, <1>4, <1>5, <1>6, <1>7, <1>8, <1>9, <1>10, <1>11, <1>12, <1>13, <1>14, <1>15, StatusStepKinds

LEMMA StepWritten == StatusInv /\ [StatusNext]_statusVars => Written'
<1> SUFFICES ASSUME StatusInv, [StatusNext]_statusVars PROVE Written'
  OBVIOUS
<1> USE DEF StatusTypeOK, Servings, SavingPCs, Texts, Json!Names, OneWrites, OldReadersGone, Written, Active, Savers
<1>i. StatusTypeOK /\ OneWrites /\ OldReadersGone /\ Written
  BY DEF StatusInv
<1>1. CASE UNCHANGED statusVars
  BY <1>1, <1>i DEF statusVars
<1>2. CASE BeginProcess
  BY <1>2, <1>i DEF BeginProcess, Serving, GoOn, Idle, jsonFile, service
<1>3. CASE BeginServe
  BY <1>3, <1>i DEF BeginServe, Serving, GoOn, Idle, jsonFile, service
<1>4. CASE ServerStart
  BY <1>4, <1>i DEF ServerStart, Serving, GoOn, Idle, jsonFile, service
<1>5. CASE ServerClose
  BY <1>5, <1>i DEF ServerClose, Serving, GoOn, Idle, jsonFile, service
<1>6. CASE EndProcess
  BY <1>6, <1>i DEF EndProcess, Serving, GoOn, Idle, jsonFile, service
<1>7. CASE ReportFatal
  BY <1>7, <1>i DEF ReportFatal, GoOn, Idle, jsonFile, service
<1>8. CASE Tick
  BY <1>8, <1>i DEF Tick, GoOn, Idle, jsonFile, service
<1>9. ASSUME NEW last \in BOOLEAN, HandleConnection("down", last) PROVE Written'
  BY <1>9, <1>i, ChangesAssumption DEF HandleConnection, GoOn, Idle, jsonFile, service
<1>10. CASE HandleConnection("up", FALSE)
  BY <1>10, <1>i, ChangesAssumption DEF HandleConnection, GoOn, Idle, jsonFile, service
<1>11. ASSUME NEW w \in Savers, ReadStatus(w) PROVE Written'
  BY <1>11, <1>i DEF ReadStatus, GoOn, Idle, jsonFile, service
<1>12. ASSUME NEW w \in Savers, OpenStatus(w) PROVE Written'
  BY <1>12, <1>i DEF OpenStatus, Json!Create, GoOn, Idle, jsonFile, service
<1>13. ASSUME NEW w \in Savers, FillStatus(w) PROVE Written'
  BY <1>13, <1>i DEF FillStatus, Json!Fill, Json!Over, Json!Close, GoOn, Idle, jsonFile, service
<1>14. ASSUME NEW w \in Savers, RenameStatus(w) PROVE Written'
  BY <1>14, <1>i DEF RenameStatus, Json!Rename, GoOn, Idle, jsonFile, service
<1>15. ASSUME NEW w \in Savers, SaveFails(w) PROVE Written'
  BY <1>15, <1>i, ChangesAssumption DEF SaveFails, Json!Close, GoOn, Idle, jsonFile, service
<1> QED
  BY <1>1, <1>2, <1>3, <1>4, <1>5, <1>6, <1>7, <1>8, <1>9, <1>10, <1>11, <1>12, <1>13, <1>14, <1>15, StatusStepKinds

LEMMA StatusInvariance == StatusSpec => []StatusInv
<1>1. StatusInit => StatusInv
  BY StatusInitInv
<1>2. StatusInv /\ [StatusNext]_statusVars => StatusInv'
  BY StepStatusTyped, StepOneWrites, StepReportedLast, StepOldReadersGone, StepWritten
     DEF StatusInv
<1> QED
  BY <1>1, <1>2, PTL DEF StatusSpec

(* The types of StatusFile, and health.json.tmp open exactly while Write   *)
(* is writing it.                                                          *)
THEOREM StatusTypeCorrect == StatusSpec => []StatusTypeOK
<1>1. StatusInv => StatusTypeOK
  BY DEF StatusInv
<1> QED
  BY <1>1, StatusInvariance, PTL

(* After each connection event health.json says what the event said, and   *)
(* no later write brings an older status back, if the calls of Write       *)
(* neither overlapped nor failed (handleConnectionEvent, auth.go).         *)
THEOREM FileFollowsEvents == StatusSpec => []FileKeepsUp
<1>1. StatusInv => FileKeepsUp
  BY DEF StatusInv, Written, FileKeepsUp, Idle
<1> QED
  BY <1>1, StatusInvariance, PTL

(* After a permanent disconnect the daemon does not end before health.json *)
(* says so, if the calls of Write neither overlapped nor failed.           *)
THEOREM DownWrittenBeforeExit == StatusSpec => []DownBeforeExit
<1>1. StatusInv => DownBeforeExit
  BY DEF StatusInv, ReportedLast, Written, DownBeforeExit
<1> QED
  BY <1>1, StatusInvariance, PTL

=============================================================================
