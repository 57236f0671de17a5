---------------------------- MODULE MediaFileProofs ----------------------------
(* Type correctness and the safety of MediaFile, proved.                   *)
EXTENDS MediaFile, TLAPS

(* Whoever has NAME.tmp or NAME open, or goes on to mark the row, there is *)
(* a file.                                                                 *)
FileThere ==
    /\ \A w \in MediaWriters :
          /\ mediaFd[w] = "tmp" => mediaTmp # "absent"
          /\ mediaFd[w] = "final" => mediaFinal # "absent"
          /\ writing[w] = "mark" => mediaFinal # "absent"
    /\ hydrated => mediaFinal # "absent"

(* What is truncated is still open.                                        *)
PartIsOpen ==
    ~cutShort =>
        /\ mediaTmp = "part" => \E w \in MediaWriters : mediaFd[w] = "tmp"
        /\ mediaFinal = "part" => \E w \in MediaWriters : mediaFd[w] = "final"

(* Without overlapping there is one writer at a time, and NAME.tmp is its. *)
Alone ==
    ~overlapped =>
        /\ \A v, w \in MediaWriters :
              writing[v] \in {"write", "rename"} /\ writing[w] \in {"write", "rename"} => v = w
        /\ \A w \in MediaWriters :
              writing[w] = "write" => mediaFd[w] = "tmp" /\ mediaTmp = "part"
        /\ hydrated => mediaFinal = "whole"

WholeAhead ==
    ~overlapped =>
        \A w \in MediaWriters :
            /\ writing[w] = "rename" => mediaTmp = "whole"
            /\ writing[w] = "mark" => mediaFinal = "whole"

Inv == MediaTypeOK /\ FileThere /\ PartIsOpen /\ Alone /\ WholeAhead

LEMMA StepKinds ==
    ASSUME [MediaNext]_mediaVars
    PROVE  \/ UNCHANGED mediaVars
           \/ Kill
           \/ \E w \in MediaWriters : WriteMedia(w)
  BY DEF MediaNext

LEMMA InitInv == MediaInit => Inv
  BY DEF MediaInit, Inv, MediaTypeOK, FileThere, PartIsOpen, Alone, WholeAhead,
         WritingPCs, Contents, Media!Names

LEMMA StepTyped == Inv /\ [MediaNext]_mediaVars => MediaTypeOK'
<1> SUFFICES ASSUME Inv, [MediaNext]_mediaVars PROVE MediaTypeOK'
  OBVIOUS
<1> USE DEF MediaTypeOK, WritingPCs, Contents, Media!Names
<1>i. MediaTypeOK /\ FileThere
  BY DEF Inv
<1>1. CASE UNCHANGED mediaVars
  BY <1>1, <1>i DEF mediaVars
<1>2. CASE Kill
  BY <1>2, <1>i DEF Kill, row
<1>3. ASSUME NEW w \in MediaWriters, WriteMedia(w) PROVE MediaTypeOK'
  <2>1. CASE MarkExpired(w)
    BY <2>1, <1>i DEF MarkExpired, At, file, row
  <2>2. CASE OpenTemp(w)
    BY <2>2, <1>i DEF OpenTemp, Media!Create, At, file, row
  <2>3. CASE WriteBytes(w)
    BY <2>3, <1>i DEF WriteBytes, Media!Fill, Media!Over, Media!Close, At, file, row
  <2>4. CASE WriteFails(w)
    BY <2>4, <1>i DEF WriteFails, Media!Close, At, file, row
  <2>5. CASE RenameTemp(w)
    BY <2>5, <1>i DEF RenameTemp, Media!Rename, At, file, row
  <2>6. CASE MarkMediaOK(w)
    BY <2>6, <1>i DEF MarkMediaOK, At, file, row
  <2>7. CASE MarkMediaFailure(w)
    BY <2>7, <1>i DEF MarkMediaFailure, At, file, row
  <2>8. CASE MarkFails(w)
    BY <2>8, <1>i DEF MarkFails, At, file, row
  <2> QED
    BY <1>3, <2>1, <2>2, <2>3, <2>4, <2>5, <2>6, <2>7, <2>8 DEF WriteMedia
<1> QED
  BY <1>1, <1>2, <1>3, StepKinds

LEMMA StepThere == Inv /\ [MediaNext]_mediaVars => FileThere'
<1> SUFFICES ASSUME Inv, [MediaNext]_mediaVars PROVE FileThere'
  OBVIOUS
<1> USE DEF MediaTypeOK, FileThere, WritingPCs, Contents, Media!Names
<1>i. MediaTypeOK /\ FileThere
  BY DEF Inv
<1>1. CASE UNCHANGED mediaVars
  BY <1>1, <1>i DEF mediaVars
<1>2. CASE Kill
  BY <1>2, <1>i DEF Kill, row
<1>3. ASSUME NEW w \in MediaWriters, WriteMedia(w) PROVE FileThere'
  <2>1. CASE MarkExpired(w)
    BY <2>1, <1>i DEF MarkExpired, At, file, row
  <2>2. CASE OpenTemp(w)
    BY <2>2, <1>i DEF OpenTemp, Media!Create, At, file, row
  <2>3. CASE WriteBytes(w)
    BY <2>3, <1>i DEF WriteBytes, Media!Fill, Media!Over, Media!Close, At, file, row
  <2>4. CASE WriteFails(w)
    BY <2>4, <1>i DEF WriteFails, Media!Close, At, file, row
  <2>5. CASE RenameTemp(w)
    BY <2>5, <1>i DEF RenameTemp, Media!Rename, At, file, row
  <2>6. CASE MarkMediaOK(w)
    BY <2>6, <1>i DEF MarkMediaOK, At, file, row
  <2>7. CASE MarkMediaFailure(w)
    BY <2>7, <1>i DEF MarkMediaFailure, At, file, row
  <2>8. CASE MarkFails(w)
    BY <2>8, <1>i DEF MarkFails, At, file, row
  <2> QED
    BY <1>3, <2>1, <2>2, <2>3, <2>4, <2>5, <2>6, <2>7, <2>8 DEF WriteMedia
<1> QED
  BY <1>1, <1>2, <1>3, StepKinds

LEMMA StepOpen == Inv /\ [MediaNext]_mediaVars => PartIsOpen'
<1> SUFFICES ASSUME Inv, [MediaNext]_mediaVars PROVE PartIsOpen'
  OBVIOUS
<1> USE DEF MediaTypeOK, FileThere, PartIsOpen, WritingPCs, Contents, Media!Names
<1>i. MediaTypeOK /\ FileThere /\ PartIsOpen
  BY DEF Inv
<1>1. CASE UNCHANGED mediaVars
  BY <1>1, <1>i DEF mediaVars
<1>2. CASE Kill
  BY <1>2, <1>i DEF Kill, row
<1>3. ASSUME NEW w \in MediaWriters, WriteMedia(w) PROVE PartIsOpen'
  <2>1. CASE MarkExpired(w)
    BY <2>1, <1>i DEF MarkExpired, At, file, row
  <2>2. CASE OpenTemp(w)
    BY <2>2, <1>i DEF OpenTemp, Media!Create, At, file, row
  <2>3. CASE WriteBytes(w)
    BY <2>3, <1>i DEF WriteBytes, Media!Fill, Media!Over, Media!Close, At, file, row
  <2>4. CASE WriteFails(w)
    BY <2>4, <1>i DEF WriteFails, Media!Close, At, file, row
  <2>5. CASE RenameTemp(w)
    BY <2>5, <1>i DEF RenameTemp, Media!Rename, At, file, row
  <2>6. CASE MarkMediaOK(w)
    BY <2>6, <1>i DEF MarkMediaOK, At, file, row
  <2>7. CASE MarkMediaFailure(w)
    BY <2>7, <1>i DEF MarkMediaFailure, At, file, row
  <2>8. CASE MarkFails(w)
    BY <2>8, <1>i DEF MarkFails, At, file, row
  <2> QED
    BY <1>3, <2>1, <2>2, <2>3, <2>4, <2>5, <2>6, <2>7, <2>8 DEF WriteMedia
<1> QED
  BY <1>1, <1>2, <1>3, StepKinds

LEMMA StepAlone == Inv /\ [MediaNext]_mediaVars => Alone'
<1> SUFFICES ASSUME Inv, [MediaNext]_mediaVars PROVE Alone'
  OBVIOUS
<1> USE DEF MediaTypeOK, Alone, WholeAhead, WritingPCs, Contents, Media!Names
<1>i. MediaTypeOK /\ Alone /\ WholeAhead
  BY DEF Inv
<1>1. CASE UNCHANGED mediaVars
  BY <1>1, <1>i DEF mediaVars
<1>2. CASE Kill
  BY <1>2, <1>i DEF Kill, row
<1>3. ASSUME NEW w \in MediaWriters, WriteMedia(w) PROVE Alone'
  <2>1. CASE MarkExpired(w)
    BY <2>1, <1>i DEF MarkExpired, At, file, row
  <2>2. CASE OpenTemp(w)
    BY <2>2, <1>i DEF OpenTemp, Media!Create, At, file, row
  <2>3. CASE WriteBytes(w)
    BY <2>3, <1>i DEF WriteBytes, Media!Fill, Media!Over, Media!Close, At, file, row
  <2>4. CASE WriteFails(w)
    BY <2>4, <1>i DEF WriteFails, Media!Close, At, file, row
  <2>5. CASE RenameTemp(w)
    BY <2>5, <1>i DEF RenameTemp, Media!Rename, At, file, row
  <2>6. CASE MarkMediaOK(w)
    BY <2>6, <1>i DEF MarkMediaOK, At, file, row
  <2>7. CASE MarkMediaFailure(w)
    BY <2>7, <1>i DEF MarkMediaFailure, At, file, row
  <2>8. CASE MarkFails(w)
    BY <2>8, <1>i DEF MarkFails, At, file, row
  <2> QED
    BY <1>3, <2>1, <2>2, <2>3, <2>4, <2>5, <2>6, <2>7, <2>8 DEF WriteMedia
<1> QED
  BY <1>1, <1>2, <1>3, StepKinds

LEMMA StepWhole == Inv /\ [MediaNext]_mediaVars => WholeAhead'
<1> SUFFICES ASSUME Inv, [MediaNext]_mediaVars PROVE WholeAhead'
  OBVIOUS
<1> USE DEF MediaTypeOK, Alone, WholeAhead, WritingPCs, Contents, Media!Names
<1>i. MediaTypeOK /\ Alone /\ WholeAhead
  BY DEF Inv
<1>1. CASE UNCHANGED mediaVars
  BY <1>1, <1>i DEF mediaVars
<1>2. CASE Kill
  BY <1>2, <1>i DEF Kill, row
<1>3. ASSUME NEW w \in MediaWriters, WriteMedia(w) PROVE WholeAhead'
  <2>1. CASE MarkExpired(w)
    BY <2>1, <1>i DEF MarkExpired, At, file, row
  <2>2. CASE OpenTemp(w)
    BY <2>2, <1>i DEF OpenTemp, Media!Create, At, file, row
  <2>3. CASE WriteBytes(w)
    BY <2>3, <1>i DEF WriteBytes, Media!Fill, Media!Over, Media!Close, At, file, row
  <2>4. CASE WriteFails(w)
    BY <2>4, <1>i DEF WriteFails, Media!Close, At, file, row
  <2>5. CASE RenameTemp(w)
    BY <2>5, <1>i DEF RenameTemp, Media!Rename, At, file, row
  <2>6. CASE MarkMediaOK(w)
    BY <2>6, <1>i DEF MarkMediaOK, At, file, row
  <2>7. CASE MarkMediaFailure(w)
    BY <2>7, <1>i DEF MarkMediaFailure, At, file, row
  <2>8. CASE MarkFails(w)
    BY <2>8, <1>i DEF MarkFails, At, file, row
  <2> QED
    BY <1>3, <2>1, <2>2, <2>3, <2>4, <2>5, <2>6, <2>7, <2>8 DEF WriteMedia
<1> QED
  BY <1>1, <1>2, <1>3, StepKinds

LEMMA Invariance == MediaSpec => []Inv
<1>1. MediaInit => Inv
  BY InitInv
<1>2. Inv /\ [MediaNext]_mediaVars => Inv'
  BY StepTyped, StepThere, StepOpen, StepAlone, StepWhole DEF Inv
<1> QED
  BY <1>1, <1>2, PTL DEF MediaSpec

(* The types of MediaFile, and a file open exactly while its writer is     *)
(* between opening and closing it.                                         *)
THEOREM MediaTypeCorrect == MediaSpec => []MediaTypeOK
<1>1. Inv => MediaTypeOK
  BY DEF Inv
<1> QED
  BY <1>1, Invariance, PTL

(* writeMedia is atomic as long as no two writers of a message overlap:    *)
(* the path in the row leads to the whole file.                            *)
THEOREM WholeUnlessOverlapped == MediaSpec => []AtomicUnlessOverlapped
<1>1. Inv => AtomicUnlessOverlapped
  BY DEF Inv, Alone, AtomicUnlessOverlapped
<1> QED
  BY <1>1, Invariance, PTL

(* When they do overlap, a truncated file is still open in the writer that *)
(* will fill it.                                                           *)
THEOREM TornOnlyForNow == MediaSpec => []TornForNow
<1>1. Inv => TornForNow
  BY DEF Inv, MediaTypeOK, Contents, FileThere, PartIsOpen, TornForNow
<1> QED
  BY <1>1, Invariance, PTL

=============================================================================
