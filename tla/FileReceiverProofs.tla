------------------------- MODULE FileReceiverProofs -------------------------
(***************************************************************************)
(* Proofs about the upload of one request (FileReceiver.tla), for every    *)
(* finite set of files and every length of a file.                         *)
(***************************************************************************)
EXTENDS FileReceiver, FiniteSetTheorems, TLAPS

(***************************************************************************)
(* The inductive invariant.                                                *)
(***************************************************************************)
\* The chunks of an unfinished file are in its buffer, those of a finished one on
\* disk unless its buffer was left behind.
Kept ==
    \A f \in Files :
        /\ sent[f] < Chunks => buffers[f] = sent[f]
        /\ sent[f] = Chunks /\ buffers[f] = 0 => disk[f] = Chunks

\* No file is counted before its last chunk, and none twice.
CountedOnce == filesReceived <= Cardinality(Ended)

\* What done() saw when it accepted the upload.
Checked ==
    verdict = "accepted" => filesReceived = totalFiles /\ ~TooManyBuffers

IInv == CountsOK /\ Kept /\ CountedOnce /\ Checked

LEMMA InitIInv == Init => IInv
<1> SUFFICES ASSUME Init PROVE IInv
  OBVIOUS
<1> USE FileReceiverAssumption DEF Init
<1>1. CountsOK
  BY DEF CountsOK, Verdicts
<1>2. Kept
  BY DEF Kept
<1>3. Ended = {}
  BY DEF Ended
<1>4. CountedOnce
  BY <1>3, FS_EmptySet DEF CountedOnce
<1>5. Checked
  BY DEF Checked
<1> QED
  BY <1>1, <1>2, <1>4, <1>5 DEF IInv

\* A chunk that is not the last one of its file finishes no file.
LEMMA EndedMiddle ==
  ASSUME CountsOK, NEW f \in Files, Arrives(f), ~IsLastChunk(f)
  PROVE  Ended' = Ended
BY FileReceiverAssumption DEF CountsOK, Arrives, IsLastChunk, Ended

\* The last chunk of a file finishes that file and no other.
LEMMA EndedLast ==
  ASSUME CountsOK, NEW f \in Files, Arrives(f), IsLastChunk(f)
  PROVE  /\ IsFiniteSet(Ended)
         /\ Cardinality(Ended) \in Nat
         /\ Cardinality(Ended') = Cardinality(Ended) + 1
<1>1. Ended \in SUBSET Files
  BY DEF Ended
<1>2. IsFiniteSet(Ended)
  BY <1>1, FS_Subset, FileReceiverAssumption
<1>3. Ended' = Ended \cup {f} /\ f \notin Ended
  BY FileReceiverAssumption DEF CountsOK, Arrives, IsLastChunk, Ended
<1> QED
  BY <1>2, <1>3, FS_AddElement, FS_CardinalityType

LEMMA IInvStep == IInv /\ [Next]_vars => IInv'
<1> SUFFICES ASSUME IInv, [Next]_vars PROVE IInv'
  OBVIOUS
<1> USE FileReceiverAssumption DEF IInv
<1>1. ASSUME NEW f \in Files, MiddleChunk(f) PROVE IInv'
  <2> USE <1>1 DEF MiddleChunk, Arrives, IsLastChunk, Buffer
  <2>1. CountsOK'
    BY DEF CountsOK, Kept
  <2>2. Kept'
    BY DEF CountsOK, Kept
  <2>3. CountedOnce'
    BY EndedMiddle DEF CountedOnce
  <2>4. Checked'
    BY DEF Checked
  <2> QED
    BY <2>1, <2>2, <2>3, <2>4
<1>2. ASSUME NEW f \in Files, LastChunk(f) PROVE IInv'
  <2>1. filesReceived' = filesReceived + 1
    BY <1>2 DEF LastChunk
  <2>2. /\ Cardinality(Ended) \in Nat
        /\ Cardinality(Ended') = Cardinality(Ended) + 1
    BY <1>2, EndedLast DEF LastChunk
  <2>3. CountedOnce'
    BY <2>1, <2>2 DEF CountsOK, CountedOnce
  <2> USE <1>2 DEF LastChunk, Arrives, IsLastChunk
  <2>4. CountsOK'
    BY DEF CountsOK, Kept
  <2>5. Kept'
    BY DEF CountsOK, Kept
  <2>6. Checked'
    BY DEF Checked
  <2> QED
    BY <2>3, <2>4, <2>5, <2>6
<1>3. ASSUME NEW f \in Files, NoDirectory(f) PROVE IInv'
  <2>1. filesReceived' = filesReceived
    BY <1>3 DEF NoDirectory
  <2>2. /\ Cardinality(Ended) \in Nat
        /\ Cardinality(Ended') = Cardinality(Ended) + 1
    BY <1>3, EndedLast DEF NoDirectory
  <2>3. CountedOnce'
    BY <2>1, <2>2 DEF CountsOK, CountedOnce
  <2> USE <1>3 DEF NoDirectory, Arrives, IsLastChunk, Buffer
  <2>4. CountsOK'
    BY DEF CountsOK, Kept
  <2>5. Kept'
    BY DEF CountsOK, Kept
  <2>6. Checked'
    BY DEF Checked
  <2> QED
    BY <2>3, <2>4, <2>5, <2>6
<1>4. ASSUME NEW f \in Files, WriteFails(f) PROVE IInv'
  <2>1. filesReceived' = filesReceived + 1
    BY <1>4 DEF WriteFails
  <2>2. /\ Cardinality(Ended) \in Nat
        /\ Cardinality(Ended') = Cardinality(Ended) + 1
    BY <1>4, EndedLast DEF WriteFails
  <2>3. CountedOnce'
    BY <2>1, <2>2 DEF CountsOK, CountedOnce
  <2> USE <1>4 DEF WriteFails, Arrives, IsLastChunk, Buffer
  <2>4. CountsOK'
    BY DEF CountsOK, Kept
  <2>5. Kept'
    BY DEF CountsOK, Kept
  <2>6. Checked'
    BY DEF Checked
  <2> QED
    BY <2>3, <2>4, <2>5, <2>6
<1>5. CASE Done
  <2>1. CountsOK'
    BY <1>5 DEF Done, CountsOK, Verdicts
  <2>2. Kept' /\ CountedOnce'
    BY <1>5 DEF Done, Kept, CountedOnce, Ended
  <2>3. Checked'
    BY <1>5 DEF Done, Checked, TooManyBuffers, Buffered, totalFiles
  <2> QED
    BY <2>1, <2>2, <2>3
<1>6. CASE Decided \/ UNCHANGED vars
  BY <1>6 DEF Decided, vars, CountsOK, Kept, CountedOnce, Ended, Checked,
      TooManyBuffers, Buffered, totalFiles
<1> QED
  BY <1>1, <1>2, <1>3, <1>4, <1>5, <1>6 DEF Next

\* An upload starts with the invariant and keeps it.
THEOREM Invariance == Spec => []IInv
BY InitIInv, IInvStep, PTL DEF Spec

(***************************************************************************)
(* What follows from it.                                                   *)
(***************************************************************************)
\* Every variable of the upload keeps its type.
THEOREM TypeCorrect == Spec => []TypeOK
<1> DEFINE Flag == startedReceiving \in BOOLEAN
<1>1. Init => Flag
  BY DEF Init
<1>2. Flag /\ [Next]_vars => Flag'
  BY DEF Next, vars, MiddleChunk, LastChunk, NoDirectory, WriteFails, Arrives, Done,
      Decided
<1>3. IInv /\ Flag => TypeOK
  BY DEF IInv, TypeOK
<1> HIDE DEF Flag
<1> QED
  BY <1>1, <1>2, <1>3, Invariance, PTL DEF Spec

\* An accepted upload was received to the last chunk of every file.
LEMMA WholeWhenAccepted == IInv => AcceptedWasSentWhole
<1> SUFFICES ASSUME IInv, verdict = "accepted" PROVE Ended = Files
  BY DEF AcceptedWasSentWhole
<1>1. Ended \in SUBSET Files
  BY DEF Ended
<1>2. Cardinality(Files) <= Cardinality(Ended)
  BY DEF IInv, CountedOnce, Checked, totalFiles
<1>3. /\ Cardinality(Ended) \in Nat /\ Cardinality(Files) \in Nat
      /\ Cardinality(Ended) <= Cardinality(Files)
      /\ Cardinality(Files) = Cardinality(Ended) => Files = Ended
  BY <1>1, FS_Subset, FS_CardinalityType, FileReceiverAssumption
<1> QED
  BY <1>2, <1>3

\* No upload the client cut short is accepted, whatever the disk refuses.
THEOREM SentWhole == Spec => []AcceptedWasSentWhole
BY Invariance, WholeWhenAccepted, PTL

\* A failed write can cost an accepted upload one file, never two: the files that
\* are missing still have their buffers, and done() tolerates one buffer.
THEOREM MissesAtMostOne == Spec => []AcceptedMissesAtMostOne
<1>1. ASSUME IInv, verdict = "accepted" PROVE Cardinality(Missing) <= 1
  <2>1. Ended = Files
    BY <1>1, WholeWhenAccepted DEF AcceptedWasSentWhole
  <2>2. Missing \in SUBSET Buffered
    BY <1>1, <2>1 DEF IInv, CountsOK, Kept, Missing, Buffered, Ended
  <2>3. Buffered \in SUBSET Files
    BY DEF Buffered
  <2>4. IsFiniteSet(Buffered)
    BY <2>3, FS_Subset, FileReceiverAssumption
  <2>5. /\ Cardinality(Missing) <= Cardinality(Buffered)
        /\ Cardinality(Missing) \in Nat /\ Cardinality(Buffered) \in Nat
    BY <2>2, <2>4, FS_Subset, FS_CardinalityType
  <2>6. ~(Cardinality(Buffered) > 1)
    BY <1>1 DEF IInv, Checked, TooManyBuffers
  <2> QED
    BY <2>5, <2>6
<1>2. IInv => AcceptedMissesAtMostOne
  BY <1>1 DEF AcceptedMissesAtMostOne
<1> QED
  BY <1>2, Invariance, PTL

\* A file whose buffer was dropped is on disk from its first chunk to its last.
THEOREM DroppedOnDisk == Spec => []DroppedBufferIsOnDisk
<1>1. IInv => DroppedBufferIsOnDisk
  BY FileReceiverAssumption DEF IInv, CountsOK, Kept, DroppedBufferIsOnDisk
<1> QED
  BY <1>1, Invariance, PTL

(***************************************************************************)
(* On a disk that does not fail.                                           *)
(***************************************************************************)
OnDisk == {f \in Files : disk[f] = Chunks}

\* A file is on disk when its last chunk was received, and counted at most then.
OnlyWritten == OnDisk \subseteq Ended /\ filesReceived <= Cardinality(OnDisk)

WritesSucceed == [][\A f \in Files : ~WriteFails(f)]_vars

LEMMA WrittenStep ==
  ASSUME IInv, OnlyWritten, [Next]_vars, \A f \in Files : ~WriteFails(f)
  PROVE  OnlyWritten'
<1> USE FileReceiverAssumption DEF IInv
<1>1. IsFiniteSet(OnDisk) /\ Cardinality(OnDisk) \in Nat
  <2>1. OnDisk \in SUBSET Files
    BY DEF OnDisk
  <2> QED
    BY <2>1, FS_Subset, FS_CardinalityType
<1>2. ASSUME NEW f \in Files, MiddleChunk(f) \/ NoDirectory(f) PROVE OnlyWritten'
  <2>1. OnDisk' = OnDisk /\ filesReceived' = filesReceived
    BY <1>2 DEF MiddleChunk, NoDirectory, OnDisk
  <2>2. Ended \subseteq Ended'
    BY <1>2 DEF MiddleChunk, NoDirectory, Arrives, CountsOK, Ended
  <2> QED
    BY <2>1, <2>2 DEF OnlyWritten
<1>3. ASSUME NEW f \in Files, LastChunk(f) PROVE OnlyWritten'
  <2>1. Ended' = Ended \cup {f} /\ f \notin Ended
    BY <1>3 DEF LastChunk, CountsOK, Arrives, IsLastChunk, Ended
  <2>2. OnDisk' = OnDisk \cup {f} /\ f \notin OnDisk
    <3>1. buffers[f] + 1 = Chunks
      BY <1>3 DEF LastChunk, Arrives, IsLastChunk, CountsOK, Kept
    <3> QED
      BY <1>3, <2>1, <3>1 DEF LastChunk, CountsOK, OnDisk, OnlyWritten
  <2>3. Cardinality(OnDisk') = Cardinality(OnDisk) + 1
    BY <1>1, <2>2, FS_AddElement
  <2>4. filesReceived' = filesReceived + 1
    BY <1>3 DEF LastChunk
  <2>5. OnDisk' \subseteq Ended'
    BY <2>1, <2>2 DEF OnlyWritten
  <2> QED
    BY <1>1, <2>3, <2>4, <2>5 DEF OnlyWritten, CountsOK
<1>4. CASE Done \/ Decided \/ UNCHANGED vars
  BY <1>4 DEF Done, Decided, vars, OnlyWritten, OnDisk, Ended
<1> QED
  BY <1>2, <1>3, <1>4 DEF Next

\* What the message "Received all files" says is true as long as no write fails; a
\* directory that cannot be made does not matter, for its file is not counted.
THEOREM AllOnDisk == Spec /\ WritesSucceed => []ReceivedAllFiles
<1>1. Init => OnlyWritten
  <2> SUFFICES ASSUME Init PROVE OnlyWritten
    OBVIOUS
  <2>1. OnDisk = {}
    BY FileReceiverAssumption DEF Init, OnDisk
  <2> QED
    BY <2>1, FS_EmptySet DEF Init, OnlyWritten
<1>2. (IInv /\ OnlyWritten /\ [Next]_vars /\ [\A f \in Files : ~WriteFails(f)]_vars)
         => OnlyWritten'
  <2> SUFFICES ASSUME IInv, OnlyWritten, [Next]_vars,
                      [\A f \in Files : ~WriteFails(f)]_vars
               PROVE  OnlyWritten'
    OBVIOUS
  <2>1. CASE UNCHANGED vars
    BY <2>1 DEF vars, OnlyWritten, OnDisk, Ended
  <2> QED
    BY <2>1, WrittenStep
<1>3. IInv /\ OnlyWritten => ReceivedAllFiles
  <2> SUFFICES ASSUME IInv, OnlyWritten, verdict = "accepted" PROVE Missing = {}
    BY DEF ReceivedAllFiles
  <2>1. OnDisk \in SUBSET Files
    BY DEF OnDisk
  <2>2. Cardinality(Files) <= Cardinality(OnDisk)
    BY DEF IInv, Checked, OnlyWritten, totalFiles
  <2>3. /\ Cardinality(OnDisk) \in Nat /\ Cardinality(Files) \in Nat
        /\ Cardinality(OnDisk) <= Cardinality(Files)
        /\ Cardinality(Files) = Cardinality(OnDisk) => Files = OnDisk
    BY <2>1, FS_Subset, FS_CardinalityType, FileReceiverAssumption
  <2>4. Files = OnDisk
    BY <2>2, <2>3
  <2> QED
    BY <2>4 DEF Missing, OnDisk
<1> QED
  BY <1>1, <1>2, <1>3, Invariance, PTL DEF Spec, WritesSucceed

\* Where neither a directory nor a file fails, every file that was received is counted
\* and leaves no buffer.
AllCounted ==
    /\ filesReceived = Cardinality(Ended)
    /\ Buffered \cap Ended = {}

DiskWorks == [][\A f \in Files : ~WriteFails(f) /\ ~NoDirectory(f)]_vars

\* An upload is only refused when the client cut it short.
RefusedWasCutShort == verdict \in {"partial", "miscounted"} => Ended # Files

LEMMA CountedStep ==
  ASSUME IInv, AllCounted, RefusedWasCutShort, [Next]_vars,
         \A f \in Files : ~WriteFails(f) /\ ~NoDirectory(f)
  PROVE  AllCounted' /\ RefusedWasCutShort'
<1> USE FileReceiverAssumption DEF IInv
<1>1. ASSUME NEW f \in Files, MiddleChunk(f)
      PROVE  AllCounted' /\ RefusedWasCutShort'
  <2>1. Ended' = Ended /\ filesReceived' = filesReceived /\ verdict' = "none" /\ f \notin Ended
    BY <1>1, EndedMiddle DEF MiddleChunk, Arrives, IsLastChunk, CountsOK, Ended
  <2>2. Buffered' \subseteq Buffered \cup {f}
    BY <1>1 DEF MiddleChunk, Buffer, CountsOK, Buffered
  <2> QED
    BY <2>1, <2>2 DEF AllCounted, RefusedWasCutShort
<1>2. ASSUME NEW f \in Files, LastChunk(f)
      PROVE  AllCounted' /\ RefusedWasCutShort'
  <2>1. Ended' = Ended \cup {f} /\ verdict' = "none"
    BY <1>2 DEF LastChunk, CountsOK, Arrives, IsLastChunk, Ended
  <2>2. filesReceived' = filesReceived + 1 /\ Cardinality(Ended') = Cardinality(Ended) + 1
    BY <1>2, EndedLast DEF LastChunk
  <2>3. Buffered' = Buffered \ {f}
    BY <1>2 DEF LastChunk, CountsOK, Buffered
  <2> QED
    BY <2>1, <2>2, <2>3 DEF AllCounted, RefusedWasCutShort
<1>3. CASE Done
  <2>1. AllCounted'
    BY <1>3 DEF Done, AllCounted, Ended, Buffered
  <2>2. Ended' = Ended
    BY <1>3 DEF Done, Ended
  <2>3. Ended = Files => ~TooManyBuffers /\ filesReceived = totalFiles
    <3> SUFFICES ASSUME Ended = Files PROVE ~TooManyBuffers /\ filesReceived = totalFiles
      OBVIOUS
    <3>1. Buffered = {}
      BY DEF AllCounted, Buffered
    <3> QED
      BY <3>1, FS_EmptySet DEF AllCounted, TooManyBuffers, totalFiles
  <2>4. Ended = Files => verdict' \notin {"partial", "miscounted"}
    BY <1>3, <2>3 DEF Done
  <2> QED
    BY <2>1, <2>2, <2>4 DEF RefusedWasCutShort
<1>4. CASE Decided \/ UNCHANGED vars
  BY <1>4 DEF Decided, vars, AllCounted, RefusedWasCutShort, Ended, Buffered
<1> QED
  BY <1>1, <1>2, <1>3, <1>4 DEF Next

\* On a disk that works, an upload that was sent whole is never refused, however the
\* chunks of its files are interleaved.
THEOREM WholeIsNotRefused == Spec /\ DiskWorks => []RefusedWasCutShort
<1>1. Init => AllCounted /\ RefusedWasCutShort
  <2> SUFFICES ASSUME Init PROVE AllCounted /\ RefusedWasCutShort
    OBVIOUS
  <2>1. Ended = {} /\ Buffered = {}
    BY FileReceiverAssumption DEF Init, Ended, Buffered
  <2> QED
    BY <2>1, FS_EmptySet DEF Init, AllCounted, RefusedWasCutShort
<1>2. (/\ IInv /\ AllCounted /\ RefusedWasCutShort /\ [Next]_vars
       /\ [\A f \in Files : ~WriteFails(f) /\ ~NoDirectory(f)]_vars)
         => AllCounted' /\ RefusedWasCutShort'
  <2> SUFFICES ASSUME IInv, AllCounted, RefusedWasCutShort, [Next]_vars,
                      [\A f \in Files : ~WriteFails(f) /\ ~NoDirectory(f)]_vars
               PROVE  AllCounted' /\ RefusedWasCutShort'
    OBVIOUS
  <2>1. CASE UNCHANGED vars
    BY <2>1 DEF vars, AllCounted, RefusedWasCutShort, Ended, Buffered
  <2> QED
    BY <2>1, CountedStep
<1> QED
  BY <1>1, <1>2, Invariance, PTL DEF Spec, DiskWorks
=============================================================================
