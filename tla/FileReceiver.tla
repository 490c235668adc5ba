---------------------------- MODULE FileReceiver ----------------------------
(***************************************************************************)
(* The upload of one request (pkg/server/file_receiver.go): chunks are     *)
(* gathered in a buffer per file name, the last chunk of a file writes the *)
(* buffer to the upload directory, and done() decides from two counts      *)
(* whether the upload is complete.  The handler ignores the error of       *)
(* receiveFileChunk (server.go), so what the disk refuses shows in those   *)
(* counts or nowhere.                                                      *)
(*                                                                         *)
(* A file is Chunks chunks long and what is kept of it, in a buffer or on  *)
(* disk, is how many of its chunks are there.                              *)
(***************************************************************************)
EXTENDS Naturals, FiniteSets

CONSTANTS
    Files,        \* the files the client announces and sends
    Chunks        \* chunks of a file

ASSUME FileReceiverAssumption ==
    /\ IsFiniteSet(Files)
    /\ Chunks \in Nat \ {0}

VARIABLES
    sent,              \* chunks of each file the client has sent
    buffers,           \* chunks in each file's buffer; 0 when there is none
    disk,              \* chunks in each written file; 0 when there is none
    startedReceiving,
    filesReceived,
    verdict            \* what done() answered

vars == <<sent, buffers, disk, startedReceiving, filesReceived, verdict>>

Verdicts == {"none", "accepted", "partial", "miscounted", "panicked"}

CountsOK ==
    /\ sent \in [Files -> 0 .. Chunks]
    /\ buffers \in [Files -> 0 .. Chunks]
    /\ disk \in [Files -> 0 .. Chunks]
    /\ filesReceived \in Nat
    /\ verdict \in Verdicts

TypeOK == CountsOK /\ startedReceiving \in BOOLEAN

Init ==
    /\ sent = [f \in Files |-> 0]
    /\ buffers = [f \in Files |-> 0]
    /\ disk = [f \in Files |-> 0]
    /\ startedReceiving = FALSE
    /\ filesReceived = 0
    /\ verdict = "none"

totalFiles == Cardinality(Files)

\* len(r.buffers) counts these.
Buffered == {f \in Files : buffers[f] > 0}

\* The files whose last chunk was received.
Ended == {f \in Files : sent[f] = Chunks}

(***************************************************************************)
(* receiveFileChunk.  Chunks of several files may be interleaved.          *)
(***************************************************************************)
\* A variant with a fault: a chunk more than the file has.
ArrivesOnceMore(f) ==
    /\ verdict = "none"
    /\ sent[f] <= Chunks
    /\ sent' = [sent EXCEPT ![f] = @ + 1]
    /\ startedReceiving' = TRUE
    /\ UNCHANGED verdict

Arrives(f) ==
    /\ verdict = "none"
    /\ sent[f] < Chunks
    /\ sent' = [sent EXCEPT ![f] = @ + 1]
    /\ startedReceiving' = TRUE
    /\ UNCHANGED verdict

IsLastChunk(f) == sent[f] + 1 = Chunks

Buffer(f) == buffers' = [buffers EXCEPT ![f] = @ + 1]

\* A variant with a fault: every chunk is counted as a file.
MiddleChunkCounted(f) ==
    /\ Arrives(f) /\ ~IsLastChunk(f)
    /\ Buffer(f)
    /\ filesReceived' = filesReceived + 1
    /\ UNCHANGED disk

MiddleChunk(f) ==
    /\ Arrives(f) /\ ~IsLastChunk(f)
    /\ Buffer(f)
    /\ UNCHANGED <<disk, filesReceived>>

LastChunk(f) ==
    /\ Arrives(f) /\ IsLastChunk(f)
    /\ disk' = [disk EXCEPT ![f] = buffers[f] + 1]
    /\ buffers' = [buffers EXCEPT ![f] = 0]
    /\ filesReceived' = filesReceived + 1

\* MkdirAll failed: the buffer stays and the file is not counted.
NoDirectory(f) ==
    /\ Arrives(f) /\ IsLastChunk(f)
    /\ Buffer(f)
    /\ UNCHANGED <<disk, filesReceived>>

\* A variant with a fault: the buffer is dropped before the file is written.
WriteFailsUnbuffered(f) ==
    /\ Arrives(f) /\ IsLastChunk(f)
    /\ buffers' = [buffers EXCEPT ![f] = 0]
    /\ \E n \in 0 .. Chunks - 1 : disk' = [disk EXCEPT ![f] = n]
    /\ filesReceived' = filesReceived + 1

\* WriteFile failed, perhaps half-way: the buffer stays, the file is counted.
WriteFails(f) ==
    /\ Arrives(f) /\ IsLastChunk(f)
    /\ Buffer(f)
    /\ \E n \in 0 .. Chunks - 1 : disk' = [disk EXCEPT ![f] = n]
    /\ filesReceived' = filesReceived + 1

(***************************************************************************)
(* done(), when the client half-closes the stream, possibly too early.     *)
(***************************************************************************)
\* A variant with a fault: one buffer more is tolerated.
TooManyBuffersByTwo == Cardinality(Buffered) > 2

TooManyBuffers == Cardinality(Buffered) > 1

Done ==
    /\ verdict = "none"
    /\ verdict' = CASE ~startedReceiving -> "panicked"     \* p.cancel is nil
                    [] startedReceiving /\ TooManyBuffers -> "partial"
                    [] startedReceiving /\ ~TooManyBuffers
                         /\ filesReceived # totalFiles -> "miscounted"
                    [] OTHER -> "accepted"
    /\ UNCHANGED <<sent, buffers, disk, startedReceiving, filesReceived>>

Decided == verdict # "none" /\ UNCHANGED vars

Next ==
    \/ \E f \in Files : \/ MiddleChunk(f) \/ LastChunk(f)
                        \/ NoDirectory(f) \/ WriteFails(f)
    \/ Done
    \/ Decided

Spec == Init /\ [][Next]_vars

(***************************************************************************)
(* Properties.                                                             *)
(***************************************************************************)
\* The files that are not whole on disk.
Missing == {f \in Files : disk[f] # Chunks}

\* An upload the client cut short is never accepted: every file an accepted
\* upload announced was received to its last chunk, whatever the disk refused.
AcceptedWasSentWhole == verdict = "accepted" => Ended = Files

\* Although a failed write is neither reported nor retried, an accepted upload
\* lacks at most one file: each failure leaves its buffer behind.
AcceptedMissesAtMostOne == verdict = "accepted" => Cardinality(Missing) <= 1

\* However its chunks are interleaved with those of others, a file whose buffer
\* was written and dropped is on disk from its first chunk to its last.
DroppedBufferIsOnDisk ==
    \A f \in Files : sent[f] > 0 /\ buffers[f] = 0 => disk[f] = Chunks

\* An upload that is reported as "Received all files" is on disk.
ReceivedAllFiles == verdict = "accepted" => Missing = {}
=============================================================================
