------------------------------- MODULE Client -------------------------------
(***************************************************************************)
(* The client of one call (cmd/client/main.go, pkg/client): the main       *)
(* goroutine sends the metadata and the files, half-closes and waits; the  *)
(* receiver goroutine reads the answers and prints the summary when it     *)
(* returns; the collector goroutine gathers errors from the unbuffered     *)
(* errCh.  log.Fatalf and the end of main stop the other two.              *)
(*                                                                         *)
(* "up", "halfClosed" and "down" are the stream, as far as it is under     *)
(* way; the server is behind "ended" and "broken".  An answer of the kind  *)
(* Error (request.go) is left out: this server never sends one.            *)
(***************************************************************************)
EXTENDS Naturals, Sequences

CONSTANTS
    MaxFiles,     \* bound: files in the directory
    Window        \* messages gRPC's flow control lets be under way

VARIABLES
    main,         \* where the main goroutine is, or how it left
    announced,    \* TotalFiles, as CountFiles found it
    present,      \* files that the walk of the upload finds
    sent,         \* files sent
    receiver,     \* the goroutine of receiveMessages
    failed,       \* Recv returned an error that is no EOF
    collector,    \* the goroutine of collectErrors
    errors,       \* len(r.Errors)
    errClosed,    \* errCh is closed
    summary,      \* the receiver's own variable
    deadline,     \* the context of the call
    up,           \* messages on their way to the server
    halfClosed,   \* CloseSend was called
    down,         \* messages on their way to the client
    ended,        \* the server ended the call without an error
    broken        \* the server ended it with one, or the connection is lost

sendVars    == <<main, announced, present, sent, up, halfClosed>>
receiveVars == <<receiver, failed, summary, down>>
errorVars   == <<collector, errors, errClosed>>
vars == <<sendVars, receiveVars, errorVars, deadline>>

Exited == {"fatal", "exit0", "exit1"}
Alive == main \notin Exited

TypeOK ==
    /\ main \in {"metadata", "upload", "wait", "collect"} \cup Exited
    /\ announced \in 0 .. MaxFiles
    /\ present \in 0 .. MaxFiles
    /\ sent \in 0 .. present
    /\ receiver \in {"check", "recv", "failing", "returning", "done"}
    /\ failed \in BOOLEAN
    /\ collector \in {"ranging", "appending", "done"}
    /\ errors \in 0 .. 1
    /\ errClosed \in BOOLEAN
    /\ summary \in {"none", "held", "printed"}
    /\ deadline \in {"live", "expired"}
    /\ up \in 0 .. Window
    /\ halfClosed \in BOOLEAN
    /\ down \in Seq({"progress", "summary"}) /\ Len(down) <= Window

\* The files are counted before the call and walked after it has begun: the
\* directory may have changed.
CountFiles == announced \in 0 .. MaxFiles

Init ==
    /\ main = "metadata"
    /\ CountFiles /\ present \in 0 .. MaxFiles /\ sent = 0
    /\ receiver = "check" /\ failed = FALSE /\ summary = "none"
    /\ collector = "ranging" /\ errors = 0 /\ errClosed = FALSE
    /\ deadline = "live"
    /\ up = 0 /\ halfClosed = FALSE /\ down = <<>>

(***************************************************************************)
(* The main goroutine.                                                     *)
(***************************************************************************)
\* stream.Send returns once the message is under way, not once it is received.
Send == up < Window /\ up' = up + 1

SendMetadata ==
    /\ main = "metadata"
    /\ Send
    /\ main' = "upload"
    /\ UNCHANGED <<announced, present, sent, halfClosed, receiveVars, errorVars, deadline>>

\* A file is one chunk, the last.
SendFile ==
    /\ main = "upload" /\ sent < present
    /\ Send
    /\ sent' = sent + 1
    /\ UNCHANGED <<main, announced, present, halfClosed, receiveVars, errorVars, deadline>>

\* WalkDir cannot read a directory: uploadDir looks at its entry and not at the error,
\* so that what is below is left out and the walk goes on.
SkipDirectory ==
    /\ main = "upload" /\ sent < present
    /\ present' \in sent .. present - 1
    /\ UNCHANGED <<main, announced, sent, up, halfClosed, receiveVars, errorVars,
                   deadline>>

\* A variant with a fault: the stream is half-closed when the upload fails.
UploadFailsHalfClosed ==
    /\ main \in {"metadata", "upload"}
    /\ main' = "fatal" /\ halfClosed' = TRUE
    /\ UNCHANGED <<announced, present, sent, up, receiveVars, errorVars, deadline>>

\* The request cannot be mapped, the root is no directory or a file cannot be read:
\* log.Fatalf.
UploadFails ==
    /\ main \in {"metadata", "upload"}
    /\ main' = "fatal"
    /\ UNCHANGED <<announced, present, sent, up, halfClosed, receiveVars, errorVars,
                   deadline>>

\* stream.Send fails when the call is over, with io.EOF whatever the server said.
SendFails ==
    /\ main = "upload" => sent < present
    /\ ended \/ broken \/ deadline = "expired"
    /\ UploadFails

\* A variant with a fault: the stream is not half-closed.
CloseSendForgotten ==
    /\ main = "upload" /\ sent = present
    /\ main' = "wait"
    /\ UNCHANGED <<announced, present, sent, up, halfClosed, receiveVars, errorVars,
                   deadline>>

CloseSend ==
    /\ main = "upload" /\ sent = present
    /\ main' = "wait" /\ halfClosed' = TRUE
    /\ UNCHANGED <<announced, present, sent, up, receiveVars, errorVars, deadline>>

\* A variant with a fault: Wait closes errCh without waiting for the receiver.
CloseErrorsAtOnce ==
    /\ main = "wait"
    /\ main' = "collect" /\ errClosed' = TRUE
    /\ UNCHANGED <<announced, present, sent, up, halfClosed, receiveVars, collector,
                   errors, deadline>>

\* Wait: receiveMsg.Wait returned; errCh is closed.
CloseErrors ==
    /\ main = "wait" /\ receiver = "done"
    /\ main' = "collect" /\ errClosed' = TRUE
    /\ UNCHANGED <<announced, present, sent, up, halfClosed, receiveVars, collector,
                   errors, deadline>>

\* A variant with a fault: Wait does not wait for the collector.
ExitUncollected ==
    /\ main = "collect"
    /\ main' = IF errors > 0 THEN "exit1" ELSE "exit0"
    /\ UNCHANGED <<announced, present, sent, up, halfClosed, receiveVars, errorVars,
                   deadline>>

\* Wait: collectErr.Wait returned; main ends, with os.Exit(1) if there are errors.
Exit ==
    /\ main = "collect" /\ collector = "done"
    /\ main' = IF errors > 0 THEN "exit1" ELSE "exit0"
    /\ UNCHANGED <<announced, present, sent, up, halfClosed, receiveVars, errorVars,
                   deadline>>

(***************************************************************************)
(* The receiver.                                                           *)
(***************************************************************************)
\* Between two messages it looks at the context first: no error is recorded.
CheckContext ==
    /\ Alive /\ receiver = "check"
    /\ receiver' = IF deadline = "live" THEN "recv" ELSE "returning"
    /\ UNCHANGED <<sendVars, failed, summary, down, errorVars, deadline>>

RecvMessage ==
    /\ Alive /\ receiver = "recv" /\ down # <<>>
    /\ down' = Tail(down)
    /\ summary' = IF Head(down) = "summary" THEN "held" ELSE summary
    /\ receiver' = "check"
    /\ UNCHANGED <<sendVars, failed, errorVars, deadline>>

\* The status comes after the messages: io.EOF ends the loop.
RecvEnd ==
    /\ Alive /\ receiver = "recv" /\ down = <<>> /\ ended
    /\ receiver' = "returning"
    /\ UNCHANGED <<sendVars, failed, summary, down, errorVars, deadline>>

RecvFails ==
    /\ Alive /\ receiver = "recv"
    /\ (down = <<>> /\ broken) \/ deadline = "expired"
    /\ receiver' = "failing" /\ failed' = TRUE
    /\ UNCHANGED <<sendVars, summary, down, errorVars, deadline>>

\* errCh <- err, which meets the collector's range.
HandOverError ==
    /\ Alive /\ receiver = "failing" /\ collector = "ranging"
    /\ receiver' = "returning" /\ collector' = "appending"
    /\ UNCHANGED <<sendVars, failed, summary, down, errors, errClosed, deadline>>

\* A variant with a fault: receiveMsg.Done runs before the summary is printed.
LeavesUnprinted ==
    /\ Alive /\ receiver = "returning"
    /\ receiver' = "done"
    /\ UNCHANGED <<sendVars, failed, summary, down, errorVars, deadline>>

\* The deferred functions: the summary is printed, then receiveMsg.Done.
ReceiverDone ==
    /\ Alive /\ receiver = "returning"
    /\ summary' = IF summary = "held" THEN "printed" ELSE summary
    /\ receiver' = "done"
    /\ UNCHANGED <<sendVars, failed, down, errorVars, deadline>>

(***************************************************************************)
(* The collector, and the deadline.                                        *)
(***************************************************************************)
\* A variant with a fault: an error is gathered twice.
AppendErrorTwice ==
    /\ Alive /\ collector = "appending"
    /\ errors' = errors + 2 /\ collector' = "ranging"
    /\ UNCHANGED <<sendVars, receiveVars, errClosed, deadline>>

AppendError ==
    /\ Alive /\ collector = "appending"
    /\ errors' = errors + 1 /\ collector' = "ranging"
    /\ UNCHANGED <<sendVars, receiveVars, errClosed, deadline>>

CollectorDone ==
    /\ Alive /\ collector = "ranging" /\ errClosed
    /\ collector' = "done"
    /\ UNCHANGED <<sendVars, receiveVars, errors, errClosed, deadline>>

Expire ==
    /\ Alive /\ deadline = "live"
    /\ deadline' = "expired"
    /\ UNCHANGED <<sendVars, receiveVars, errorVars>>

MainStep == SendMetadata \/ SendFile \/ SendFails \/ CloseSend \/ CloseErrors \/ Exit
ReceiverStep ==
    \/ CheckContext \/ RecvMessage \/ RecvEnd \/ RecvFails \/ HandOverError
    \/ ReceiverDone
CollectorStep == AppendError \/ CollectorDone

WalkStep == UploadFails \/ SkipDirectory

Next == MainStep \/ WalkStep \/ ReceiverStep \/ CollectorStep \/ Expire

Spec == Init /\ [][Next]_vars
=============================================================================
