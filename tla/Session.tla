------------------------------ MODULE Session ------------------------------
(***************************************************************************)
(* One UpdateManifests call of the server (pkg/server/server.go): the      *)
(* handler goroutine, the reporter goroutine that forwards progress to the *)
(* client (pkg/progress/reporter.go), the ticker goroutine that each batch *)
(* of files owns (pkg/progress/process.go), and the stream's context.      *)
(*                                                                         *)
(* Progress is handed over on an unbuffered channel, so a goroutine that   *)
(* reports cannot go on until the reporter takes the report.  "outbox"     *)
(* counts the reports the handler still has to hand over before its next   *)
(* step; every step of the handler waits for an empty outbox (Ready).      *)
(***************************************************************************)
EXTENDS Naturals

CONSTANTS
    MaxMessages,  \* bound: messages the client sends before it half-closes
    MaxReports    \* bound: reports of one call of a strategy or processor

ASSUME SessionAssumption ==
    /\ MaxMessages \in Nat
    /\ MaxReports \in Nat \ {0}

VARIABLES
    handler,      \* where the handler goroutine is
    outbox,       \* reports it must hand over before its next step
    stage,        \* the batch of files in hand: upload, mutate or validate
    reporter,     \* the goroutine of Reporter.Run
    closed,       \* progressChan is closed
    ctx,          \* the stream's context
    ticker,       \* the goroutine of ProcessReporter.Start
    procDone,     \* ProcessReporter.cancel has been called
    count,        \* ProcessReporter.ProgressCount
    snapshot,     \* the count in the last report of the ticker
    received,     \* messages received
    auth,         \* metadataRecieved and the verdict of MetadataCheck
    upload,       \* the FileReceiver
    preflightErr, \* preflightErr # nil
    files,        \* files the upload left on disk for the processors
    cut,          \* the stages whose WalkDir ended before its last file
    pushed        \* the update was pushed

tickerVars  == <<ticker, procDone, count, snapshot>>
requestVars == <<received, auth, upload, preflightErr>>
workVars    == <<files, cut, pushed>>
chanVars    == <<reporter, closed, ctx>>
vars == <<handler, outbox, stage, tickerVars, requestVars, workVars, chanVars>>

Stages == {"upload", "mutate", "validate"}
Receiving == {"check", "recv", "metadata", "authorise", "buffer", "respond"}
Batch     == {"start", "walk", "process", "join"}
Delivering == {"prepare", "open", "mutate", "validate", "copy", "commit",
               "push", "review", "complete", "finish"}
Closing   == {"send", "sending", "wait"}
Returned  == {"answered", "aborted"}
Places == {"setup", "failing", "panicked"}
             \cup Receiving \cup Batch \cup Delivering \cup Closing \cup Returned

TickerLive == ticker \in {"waiting", "sending", "final"}

FlagsOK ==
    /\ closed \in BOOLEAN
    /\ procDone \in BOOLEAN
    /\ preflightErr \in BOOLEAN
    /\ pushed \in BOOLEAN

StatesOK ==
    /\ handler \in Places
    /\ outbox \in 0 .. (MaxReports + 3)
    /\ stage \in Stages
    /\ reporter \in {"idle", "sending", "done", "gone"}
    /\ ctx \in {"live", "cancelled", "finished"}
    /\ ticker \in {"none", "waiting", "sending", "final", "exited"}
    /\ count \in Nat
    /\ snapshot \in Nat
    /\ received \in 0 .. MaxMessages
    /\ auth \in {"none", "asked", "granted", "denied"}
    /\ upload \in {"none", "ready", "started", "accepted", "rejected"}
    /\ files \in Nat
    /\ cut \subseteq Stages

TypeOK == FlagsOK /\ StatesOK

Init ==
    /\ handler = "setup" /\ outbox = 0 /\ stage = "upload"
    /\ reporter = "idle" /\ closed = FALSE /\ ctx = "live"
    /\ ticker = "none" /\ procDone = FALSE /\ count = 0 /\ snapshot = 0
    /\ received = 0 /\ auth = "none" /\ upload = "none" /\ preflightErr = FALSE
    /\ files = 0 /\ cut = {} /\ pushed = FALSE

(***************************************************************************)
(* The handler: helpers.                                                   *)
(***************************************************************************)
Ready(p) == handler = p /\ outbox = 0

\* The handler moves to p once it has handed over n reports.
Go(p, n) == handler' = p /\ outbox' = n

\* The handler returns; gRPC then cancels the stream's context.
Return(p) ==
    /\ Go(p, 0)
    /\ ctx' = "finished"

\* What the handler does after a stage.
After(s) == CASE s = "upload"   -> "prepare"
              [] s = "mutate"   -> "validate"
              [] s = "validate" -> "copy"

(***************************************************************************)
(* The handler: receiving the request.                                     *)
(***************************************************************************)
\* NewTempFS or Mkdir failed.
NoWorkspace == Return("aborted")

CreateWorkspace ==
    /\ Ready("setup")
    /\ (Go("check", 1) /\ ctx' = ctx) \/ NoWorkspace
    /\ UNCHANGED <<stage, tickerVars, requestVars, workVars, reporter, closed>>

CheckContext ==
    /\ Ready("check")
    /\ IF ctx = "live" THEN Go("recv", 0) /\ ctx' = ctx ELSE Return("aborted")
    /\ UNCHANGED <<stage, tickerVars, requestVars, workVars, reporter, closed>>

ReceiveMetadata ==
    /\ Ready("recv")
    /\ received < MaxMessages
    /\ received' = received + 1
    /\ Go("metadata", 1)
    /\ UNCHANGED <<stage, tickerVars, auth, upload, preflightErr, workVars, chanVars>>

\* The second metadata message of a stream is refused after it was reported.  A
\* repository or a source that the first one lacks is a nil pointer.
AssignMetadata ==
    /\ Ready("metadata")
    /\ \/ /\ auth = "none" /\ auth' = "asked"
          /\ \E n \in 0 .. MaxReports : Go("authorise", 2 + n)
          /\ UNCHANGED ctx
       \/ auth = "none" /\ Go("panicked", 0) /\ UNCHANGED <<auth, ctx>>
       \/ auth # "none" /\ Return("aborted") /\ UNCHANGED auth
    /\ UNCHANGED <<stage, tickerVars, received, upload, preflightErr, workVars,
                   reporter, closed>>

MetadataCheck ==
    /\ Ready("authorise")
    /\ \/ /\ auth' = "granted" /\ upload' = "ready"
          /\ Go("check", 1)
          /\ UNCHANGED preflightErr
       \/ /\ auth' = "denied" /\ preflightErr' = TRUE
          /\ Go("respond", 1)
          /\ UNCHANGED upload
    /\ UNCHANGED <<stage, tickerVars, received, workVars, chanVars>>

\* The first chunk starts the ticker of the upload, reporting before it does.
ReceiveFile ==
    /\ Ready("recv")
    /\ received < MaxMessages
    /\ received' = received + 1
    /\ IF auth # "granted"
       THEN preflightErr' = TRUE /\ Go("respond", 0) /\ UNCHANGED upload
       ELSE /\ upload' = "started"
            /\ IF upload = "ready" THEN Go("start", 2) ELSE Go("buffer", 0)
            /\ UNCHANGED preflightErr
    /\ UNCHANGED <<stage, tickerVars, auth, workVars, chanVars>>

\* receiveFileChunk counts the last chunk of a file (FileReceiver has the rest).
BufferChunk ==
    /\ Ready("buffer")
    /\ \E last \in 0 .. 1 : count' = count + last
    /\ Go("check", 0)
    /\ UNCHANGED <<stage, ticker, procDone, snapshot, requestVars, workVars, chanVars>>

\* Recv reports the client's half-close, or fails: the context has ended, or the
\* message is too large or malformed.
ReceiveEnd ==
    /\ Ready("recv")
    /\ (Go("respond", 0) /\ ctx' = ctx) \/ Return("aborted")
    /\ UNCHANGED <<stage, tickerVars, requestVars, workVars, reporter, closed>>

\* fileReceiver.done: it stops the ticker first, and there is none to stop when
\* no file was received (p.cancel is nil) or no metadata came (a nil receiver).
Respond ==
    /\ Ready("respond")
    /\ IF ctx # "live" \/ preflightErr
       THEN Return("aborted") /\ UNCHANGED procDone
       ELSE IF upload # "started"
            THEN Go("panicked", 0) /\ UNCHANGED <<ctx, procDone>>
            ELSE Go("join", 0) /\ procDone' = TRUE /\ ctx' = ctx
    /\ UNCHANGED <<stage, ticker, count, snapshot, requestVars, workVars,
                   reporter, closed>>

(***************************************************************************)
(* The handler: batches of files.                                          *)
(***************************************************************************)
\* ProcessReporter.Start, whose opening report has been handed over.
StartProcess ==
    /\ Ready("start")
    /\ ticker' = "waiting"
    /\ Go(IF stage = "upload" THEN "buffer" ELSE "walk", 0)
    /\ UNCHANGED <<stage, procDone, count, snapshot, requestVars, workVars, chanVars>>

\* A stage gets a ProcessReporter of its own, started if it has processors.
BeginStage(s) ==
    /\ Ready(s)
    /\ stage' = s
    /\ ticker' = "none" /\ procDone' = FALSE /\ count' = 0 /\ snapshot' = 0
    /\ \/ Go("start", 2)
       \/ Go(After(s), 3)                            \* no processors
    /\ UNCHANGED <<requestVars, workVars, chanVars>>

\* WalkDir visits the next file, unless the context has ended.
VisitFile ==
    /\ Ready("walk")
    /\ count < files /\ ctx = "live"
    /\ \E n \in 0 .. MaxReports : Go("process", n)
    /\ UNCHANGED <<stage, tickerVars, requestVars, workVars, chanVars>>

FileProcessed ==
    /\ Ready("process")
    /\ count' = count + 1
    /\ Go("walk", 0)
    /\ UNCHANGED <<stage, ticker, procDone, snapshot, requestVars, workVars, chanVars>>

\* A processor panics: Get reads past the end of a list, or a validator's result is
\* nil.  Nothing recovers.
ProcessorPanics ==
    /\ Ready("process")
    /\ Go("panicked", 0)
    /\ UNCHANGED <<stage, tickerVars, requestVars, workVars, chanVars>>

\* ProcessReporter.Done, the first half: p.cancel().
StopProcess ==
    /\ procDone' = TRUE
    /\ Go("join", 0)
    /\ UNCHANGED <<stage, ticker, count, snapshot, requestVars, files, pushed, chanVars>>

WalkEnds ==
    /\ Ready("walk")
    /\ count = files
    /\ UNCHANGED cut
    /\ StopProcess

\* WalkDir stops early: the context ended, or a file could not be opened or
\* written.  The error it returns is not looked at.
WalkCutShort ==
    /\ \/ Ready("walk") /\ count < files /\ ctx # "live"
       \/ Ready("process")
    /\ cut' = cut \cup {stage}
    /\ StopProcess

\* A variant with a fault: Done does not wait.
JoinedAtOnce == TRUE

\* ProcessReporter.Done, the second half: p.wg.Wait().
Joined == ticker = "exited"

\* A variant with a fault: the error of fileReceiver.done is ignored.
FinishUploadUnchecked ==
    /\ Ready("join") /\ Joined /\ stage = "upload"
    /\ upload' \in {"accepted", "rejected"} /\ files' \in 0 .. count /\ Go("prepare", 1)
    /\ UNCHANGED <<stage, tickerVars, received, auth, preflightErr, cut, pushed,
                   chanVars>>

\* A file is counted before it is written, and again when its name is sent again, so
\* the disk may have fewer files than were counted.
FinishUpload ==
    /\ Ready("join") /\ Joined /\ stage = "upload"
    /\ \/ upload' = "accepted" /\ files' \in 0 .. count /\ Go("prepare", 1)
       \/ upload' = "rejected" /\ files' = files /\ Go("failing", 1)
    /\ UNCHANGED <<stage, tickerVars, received, auth, preflightErr, cut, pushed,
                   chanVars>>

\* A processor that ran may have reported errors or invalid files.
FinishStage ==
    /\ Ready("join") /\ Joined /\ stage # "upload"
    /\ \/ Go(After(stage), 1)
       \/ files > 0 /\ Go("failing", 1)
    /\ UNCHANGED <<stage, tickerVars, requestVars, workVars, chanVars>>

(***************************************************************************)
(* The handler: ProcessRequest around the batches (PromotionFlow has what  *)
(* these steps do to the repository).                                      *)
(***************************************************************************)
Step(p, q) ==
    /\ Ready(p)
    /\ \E n \in 1 .. MaxReports : Go(q, n)
    /\ UNCHANGED <<stage, tickerVars, requestVars, files, cut, chanVars>>

\* A call of the service or of a strategy returns an error.  A push may have taken
\* effect although its answer was lost.
Fail ==
    /\ \E p \in Delivering \ {"mutate", "validate", "finish"} :
          Ready(p) /\ pushed' \in {pushed, pushed \/ p = "push"}
    /\ \E n \in 0 .. MaxReports : Go("failing", n)
    /\ UNCHANGED <<stage, tickerVars, requestVars, files, cut, chanVars>>

\* The GitLab strategy panics on a response that never came, or on a review's URL
\* that is not GitLab's.
ReviewerPanics ==
    /\ Ready("complete")
    /\ Go("panicked", 0)
    /\ UNCHANGED <<stage, tickerVars, requestVars, workVars, chanVars>>

CreateTarget    == Step("prepare", "open") /\ UNCHANGED pushed
OpenRepository  == Step("open", "mutate") /\ UNCHANGED pushed
Copy            == Step("copy", "commit") /\ UNCHANGED pushed
Commit          == (Step("commit", "push") \/ Step("commit", "finish")) /\ UNCHANGED pushed
Push            == Step("push", "review") /\ pushed' \in {pushed, TRUE}   \* or dry run
CreateReview    == (Step("review", "complete") \/ Step("review", "finish")) /\ UNCHANGED pushed
CompleteReview  == Step("complete", "finish") /\ UNCHANGED pushed
FinishRequest   == Step("finish", "send") /\ UNCHANGED pushed

ReturnError ==
    /\ Ready("failing")
    /\ Return("aborted")
    /\ UNCHANGED <<stage, tickerVars, requestVars, workVars, reporter, closed>>

(***************************************************************************)
(* The handler: the answer.  It sends the summary on the stream itself,    *)
(* then closes the channel and waits for the reporter.                     *)
(***************************************************************************)
SendSummary ==
    /\ Ready("send")
    /\ Go("sending", 0)
    /\ UNCHANGED <<stage, tickerVars, requestVars, workVars, chanVars>>

\* A variant with a fault: reporter.Close is forgotten.
SummarySentUnclosed ==
    /\ Ready("sending")
    /\ \/ Go("wait", 0) /\ ctx' = ctx
       \/ ctx # "live" /\ Return("aborted")
    /\ UNCHANGED <<stage, tickerVars, requestVars, workVars, reporter, closed>>

SummarySent ==
    /\ Ready("sending")
    /\ \/ Go("wait", 0) /\ closed' = TRUE /\ ctx' = ctx
       \/ ctx # "live" /\ Return("aborted") /\ UNCHANGED closed
    /\ UNCHANGED <<stage, tickerVars, requestVars, workVars, reporter>>

\* A variant with a fault: the handler does not wait for the reporter.
AnswerAtOnce ==
    /\ Ready("wait")
    /\ Return("answered")
    /\ UNCHANGED <<stage, tickerVars, requestVars, workVars, reporter, closed>>

Answer ==
    /\ Ready("wait")
    /\ reporter = "done"
    /\ Return("answered")
    /\ UNCHANGED <<stage, tickerVars, requestVars, workVars, reporter, closed>>

(***************************************************************************)
(* The hand-over of a report: the sender and Reporter.Run meet on the      *)
(* channel, whatever the state of the context (select picks at random      *)
(* among the cases that are ready).                                        *)
(***************************************************************************)
Running == handler # "panicked"      \* a panic ends the whole process

\* A variant with a fault: a report is taken although none is offered.
HandlerReportsNothing ==
    /\ Running
    /\ reporter = "idle" /\ ~closed
    /\ reporter' = "sending"
    /\ outbox' = outbox - 1
    /\ UNCHANGED <<handler, stage, tickerVars, requestVars, workVars, closed, ctx>>

HandlerReports ==
    /\ Running /\ outbox > 0
    /\ reporter = "idle" /\ ~closed
    /\ reporter' = "sending"
    /\ outbox' = outbox - 1
    /\ UNCHANGED <<handler, stage, tickerVars, requestVars, workVars, closed, ctx>>

TickerReports ==
    /\ Running /\ ticker \in {"sending", "final"}
    /\ reporter = "idle" /\ ~closed
    /\ reporter' = "sending"
    /\ ticker' = IF ticker = "final" THEN "exited" ELSE "waiting"
    /\ UNCHANGED <<handler, outbox, stage, procDone, count, snapshot, requestVars,
                   workVars, closed, ctx>>

(***************************************************************************)
(* Reporter.Run and the goroutine of ProcessReporter.Start.                *)
(***************************************************************************)
\* stream.Send returned; an error is only logged.
ReporterSent ==
    /\ Running /\ reporter = "sending"
    /\ reporter' = "idle"
    /\ UNCHANGED <<handler, outbox, stage, tickerVars, requestVars, workVars, closed, ctx>>

ReporterCtxDone ==
    /\ Running /\ reporter = "idle" /\ ctx # "live"
    /\ reporter' = "gone"
    /\ UNCHANGED <<handler, outbox, stage, tickerVars, requestVars, workVars, closed, ctx>>

ReporterClosed ==
    /\ Running /\ reporter = "idle" /\ closed
    /\ reporter' = "done"
    /\ UNCHANGED <<handler, outbox, stage, tickerVars, requestVars, workVars, closed, ctx>>

\* The ticker reads the count while the handler may be raising it, without a lock:
\* it sees any value from its last one to the current one.  Only p.cancel orders
\* the two, and only it ends doneContext while the stream's context lives.
RacyCount == snapshot .. count

Tick ==
    /\ Running /\ ticker = "waiting"
    /\ ticker' = "sending" /\ snapshot' \in RacyCount
    /\ UNCHANGED <<handler, outbox, stage, procDone, count, requestVars, workVars, chanVars>>

\* A variant with a fault: the ticker stops without reading the count again.
TickerStopsAtOnce ==
    /\ Running /\ ticker = "waiting"
    /\ procDone \/ ctx # "live"
    /\ ticker' = "final"
    /\ UNCHANGED <<handler, outbox, stage, procDone, count, snapshot, requestVars,
                   workVars, chanVars>>

\* doneContext is a child of the stream's context.
TickerStops ==
    /\ Running /\ ticker = "waiting"
    /\ procDone \/ ctx # "live"
    /\ ticker' = "final"
    /\ snapshot' \in IF ctx = "live" THEN {count} ELSE RacyCount
    /\ UNCHANGED <<handler, outbox, stage, procDone, count, requestVars, workVars, chanVars>>

(***************************************************************************)
(* The environment, and the specification.                                 *)
(***************************************************************************)
\* The client cancels, its deadline passes or the connection is lost.
Cancel ==
    /\ Running /\ ctx = "live"
    /\ ctx' = "cancelled"
    /\ UNCHANGED <<handler, outbox, stage, tickerVars, requestVars, workVars,
                   reporter, closed>>

\* Nothing but the leftovers of a finished call.
Ended ==
    /\ handler \in Returned \cup {"panicked"}
    /\ UNCHANGED vars

HandlerStep ==
    \/ CreateWorkspace \/ CheckContext \/ ReceiveMetadata \/ AssignMetadata
    \/ MetadataCheck \/ ReceiveFile \/ BufferChunk \/ ReceiveEnd \/ Respond
    \/ StartProcess \/ BeginStage("mutate") \/ BeginStage("validate")
    \/ VisitFile \/ FileProcessed \/ ProcessorPanics \/ WalkEnds \/ WalkCutShort
    \/ FinishUpload \/ FinishStage
    \/ CreateTarget \/ OpenRepository \/ Copy \/ Commit \/ Push \/ CreateReview
    \/ CompleteReview \/ ReviewerPanics \/ FinishRequest \/ Fail \/ ReturnError
    \/ SendSummary \/ SummarySent \/ Answer

ReporterStep == ReporterSent \/ ReporterCtxDone \/ ReporterClosed

Next ==
    \/ HandlerStep \/ HandlerReports \/ TickerReports
    \/ ReporterStep \/ Tick \/ TickerStops
    \/ Cancel \/ Ended

Spec == Init /\ [][Next]_vars

\* Goroutines are scheduled, the client half-closes or cancels in the end and
\* stream.Send returns.  Blocked senders queue first-in first-out on a channel,
\* and select picks at random, so neither the handler, nor the ticker, nor a
\* stopped ticker is passed over for ever.  Ticks and cancellations may never come.
FairSpec ==
    /\ Spec
    /\ WF_vars(HandlerStep) /\ WF_vars(ReporterSent)
    /\ WF_vars(ReporterClosed) /\ SF_vars(ReporterCtxDone)
    /\ SF_vars(HandlerReports) /\ SF_vars(TickerReports) /\ SF_vars(TickerStops)

(***************************************************************************)
(* Properties.                                                             *)
(***************************************************************************)
\* Nobody is about to send on progressChan once reporter.Close has closed it: a
\* send on a closed channel panics, and would take the whole server down.
NoSendOnClosedChannel == closed => outbox = 0 /\ ~TickerLive

\* A call answered without error leaves nothing behind: every report was handed
\* over, the reporter went through wg.Done and no ticker is left running.
AnsweredIsDrained ==
    handler = "answered" => outbox = 0 /\ reporter = "done" /\ ~TickerLive

\* While the stream lives, the last report of a batch gives its exact count: the
\* comment in process.go says the ticker sends the "final processed count".
FinalCountIsExact ==
    (ticker \in {"final", "exited"} /\ ctx = "live") => snapshot = count

\* Nothing is pushed for a request that was not authorised or whose upload was
\* not accepted, in whatever order the client's messages came.
PushNeedsApproval == pushed => auth = "granted" /\ upload = "accepted"

\* The update is pushed only after every processor saw every file, as the
\* flowchart of the README and docs/processors.md promise.
PushedWasProcessed == pushed => cut = {}

\* Unless the client gives up, the call comes to an end.
CallEnds == <>(handler \in Returned \cup {"panicked"} \/ ctx = "cancelled")

\* Once Done has told the ticker to stop, its final count is sent ("Send final
\* processed count", process.go) and the handler goes on.
FinalCountIsSent == (handler = "join") ~> (ticker = "exited")
=============================================================================
