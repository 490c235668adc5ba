----------------------------- MODULE CallProofs -----------------------------
(***************************************************************************)
(* Proofs about one call from both ends (Call.tla), for any number of      *)
(* files and reports and any window of the stream.                         *)
(***************************************************************************)
EXTENDS Call, TLAPS

(***************************************************************************)
(* The inductive invariant.                                                *)
(***************************************************************************)
\* Where the three goroutines of the client are, and what became of an error.
ClientOK ==
    /\ errClosed => receiver = "done" /\ main \in {"collect", "exit0", "exit1"}
    /\ receiver = "failing" => failed
    /\ failed => receiver = "failing" \/ collector = "appending" \/ errors > 0
    /\ errors \in Nat
    /\ collector = "done" => errClosed
    /\ main = "exit0" => errors = 0 /\ collector = "done"

\* Everything that was sent is on its way or was received.
SentOK ==
    /\ {sent, present, announced, up, received, count} \subseteq Nat
    /\ sent <= present
    /\ main = "metadata" => received + up = 0 /\ sent = 0
    /\ main \in {"upload", "wait", "collect", "exit0", "exit1"} => received + up = sent + 1
    /\ received + up <= sent + 1
    /\ halfClosed => main \in {"wait", "collect", "exit0", "exit1"} /\ sent = present

Uploading == Server!Receiving \cup {"setup"}

\* How many files the server has, and where it knows that there are no more.
ServerOK ==
    /\ stage \in Server!Stages
    /\ handler \in Uploading => stage = "upload"
    /\ handler \in {"walk", "process"} => stage # "upload"
    /\ handler \in {"metadata", "authorise"} => received = 1
    /\ handler = "respond" => preflightErr \/ (halfClosed /\ up = 0)
    /\ handler = "join" => halfClosed /\ up = 0
    /\ handler \in Server!Delivering \cup Server!Closing \cup {"answered"} => upload = "accepted"
    /\ handler \in Uploading \cup Server!Batch /\ stage = "upload" =>
          upload \notin {"accepted", "rejected"}
    /\ stage # "upload" => upload = "accepted"
    /\ upload = "accepted" =>
          halfClosed /\ received = sent + 1 /\ announced <= sent /\ sent <= files + 1
    /\ pushed => upload = "accepted"
    /\ stage = "upload" =>
          /\ received = 0 => count = 0
          /\ received > 0 => count + 1 <= received
          /\ handler \in {"start", "buffer"} => count + 2 <= received
    /\ received > 1 /\ ~preflightErr => upload \in {"started", "accepted", "rejected"}
    /\ handler = "panicked" /\ upload = "ready" => halfClosed /\ sent = 0

HasSummary == summary \in {"held", "printed"} \/ \E i \in DOMAIN down : down[i] = "summary"

\* How the summary gets to a client that is there to take it.
AnswerOK ==
    /\ down \in Seq({"progress", "summary"})
    /\ ctx \in {"live", "cancelled", "finished"}
    /\ ctx = "cancelled" => deadline = "expired" \/ ~Connected
    /\ ctx = "finished" => handler \in Server!Returned
    /\ handler \in {"wait", "answered"} /\ deadline = "live" /\ Connected => HasSummary
    /\ receiver \in {"returning", "done"} /\ ~failed /\ deadline = "live" =>
          handler = "answered" /\ summary \in {"held", "printed"}
    /\ receiver = "done" => summary # "held"

IInv == ClientOK /\ SentOK /\ ServerOK /\ AnswerOK

LEMMA InitIInv == Init => IInv
<1> SUFFICES ASSUME Init PROVE IInv
  OBVIOUS
<1> USE CallAssumption DEF Init, Server!Init, Caller!Init, Caller!CountFiles
<1>1. ClientOK
  BY DEF ClientOK
<1>2. SentOK
  BY DEF SentOK
<1>3. ServerOK
  BY DEF ServerOK, Uploading, Server!Receiving, Server!Delivering, Server!Closing,
     Server!Batch, Server!Stages
<1>4. AnswerOK
  BY DEF AnswerOK, HasSummary, Server!Returned
<1> QED
  BY <1>1, <1>2, <1>3, <1>4 DEF IInv

(***************************************************************************)
(* The server's own steps.                                                 *)
(***************************************************************************)
LEMMA ServerWorksKeeps == IInv /\ ServerWorks => IInv'
<1> SUFFICES ASSUME IInv, ServerWorks PROVE IInv'
  OBVIOUS
<1> USE DEF IInv, ClientOK, SentOK, ServerOK, AnswerOK, HasSummary, Connected, Uploading,
      Caller!Alive, Caller!Exited, Server!Receiving, Server!Delivering, Server!Closing,
      Server!Batch, Server!Returned, Server!Stages, Server!Ready, Server!Go, Server!Return,
      Server!tickerVars, Server!requestVars, Server!workVars, Server!chanVars,
      clientVars, sendVars, receiveVars, errorVars
<1>0. /\ Server!HandlerStep /\ UNCHANGED <<clientVars, link>>
      /\ handler \notin {"recv", "sending"}
      /\ handler = "join" => stage # "upload"
      /\ handler = "metadata" => handler' # "panicked"
  BY DEF ServerWorks
<1>1. CASE Server!CreateWorkspace
  BY <1>0, <1>1 DEF Server!CreateWorkspace, Server!NoWorkspace
<1>2. CASE Server!CheckContext
  BY <1>0, <1>2 DEF Server!CheckContext
<1>3. CASE Server!AssignMetadata
  BY <1>0, <1>3 DEF Server!AssignMetadata
<1>4. CASE Server!MetadataCheck
  BY <1>0, <1>4 DEF Server!MetadataCheck
<1>5. CASE Server!BufferChunk
  BY <1>0, <1>5 DEF Server!BufferChunk
<1>6. CASE Server!Respond
  BY <1>0, <1>6 DEF Server!Respond
<1>7. CASE Server!StartProcess
  BY <1>0, <1>7 DEF Server!StartProcess
<1>8. CASE Server!BeginStage("mutate")
  BY <1>0, <1>8 DEF Server!BeginStage, Server!After
<1>9. CASE Server!BeginStage("validate")
  BY <1>0, <1>9 DEF Server!BeginStage, Server!After
<1>10. CASE Server!VisitFile
  BY <1>0, <1>10 DEF Server!VisitFile
<1>11. CASE Server!FileProcessed
  BY <1>0, <1>11 DEF Server!FileProcessed
<1>12. CASE Server!WalkEnds
  BY <1>0, <1>12 DEF Server!WalkEnds, Server!StopProcess
<1>13. CASE Server!WalkCutShort
  BY <1>0, <1>13 DEF Server!WalkCutShort, Server!StopProcess
<1>14. CASE Server!FinishStage
  BY <1>0, <1>14 DEF Server!FinishStage, Server!Joined, Server!After
<1>15. CASE Server!CreateTarget
  BY <1>0, <1>15 DEF Server!CreateTarget, Server!Step
<1>16. CASE Server!OpenRepository
  BY <1>0, <1>16 DEF Server!OpenRepository, Server!Step
<1>17. CASE Server!Copy
  BY <1>0, <1>17 DEF Server!Copy, Server!Step
<1>18. CASE Server!Commit
  BY <1>0, <1>18 DEF Server!Commit, Server!Step
<1>19. CASE Server!Push
  BY <1>0, <1>19 DEF Server!Push, Server!Step
<1>20. CASE Server!CreateReview
  BY <1>0, <1>20 DEF Server!CreateReview, Server!Step
<1>21. CASE Server!CompleteReview
  BY <1>0, <1>21 DEF Server!CompleteReview, Server!Step
<1>22. CASE Server!FinishRequest
  BY <1>0, <1>22 DEF Server!FinishRequest, Server!Step
<1>23. CASE Server!Fail
  BY <1>0, <1>23 DEF Server!Fail
<1>24. CASE Server!ReturnError
  BY <1>0, <1>24 DEF Server!ReturnError
<1>25. CASE Server!SendSummary
  BY <1>0, <1>25 DEF Server!SendSummary
<1>26. CASE Server!Answer
  BY <1>0, <1>26 DEF Server!Answer
<1>27. ~(\/ Server!ReceiveMetadata \/ Server!ReceiveFile \/ Server!ReceiveEnd
       \/ Server!SummarySent \/ Server!FinishUpload)
  BY <1>0 DEF Server!ReceiveMetadata, Server!ReceiveFile, Server!ReceiveEnd,
     Server!SummarySent, Server!FinishUpload
<1>28. CASE Server!ProcessorPanics
  BY <1>0, <1>28 DEF Server!ProcessorPanics
<1>29. CASE Server!ReviewerPanics
  BY <1>0, <1>29 DEF Server!ReviewerPanics
<1> QED
  BY <1>0, <1>1, <1>2, <1>3, <1>4, <1>5, <1>6, <1>7, <1>8, <1>9, <1>10, <1>11,
     <1>12, <1>13, <1>14, <1>15, <1>16, <1>17, <1>18, <1>19, <1>20, <1>21,
     <1>22, <1>23, <1>24, <1>25, <1>26, <1>27, <1>28, <1>29
  DEF Server!HandlerStep

(***************************************************************************)
(* The server's steps that touch the stream, and its other goroutines.     *)
(***************************************************************************)
LEMMA ServerReceivesKeeps == IInv /\ ServerReceives => IInv'
<1> SUFFICES ASSUME IInv, ServerReceives PROVE IInv'
  OBVIOUS
<1> USE DEF IInv, ClientOK, SentOK, ServerOK, AnswerOK, HasSummary, Connected, Uploading,
      Caller!Alive, Caller!Exited, Server!Receiving, Server!Delivering, Server!Closing,
      Server!Batch, Server!Returned, Server!Stages, Server!Ready, Server!Go, Server!Return,
      Server!tickerVars, Server!requestVars, Server!workVars, Server!chanVars,
      clientVars, sendVars, receiveVars, errorVars
<1>1. /\ up > 0 /\ up' = up - 1
      /\ UNCHANGED <<receiveVars, errorVars, main, announced, present, sent,
                     halfClosed, deadline, link>>
  BY DEF ServerReceives
<1>2. CASE received = 0
  BY <1>1, <1>2 DEF ServerReceives, Server!ReceiveMetadata
<1>3. CASE received # 0
  <2>1. Server!ReceiveFile
    BY <1>3 DEF ServerReceives
  <2>2. CASE auth # "granted"
    BY <1>1, <1>3, <2>1, <2>2 DEF Server!ReceiveFile
  <2>3. CASE auth = "granted"
    <3>1. /\ handler = "recv" /\ stage = "upload" /\ stage' = stage /\ received' = received + 1
          /\ upload' = "started" /\ handler' \in {"start", "buffer"}
          /\ UNCHANGED <<count, preflightErr, ctx, pushed, files>>
      BY <2>1, <2>3 DEF Server!ReceiveFile
    <3>2. SentOK'
      BY <1>1, <3>1
    <3>3. ServerOK'
      <4>1. received \in Nat /\ count \in Nat /\ received > 0 /\ count + 1 <= received
        BY <1>3, <3>1
      <4>2. ~pushed /\ ~pushed'
        BY <3>1
      <4> QED
        BY <1>1, <3>1, <4>1, <4>2
    <3>4. ClientOK' /\ AnswerOK'
      BY <1>1, <3>1
    <3> QED
      BY <3>2, <3>3, <3>4
  <2> QED
    BY <2>2, <2>3
<1> QED
  BY <1>2, <1>3

LEMMA ServerEndsKeeps ==
  IInv /\ (ServerReceivesEnd \/ ServerChecksUpload) => IInv'
<1> USE DEF IInv, ClientOK, SentOK, ServerOK, AnswerOK, HasSummary, Connected, Uploading,
      Caller!Alive, Caller!Exited, Server!Receiving, Server!Delivering, Server!Closing,
      Server!Batch, Server!Returned, Server!Stages, Server!Ready, Server!Go, Server!Return,
      Server!tickerVars, Server!requestVars, Server!workVars, Server!chanVars,
      clientVars, sendVars, receiveVars, errorVars
<1>1. IInv /\ ServerReceivesEnd => IInv'
  BY DEF ServerReceivesEnd, Server!ReceiveEnd, AllReceived
<1>2. IInv /\ ServerChecksUpload => IInv'
  BY DEF ServerChecksUpload, Server!FinishUpload, Server!Joined
<1> QED
  BY <1>1, <1>2

\* What the server sends is appended to what is under way, or dropped.
LEMMA SendsKeeps ==
  ASSUME IInv, NEW m \in {"progress", "summary"}, Sends(m)
  PROVE  /\ down' \in Seq({"progress", "summary"})
         /\ HasSummary => HasSummary'
         /\ Connected /\ ctx = "live" /\ m = "summary" => HasSummary'
<1>1. down \in Seq({"progress", "summary"}) /\ summary' = summary
  BY DEF IInv, AnswerOK, Sends
<1>2. CASE down' = down
  BY <1>1, <1>2 DEF Sends, HasSummary
<1>3. CASE down' = Append(down, m)
  <2>1. \A i \in DOMAIN down : i \in DOMAIN down' /\ down'[i] = down[i]
    BY <1>1, <1>3
  <2>2. Len(down) + 1 \in DOMAIN down' /\ down'[Len(down) + 1] = m
    BY <1>1, <1>3
  <2> QED
    BY <1>1, <1>3, <2>1, <2>2 DEF HasSummary
<1> QED
  BY <1>2, <1>3 DEF Sends

LEMMA OutboxKeeps ==
  ASSUME IInv,
         \/ Alone(Server!ReporterCtxDone) \/ Alone(Server!HandlerReports)
         \/ Alone(Server!TickerReports) \/ Alone(Server!Tick) \/ Alone(Server!TickerStops)
         \/ Alone(Server!ReporterClosed)
  PROVE  IInv'
<1> USE DEF IInv, ClientOK, SentOK, ServerOK, AnswerOK, HasSummary, Connected, Uploading,
      Caller!Alive, Caller!Exited, Server!Receiving, Server!Delivering, Server!Closing,
      Server!Batch, Server!Returned, Server!Stages, Server!Ready, Server!Go, Server!Return,
      Server!tickerVars, Server!requestVars, Server!workVars, Server!chanVars,
      clientVars, sendVars, receiveVars, errorVars, Alone
<1>1. CASE Alone(Server!ReporterCtxDone)
  BY <1>1 DEF Server!ReporterCtxDone
<1>2. CASE Alone(Server!HandlerReports)
  BY <1>2 DEF Server!HandlerReports
<1>3. CASE Alone(Server!TickerReports)
  BY <1>3 DEF Server!TickerReports
<1>4. CASE Alone(Server!Tick)
  BY <1>4 DEF Server!Tick
<1>5. CASE Alone(Server!TickerStops)
  BY <1>5 DEF Server!TickerStops
<1>6. CASE Alone(Server!ReporterClosed)
  BY <1>6 DEF Server!ReporterClosed
<1> QED
  BY <1>1, <1>2, <1>3, <1>4, <1>5, <1>6

LEMMA LinkKeeps ==
  ASSUME IInv, Expire \/ LinkLost \/ ServerCancelled
  PROVE  IInv'
<1> USE DEF IInv, ClientOK, SentOK, ServerOK, AnswerOK, HasSummary, Connected, Uploading,
      Caller!Alive, Caller!Exited, Server!Receiving, Server!Delivering, Server!Closing,
      Server!Batch, Server!Returned, Server!Stages, Server!Ready, Server!Go, Server!Return,
      Server!tickerVars, Server!requestVars, Server!workVars, Server!chanVars,
      clientVars, sendVars, receiveVars, errorVars
<1>1. CASE Expire
  BY <1>1 DEF Expire, Caller!Expire, serverVars, Caller!sendVars, Caller!receiveVars, Caller!errorVars
<1>2. CASE LinkLost
  <2>0. /\ UNCHANGED <<serverVars, sendVars, errorVars, receiver, failed, summary, deadline>>
        /\ link' = "lost" /\ (down' = down \/ down' = <<>>)
    BY <1>2 DEF LinkLost
  <2>1. ~Connected' /\ down' \in Seq({"progress", "summary"})
    <3>1. ~Connected'
      BY <2>0
    <3>2. down \in Seq({"progress", "summary"}) /\ <<>> \in Seq({"progress", "summary"})
      OBVIOUS
    <3> QED
      BY <2>0, <3>1, <3>2
  <2>2. ClientOK' /\ SentOK' /\ ServerOK'
    BY <2>0, <2>1 DEF serverVars
  <2>3. AnswerOK'
    BY <2>0, <2>1 DEF serverVars
  <2> QED
    BY <2>2, <2>3
<1>3. CASE ServerCancelled
  BY <1>3 DEF ServerCancelled, Alone, Server!Cancel
<1> QED
  BY <1>1, <1>2, <1>3

LEMMA ServerSendsKeeps ==
  ASSUME IInv, ServerSendsProgress \/ ServerSendsSummary
  PROVE  IInv'
<1> USE DEF IInv, ClientOK, SentOK, ServerOK, AnswerOK, HasSummary, Connected, Uploading,
      Caller!Alive, Caller!Exited, Server!Receiving, Server!Delivering, Server!Closing,
      Server!Batch, Server!Returned, Server!Stages, Server!Ready, Server!Go, Server!Return,
      Server!tickerVars, Server!requestVars, Server!workVars, Server!chanVars,
      clientVars, sendVars, receiveVars, errorVars
<1>1. CASE ServerSendsProgress
  BY <1>1, SendsKeeps DEF ServerSendsProgress, Server!ReporterSent, Sends
<1>2. CASE ServerSendsSummary
  <2>1. CASE handler' = "wait"
    <3>1. /\ handler = "sending" /\ ctx' = ctx
          /\ UNCHANGED <<stage, received, upload, preflightErr, count, files, pushed>>
          /\ Sends("summary")
      BY <1>2, <2>1 DEF ServerSendsSummary, Server!SummarySent
    <3>2. UNCHANGED <<sendVars, errorVars, receiver, failed, summary, deadline, link>>
      BY <3>1 DEF Sends
    <3>3. /\ down' \in Seq({"progress", "summary"})
          /\ Connected /\ ctx = "live" => HasSummary'
      BY <3>1, SendsKeeps
    <3>4. ctx = "live" \/ deadline = "expired" \/ ~Connected
      BY <3>1
    <3>5. ClientOK' /\ SentOK' /\ ServerOK'
      BY <2>1, <3>1, <3>2
    <3>6. AnswerOK'
      <4> HIDE DEF HasSummary
      <4> QED
        BY <2>1, <3>1, <3>2, <3>3, <3>4
    <3> QED
      BY <3>5, <3>6
  <2>2. CASE handler' # "wait"
    BY <1>2, <2>2 DEF ServerSendsSummary, Server!SummarySent
  <2> QED
    BY <2>1, <2>2
<1> QED
  BY <1>1, <1>2

(***************************************************************************)
(* The client's steps.                                                     *)
(***************************************************************************)
LEMMA MainKeeps ==
  ASSUME IInv, ClientMain \/ ClientWalks
  PROVE  IInv'
<1> USE DEF IInv, ClientOK, SentOK, ServerOK, AnswerOK, HasSummary, Connected, Uploading,
      Caller!Alive, Caller!Exited, Server!Returned, Caller!sendVars, Caller!receiveVars,
      Caller!errorVars, serverVars
<1>1. CASE Caller!SendMetadata /\ UNCHANGED <<serverVars, link>>
  BY <1>1 DEF Caller!SendMetadata, Caller!Send
<1>2. CASE Caller!SendFile /\ UNCHANGED <<serverVars, link>>
  BY <1>2 DEF Caller!SendFile, Caller!Send
<1>3. CASE Caller!UploadFails /\ UNCHANGED <<serverVars, link>>
  BY <1>3 DEF Caller!UploadFails
<1>4. CASE Caller!CloseSend /\ UNCHANGED <<serverVars, link>>
  BY <1>4 DEF Caller!CloseSend
<1>5. CASE Caller!CloseErrors /\ UNCHANGED <<serverVars, link>>
  BY <1>5 DEF Caller!CloseErrors
<1>6. CASE Caller!Exit /\ UNCHANGED <<serverVars, link>>
  BY <1>6 DEF Caller!Exit
<1>7. CASE Caller!SkipDirectory /\ UNCHANGED <<serverVars, link>>
  BY <1>7 DEF Caller!SkipDirectory
<1> QED
  BY <1>1, <1>2, <1>3, <1>4, <1>5, <1>6, <1>7
  DEF ClientMain, ClientWalks, Caller!MainStep, Caller!SendFails, Caller!WalkStep

LEMMA ReceiverKeeps ==
  ASSUME IInv, ClientReceiver \/ ClientCollector
  PROVE  IInv'
<1> USE DEF IInv, ClientOK, SentOK, ServerOK, AnswerOK, HasSummary, Connected, Uploading,
      Caller!Alive, Caller!Exited, Server!Returned, Caller!sendVars, Caller!receiveVars,
      Caller!errorVars, serverVars
<1>1. CASE Caller!CheckContext /\ UNCHANGED <<serverVars, link>>
  BY <1>1 DEF Caller!CheckContext
<1>2. CASE Caller!RecvMessage /\ UNCHANGED <<serverVars, link>>
  <2>1. /\ receiver = "recv" /\ receiver' = "check" /\ down # <<>> /\ down' = Tail(down)
        /\ summary' = IF Head(down) = "summary" THEN "held" ELSE summary
        /\ UNCHANGED <<serverVars, link, sendVars, errorVars, failed, deadline>>
    BY <1>2 DEF Caller!RecvMessage, sendVars, errorVars
  <2>2. ClientOK' /\ SentOK' /\ ServerOK'
    BY <2>1 DEF sendVars, errorVars
  <2>3. down' \in Seq({"progress", "summary"}) /\ (HasSummary => HasSummary')
    <3>1. down \in Seq({"progress", "summary"})
      OBVIOUS
    <3>2. CASE Head(down) = "summary"
      BY <2>1, <3>1, <3>2
    <3>3. CASE Head(down) # "summary"
      <4>1. \A i \in DOMAIN down : i = 1 \/ (i - 1 \in DOMAIN down' /\ down'[i - 1] = down[i])
        BY <2>1, <3>1
      <4>2. down[1] # "summary"
        BY <2>1, <3>1, <3>3
      <4> QED
        <5>1. CASE summary \in {"held", "printed"}
          BY <2>1, <3>3, <5>1
        <5>2. ASSUME NEW i \in DOMAIN down, down[i] = "summary" PROVE HasSummary'
          <6>1. i - 1 \in DOMAIN down' /\ down'[i - 1] = "summary"
            BY <4>1, <4>2, <5>2
          <6> QED
            BY <6>1
        <5> QED
          BY <2>1, <3>1, <5>1, <5>2
    <3> QED
      BY <3>2, <3>3
  <2>4. AnswerOK'
    <3> HIDE DEF HasSummary
    <3> QED
      BY <2>1, <2>3 DEF sendVars, errorVars
  <2> QED
    BY <2>2, <2>4
<1>3. CASE Caller!RecvEnd /\ UNCHANGED <<serverVars, link>>
  BY <1>3 DEF Caller!RecvEnd
<1>4. CASE Caller!RecvFails /\ UNCHANGED <<serverVars, link>>
  BY <1>4 DEF Caller!RecvFails
<1>5. CASE Caller!HandOverError /\ UNCHANGED <<serverVars, link>>
  BY <1>5 DEF Caller!HandOverError
<1>6. CASE Caller!ReceiverDone /\ UNCHANGED <<serverVars, link>>
  BY <1>6 DEF Caller!ReceiverDone
<1>7. CASE Caller!AppendError /\ UNCHANGED <<serverVars, link>>
  BY <1>7 DEF Caller!AppendError
<1>8. CASE Caller!CollectorDone /\ UNCHANGED <<serverVars, link>>
  BY <1>8 DEF Caller!CollectorDone
<1> QED
  BY <1>1, <1>2, <1>3, <1>4, <1>5, <1>6, <1>7, <1>8
  DEF ClientReceiver, ClientCollector, Caller!ReceiverStep, Caller!CollectorStep

LEMMA NextKeeps == IInv /\ [Next]_vars => IInv'
<1> SUFFICES ASSUME IInv, [Next]_vars PROVE IInv'
  OBVIOUS
<1>1. CASE UNCHANGED vars
  BY <1>1 DEF vars, serverVars, clientVars, sendVars, receiveVars, errorVars,
    IInv, ClientOK, SentOK, ServerOK, AnswerOK, HasSummary, Connected, Uploading,
    Caller!Alive, Caller!Exited, Server!Returned
<1> QED
  BY <1>1, ServerWorksKeeps, ServerReceivesKeeps, ServerEndsKeeps, OutboxKeeps, LinkKeeps,
     ServerSendsKeeps, MainKeeps, ReceiverKeeps
  DEF Next, ServerHandler, ServerReporter

LEMMA Invariance == Spec => []IInv
BY InitIInv, NextKeeps, PTL DEF Spec

(***************************************************************************)
(* What follows.                                                           *)
(***************************************************************************)
\* Wait closes errCh only when the receiver has nothing more to send on it.
THEOREM ErrChSafe == Spec => []NoSendOnClosedErrCh
<1>1. IInv => NoSendOnClosedErrCh
  BY DEF IInv, ClientOK, NoSendOnClosedErrCh
<1> QED
  BY <1>1, Invariance, PTL

\* An error of the stream reaches the exit code.
THEOREM ErrorsReported == Spec => []ErrorsFailTheClient
<1>1. IInv => ErrorsFailTheClient
  BY DEF IInv, ClientOK, ErrorsFailTheClient
<1> QED
  BY <1>1, Invariance, PTL

\* Before the deadline, exit code 0 means that the server answered and that its
\* summary was printed.
THEOREM ExitZero == Spec => []ExitZeroMeansDone
<1>1. IInv => ExitZeroMeansDone
  BY DEF IInv, ClientOK, AnswerOK, ExitZeroMeansDone
<1> QED
  BY <1>1, Invariance, PTL

\* A client that dies during the upload leaves nothing behind.
THEOREM FatalSafe == Spec => []FatalPushesNothing
<1>1. IInv => FatalPushesNothing
  BY DEF IInv, SentOK, ServerOK, FatalPushesNothing
<1> QED
  BY <1>1, Invariance, PTL

\* What is pushed was received to the last file the client sent, is on the server's disk
\* but for one file at most, and has no fewer files than were announced.
THEOREM PushComplete == Spec => []PushIsComplete
<1>1. IInv => PushIsComplete
  BY DEF IInv, ServerOK, PushIsComplete
<1> QED
  BY <1>1, Invariance, PTL

\* Before its first file, no client takes the server down by dying or losing its
\* connection, only by half-closing its stream.
THEOREM DisconnectSafe == Spec => []DisconnectIsHarmless
<1>1. IInv => DisconnectIsHarmless
  BY DEF IInv, ServerOK, DisconnectIsHarmless
<1> QED
  BY <1>1, Invariance, PTL
=============================================================================
