-------------------------- MODULE CallSessionProofs --------------------------
(***************************************************************************)
(* The server's end of a call (Call.tla) is a session (Session.tla): the   *)
(* stream and the client only restrict what a session may do.  What        *)
(* SessionProofs proves of any session therefore holds in every call; and  *)
(* with the client's variables, all variables of a call keep their types.  *)
(***************************************************************************)
EXTENDS CallProofs

Proofs == INSTANCE SessionProofs WITH MaxMessages <- MaxFiles + 1

(***************************************************************************)
(* Every step of a call is a step of the session or none.                  *)
(***************************************************************************)
LEMMA ServerStep == [Next]_vars => [Server!Next]_(Server!vars)
<1> SUFFICES ASSUME [Next]_vars PROVE Server!HandlerStep \/ [Server!Next]_(Server!vars)
  BY DEF Server!Next
<1>1. CASE ServerReceives
  BY <1>1 DEF ServerReceives, Server!HandlerStep
<1>2. CASE ServerReceivesEnd \/ ServerSendsSummary \/ ServerChecksUpload \/ ServerWorks
  BY <1>2 DEF ServerReceivesEnd, ServerSendsSummary, ServerChecksUpload, ServerWorks, Server!HandlerStep
<1>3. CASE ServerReporter \/ Alone(Server!ReporterCtxDone)
  BY <1>3 DEF ServerReporter, ServerSendsProgress, Alone, Server!Next, Server!ReporterStep
<1>4. CASE Alone(Server!HandlerReports) \/ Alone(Server!TickerReports) \/ Alone(Server!Tick)
             \/ Alone(Server!TickerStops) \/ ServerCancelled
  BY <1>4 DEF Alone, ServerCancelled, Server!Next
<1>5. CASE UNCHANGED serverVars
  BY <1>5 DEF serverVars, Server!vars, Server!tickerVars, Server!requestVars, Server!workVars,
     Server!chanVars
<1>6. ClientMain \/ ClientWalks \/ ClientReceiver \/ ClientCollector \/ Expire \/ LinkLost \/ UNCHANGED vars
        => UNCHANGED serverVars
  BY DEF ClientMain, ClientWalks, ClientReceiver, ClientCollector, Expire, LinkLost, vars
<1> QED
  BY <1>1, <1>2, <1>3, <1>4, <1>5, <1>6 DEF Next, ServerHandler

\* The instance that the call is made of and the one that is proved about are the same.
LEMMA SameNext == Server!Next <=> Proofs!Next
<1>1. \A s : Server!After(s) = Proofs!After(s)
  BY DEF Server!After, Proofs!After
<1> USE DEF Server!tickerVars, Proofs!tickerVars, Server!requestVars, Proofs!requestVars, Server!workVars, Proofs!workVars, Server!chanVars, Proofs!chanVars, Server!Ready, Proofs!Ready, Server!Go, Proofs!Go, Server!Return, Proofs!Return, Server!Running, Proofs!Running
<1>2. Server!CreateWorkspace <=> Proofs!CreateWorkspace
  BY DEF Server!CreateWorkspace, Proofs!CreateWorkspace, Server!NoWorkspace, Proofs!NoWorkspace
<1>3. Server!CheckContext <=> Proofs!CheckContext
  BY DEF Server!CheckContext, Proofs!CheckContext
<1>4. Server!ReceiveMetadata <=> Proofs!ReceiveMetadata
  BY DEF Server!ReceiveMetadata, Proofs!ReceiveMetadata
<1>5. Server!AssignMetadata <=> Proofs!AssignMetadata
  BY DEF Server!AssignMetadata, Proofs!AssignMetadata
<1>6. Server!MetadataCheck <=> Proofs!MetadataCheck
  BY DEF Server!MetadataCheck, Proofs!MetadataCheck
<1>7. Server!ReceiveFile <=> Proofs!ReceiveFile
  BY DEF Server!ReceiveFile, Proofs!ReceiveFile
<1>8. Server!BufferChunk <=> Proofs!BufferChunk
  BY DEF Server!BufferChunk, Proofs!BufferChunk
<1>9. Server!ReceiveEnd <=> Proofs!ReceiveEnd
  BY DEF Server!ReceiveEnd, Proofs!ReceiveEnd
<1>10. Server!Respond <=> Proofs!Respond
  BY DEF Server!Respond, Proofs!Respond
<1>11. Server!StartProcess <=> Proofs!StartProcess
  BY DEF Server!StartProcess, Proofs!StartProcess
<1>12. Server!BeginStage("mutate") <=> Proofs!BeginStage("mutate")
  BY <1>1 DEF Server!BeginStage, Proofs!BeginStage
<1>13. Server!BeginStage("validate") <=> Proofs!BeginStage("validate")
  BY <1>1 DEF Server!BeginStage, Proofs!BeginStage
<1>14. Server!VisitFile <=> Proofs!VisitFile
  BY DEF Server!VisitFile, Proofs!VisitFile
<1>15. Server!FileProcessed <=> Proofs!FileProcessed
  BY DEF Server!FileProcessed, Proofs!FileProcessed
<1>16. Server!WalkEnds <=> Proofs!WalkEnds
  BY DEF Server!WalkEnds, Proofs!WalkEnds, Server!StopProcess, Proofs!StopProcess
<1>17. Server!WalkCutShort <=> Proofs!WalkCutShort
  BY DEF Server!WalkCutShort, Proofs!WalkCutShort, Server!StopProcess, Proofs!StopProcess
<1>18. Server!FinishUpload <=> Proofs!FinishUpload
  BY DEF Server!FinishUpload, Proofs!FinishUpload, Server!Joined, Proofs!Joined
<1>19. Server!FinishStage <=> Proofs!FinishStage
  BY <1>1 DEF Server!FinishStage, Proofs!FinishStage, Server!Joined, Proofs!Joined
<1>20. Server!CreateTarget <=> Proofs!CreateTarget
  BY DEF Server!CreateTarget, Proofs!CreateTarget, Server!Step, Proofs!Step
<1>21. Server!OpenRepository <=> Proofs!OpenRepository
  BY DEF Server!OpenRepository, Proofs!OpenRepository, Server!Step, Proofs!Step
<1>22. Server!Copy <=> Proofs!Copy
  BY DEF Server!Copy, Proofs!Copy, Server!Step, Proofs!Step
<1>23. Server!Commit <=> Proofs!Commit
  BY DEF Server!Commit, Proofs!Commit, Server!Step, Proofs!Step
<1>24. Server!Push <=> Proofs!Push
  BY DEF Server!Push, Proofs!Push, Server!Step, Proofs!Step
<1>25. Server!CreateReview <=> Proofs!CreateReview
  BY DEF Server!CreateReview, Proofs!CreateReview, Server!Step, Proofs!Step
<1>26. Server!CompleteReview <=> Proofs!CompleteReview
  BY DEF Server!CompleteReview, Proofs!CompleteReview, Server!Step, Proofs!Step
<1>27. Server!FinishRequest <=> Proofs!FinishRequest
  BY DEF Server!FinishRequest, Proofs!FinishRequest, Server!Step, Proofs!Step
<1>28. Server!Fail <=> Proofs!Fail
  BY DEF Server!Fail, Proofs!Fail, Server!Delivering, Proofs!Delivering
<1>29. Server!ReturnError <=> Proofs!ReturnError
  BY DEF Server!ReturnError, Proofs!ReturnError
<1>30. Server!SendSummary <=> Proofs!SendSummary
  BY DEF Server!SendSummary, Proofs!SendSummary
<1>31. Server!SummarySent <=> Proofs!SummarySent
  BY DEF Server!SummarySent, Proofs!SummarySent
<1>32. Server!Answer <=> Proofs!Answer
  BY DEF Server!Answer, Proofs!Answer
<1>33. Server!HandlerReports <=> Proofs!HandlerReports
  BY DEF Server!HandlerReports, Proofs!HandlerReports
<1>34. Server!TickerReports <=> Proofs!TickerReports
  BY DEF Server!TickerReports, Proofs!TickerReports
<1>35. Server!ReporterStep <=> Proofs!ReporterStep
  BY DEF Server!ReporterStep, Proofs!ReporterStep, Server!ReporterSent, Proofs!ReporterSent, Server!ReporterCtxDone, Proofs!ReporterCtxDone, Server!ReporterClosed, Proofs!ReporterClosed
<1>36. Server!Tick <=> Proofs!Tick
  BY DEF Server!Tick, Proofs!Tick, Server!RacyCount, Proofs!RacyCount
<1>37. Server!TickerStops <=> Proofs!TickerStops
  BY DEF Server!TickerStops, Proofs!TickerStops, Server!RacyCount, Proofs!RacyCount
<1>38. Server!Cancel <=> Proofs!Cancel
  BY DEF Server!Cancel, Proofs!Cancel
<1>39. Server!Ended <=> Proofs!Ended
  BY DEF Server!Ended, Proofs!Ended, Server!vars, Proofs!vars, Server!Returned, Proofs!Returned
<1>40. Server!ProcessorPanics <=> Proofs!ProcessorPanics
  BY DEF Server!ProcessorPanics, Proofs!ProcessorPanics
<1>41. Server!ReviewerPanics <=> Proofs!ReviewerPanics
  BY DEF Server!ReviewerPanics, Proofs!ReviewerPanics
<1> QED
  BY <1>2, <1>3, <1>4, <1>5, <1>6, <1>7, <1>8, <1>9, <1>10, <1>11, <1>12, <1>13, <1>14, <1>15, <1>16, <1>17, <1>18, <1>19, <1>20, <1>21, <1>22, <1>23, <1>24, <1>25, <1>26, <1>27, <1>28, <1>29, <1>30, <1>31, <1>32, <1>33, <1>34, <1>35, <1>36, <1>37, <1>38, <1>39, <1>40, <1>41
  DEF Server!Next, Proofs!Next, Server!HandlerStep, Proofs!HandlerStep

LEMMA SessionInCall == Spec => Proofs!Spec
<1>1. Init => Proofs!Init
  BY DEF Init, Server!Init, Proofs!Init
<1>2. [Next]_vars => [Proofs!Next]_(Proofs!vars)
  <2>1. UNCHANGED Server!vars => UNCHANGED Proofs!vars
    BY DEF Server!vars, Server!tickerVars, Server!requestVars, Server!workVars, Server!chanVars,
       Proofs!vars, Proofs!tickerVars, Proofs!requestVars, Proofs!workVars, Proofs!chanVars
  <2> QED
    BY <2>1, ServerStep, SameNext
<1> QED
  BY <1>1, <1>2, PTL DEF Spec, Proofs!Spec

LEMMA SessionAssumed == Proofs!SessionAssumption
  BY CallAssumption DEF Proofs!SessionAssumption

(***************************************************************************)
(* The client's variables.                                                 *)
(***************************************************************************)
ClientFlags == failed \in BOOLEAN /\ errClosed \in BOOLEAN /\ halfClosed \in BOOLEAN

\* The stream fails at most once, and its error is gathered once.
ClientPlaces ==
    /\ main \in {"metadata", "upload", "wait", "collect"} \cup Caller!Exited
    /\ receiver \in {"check", "recv", "failing", "returning", "done"}
    /\ collector \in {"ranging", "appending", "done"}
    /\ summary \in {"none", "held", "printed"}
    /\ deadline \in {"live", "expired"} /\ link \in {"up", "lost"}
    /\ errors \in 0 .. 1
    /\ receiver \in {"check", "recv", "failing"} => errors = 0 /\ collector # "appending"
    /\ collector = "appending" => errors = 0

ClientCounts ==
    /\ announced \in 0 .. MaxFiles /\ present \in 0 .. MaxFiles
    /\ sent \in 0 .. present /\ up \in 0 .. Window
    /\ down \in Seq({"progress", "summary"}) /\ Len(down) <= Window

ClientTypes == ClientFlags /\ ClientPlaces /\ ClientCounts

\* All that a step of the server does at the client's end of the stream.
ServerAct ==
    \/ ServerHandler \/ ServerReporter \/ Alone(Server!ReporterCtxDone)
    \/ Alone(Server!HandlerReports) \/ Alone(Server!TickerReports)
    \/ Alone(Server!Tick) \/ Alone(Server!TickerStops) \/ ServerCancelled

StreamActed ==
    /\ UNCHANGED <<main, announced, present, sent, halfClosed, receiver, failed, summary,
                   errorVars, deadline, link>>
    /\ up' = up \/ (up > 0 /\ up' = up - 1)
    /\ \/ down' = down
       \/ Len(down) < Window /\ \E m \in {"progress", "summary"} : down' = Append(down, m)

LEMMA ServerActs == ServerAct => StreamActed
<1> SUFFICES ASSUME ServerAct PROVE StreamActed
  OBVIOUS
<1> USE DEF StreamActed, clientVars, sendVars, receiveVars, errorVars
<1>1. CASE UNCHANGED <<clientVars, link>>
  BY <1>1
<1>2. CASE ServerReceives
  BY <1>2 DEF ServerReceives
<1>3. CASE Sends("progress") \/ Sends("summary")
  BY <1>3 DEF Sends
<1> QED
  BY <1>1, <1>2, <1>3 DEF ServerAct, ServerHandler, ServerReceivesEnd, ServerSendsSummary,
     ServerChecksUpload, ServerWorks, ServerReporter, ServerSendsProgress, Alone, ServerCancelled

LEMMA FlagsStep == ClientFlags /\ [Next]_vars => ClientFlags'
<1> SUFFICES ASSUME ClientFlags, [Next]_vars PROVE ClientFlags'
  OBVIOUS
<1> USE DEF ClientFlags, sendVars, receiveVars, errorVars, Caller!sendVars, Caller!receiveVars,
        Caller!errorVars
<1>1. CASE ServerAct
  BY <1>1, ServerActs DEF StreamActed
<1>2. CASE ClientMain \/ ClientWalks
  BY <1>2 DEF ClientMain, ClientWalks, Caller!MainStep, Caller!SendMetadata, Caller!SendFile,
     Caller!SendFails, Caller!WalkStep, Caller!UploadFails,
     Caller!SkipDirectory, Caller!CloseSend, Caller!CloseErrors, Caller!Exit
<1>3. CASE ClientReceiver \/ ClientCollector
  BY <1>3 DEF ClientReceiver, ClientCollector, Caller!ReceiverStep, Caller!CollectorStep,
     Caller!CheckContext, Caller!RecvMessage, Caller!RecvEnd, Caller!RecvFails,
     Caller!HandOverError, Caller!ReceiverDone, Caller!AppendError, Caller!CollectorDone
<1>4. CASE Expire \/ LinkLost
  BY <1>4 DEF Expire, Caller!Expire, LinkLost
<1>5. CASE UNCHANGED vars
  BY <1>5 DEF vars, clientVars
<1> QED
  BY <1>1, <1>2, <1>3, <1>4, <1>5 DEF Next, ServerAct

LEMMA PlacesStep == ClientPlaces /\ [Next]_vars => ClientPlaces'
<1> SUFFICES ASSUME ClientPlaces, [Next]_vars PROVE ClientPlaces'
  OBVIOUS
<1> USE DEF ClientPlaces, sendVars, receiveVars, errorVars, Caller!sendVars, Caller!receiveVars,
        Caller!errorVars, Caller!Exited
<1>1. CASE ServerAct
  BY <1>1, ServerActs DEF StreamActed
<1>2. CASE ClientMain \/ ClientWalks
  BY <1>2 DEF ClientMain, ClientWalks, Caller!MainStep, Caller!SendMetadata, Caller!SendFile,
     Caller!SendFails, Caller!WalkStep, Caller!UploadFails,
     Caller!SkipDirectory, Caller!CloseSend, Caller!CloseErrors, Caller!Exit
<1>3. CASE ClientReceiver
  BY <1>3 DEF ClientReceiver, Caller!ReceiverStep, Caller!CheckContext, Caller!RecvMessage,
     Caller!RecvEnd, Caller!RecvFails, Caller!HandOverError, Caller!ReceiverDone
<1>4. CASE ClientCollector
  BY <1>4 DEF ClientCollector, Caller!CollectorStep, Caller!AppendError, Caller!CollectorDone
<1>5. CASE Expire \/ LinkLost
  BY <1>5 DEF Expire, Caller!Expire, LinkLost
<1>6. CASE UNCHANGED vars
  BY <1>6 DEF vars, clientVars
<1> QED
  BY <1>1, <1>2, <1>3, <1>4, <1>5, <1>6 DEF Next, ServerAct

LEMMA CountsStep == ClientCounts /\ [Next]_vars => ClientCounts'
<1> SUFFICES ASSUME ClientCounts, [Next]_vars PROVE ClientCounts'
  OBVIOUS
<1> USE CallAssumption DEF ClientCounts, sendVars, receiveVars, errorVars, Caller!sendVars,
        Caller!receiveVars, Caller!errorVars
<1>1. CASE ServerAct
  <2>1. /\ UNCHANGED <<announced, present, sent>>
        /\ up' = up \/ (up > 0 /\ up' = up - 1)
        /\ \/ down' = down
           \/ Len(down) < Window /\ \E m \in {"progress", "summary"} : down' = Append(down, m)
    BY <1>1, ServerActs DEF StreamActed
  <2>2. down' \in Seq({"progress", "summary"}) /\ Len(down') <= Window
    BY <2>1
  <2> QED
    BY <2>1, <2>2
<1>2. CASE ClientMain \/ ClientWalks
  <2>1. /\ UNCHANGED <<announced, down>>
        /\ present' = present \/ (present' \in sent .. present - 1 /\ sent' = sent)
        /\ sent' = sent \/ (sent < present /\ sent' = sent + 1 /\ present' = present)
        /\ up' = up \/ (up < Window /\ up' = up + 1)
    BY <1>2 DEF ClientMain, ClientWalks, Caller!MainStep, Caller!SendMetadata, Caller!SendFile,
     Caller!Send, Caller!SendFails, Caller!WalkStep, Caller!UploadFails,
     Caller!SkipDirectory, Caller!CloseSend, Caller!CloseErrors,
     Caller!Exit
  <2> QED
    BY <2>1
<1>3. CASE ClientReceiver \/ ClientCollector
  <2>1. UNCHANGED sendVars /\ (down' = down \/ (down # <<>> /\ down' = Tail(down)))
    BY <1>3 DEF ClientReceiver, ClientCollector, Caller!ReceiverStep, Caller!CollectorStep,
     Caller!CheckContext, Caller!RecvMessage, Caller!RecvEnd, Caller!RecvFails,
     Caller!HandOverError, Caller!ReceiverDone, Caller!AppendError, Caller!CollectorDone
  <2>2. down' \in Seq({"progress", "summary"}) /\ Len(down') <= Window
    BY <2>1
  <2> QED
    BY <2>1, <2>2
<1>4. CASE Expire \/ LinkLost
  <2>1. UNCHANGED sendVars /\ (down' = down \/ down' = <<>>)
    BY <1>4 DEF Expire, Caller!Expire, LinkLost
  <2>2. down' \in Seq({"progress", "summary"}) /\ Len(down') <= Window
    <3>1. <<>> \in Seq({"progress", "summary"}) /\ Len(<<>>) = 0 /\ 0 <= Window
      OBVIOUS
    <3>2. CASE down' = down
      BY <3>2
    <3>3. CASE down' = <<>>
      BY <3>1, <3>3, Zenon
    <3> QED
      BY <2>1, <3>2, <3>3
  <2> QED
    BY <2>1, <2>2
<1>5. CASE UNCHANGED vars
  BY <1>5 DEF vars, clientVars
<1> QED
  BY <1>1, <1>2, <1>3, <1>4, <1>5 DEF Next, ServerAct

LEMMA ClientInvariance == Spec => []ClientTypes
<1>1. Init => ClientTypes
  <2>1. Init => ClientFlags
    BY DEF Init, Caller!Init, ClientFlags
  <2>2. Init => ClientPlaces
    BY DEF Init, Caller!Init, ClientPlaces
  <2>3. Init => ClientCounts
    BY CallAssumption DEF Init, Caller!Init, Caller!CountFiles, ClientCounts
  <2> QED
    BY <2>1, <2>2, <2>3 DEF ClientTypes
<1>2. ClientTypes /\ [Next]_vars => ClientTypes'
  BY FlagsStep, PlacesStep, CountsStep DEF ClientTypes
<1> QED
  BY <1>1, <1>2, PTL DEF Spec

(***************************************************************************)
(* Theorems.                                                               *)
(***************************************************************************)
\* The server of a call goes through a session: the stream, the client and the loss of
\* the connection add nothing to what a session may do.
THEOREM ServerIsSession == Spec => Server!Spec
<1>1. Init => Server!Init
  BY DEF Init
<1> QED
  BY <1>1, ServerStep, PTL DEF Spec, Server!Spec

\* So nobody sends on the closed progress channel, an answered call has delivered its
\* reports, final counts are exact and nothing is pushed without approval in any call,
\* whatever the client, the deadline and the connection do.
THEOREM SessionSafe ==
  Spec => [](/\ Server!NoSendOnClosedChannel /\ Server!AnsweredIsDrained
             /\ Server!FinalCountIsExact /\ Server!PushNeedsApproval)
<1>1. /\ Proofs!NoSendOnClosedChannel <=> Server!NoSendOnClosedChannel
      /\ Proofs!AnsweredIsDrained <=> Server!AnsweredIsDrained
  BY DEF Proofs!NoSendOnClosedChannel, Server!NoSendOnClosedChannel, Proofs!AnsweredIsDrained,
     Server!AnsweredIsDrained, Proofs!TickerLive, Server!TickerLive
<1>2. /\ Proofs!FinalCountIsExact <=> Server!FinalCountIsExact
      /\ Proofs!PushNeedsApproval <=> Server!PushNeedsApproval
  BY DEF Proofs!FinalCountIsExact, Server!FinalCountIsExact, Proofs!PushNeedsApproval,
     Server!PushNeedsApproval
<1> QED
  BY <1>1, <1>2, SessionInCall, SessionAssumed, Proofs!ChannelSafe, Proofs!AnswerDrains,
     Proofs!FinalCountExact, Proofs!PushApproved, PTL

\* The variables of both ends and of the stream keep their types, and no more is ever
\* under way than the window allows.
THEOREM Types == Spec => []TypeOK
<1>1. Proofs!TypeOK => Server!TypeOK
  BY DEF Proofs!TypeOK, Server!TypeOK, Proofs!FlagsOK, Server!FlagsOK, Proofs!StatesOK,
     Server!StatesOK, Proofs!Places, Server!Places, Proofs!Receiving, Server!Receiving,
     Proofs!Batch, Server!Batch, Proofs!Delivering, Server!Delivering, Proofs!Closing,
     Server!Closing, Proofs!Returned, Server!Returned, Proofs!Stages, Server!Stages
<1>2. ClientTypes => Caller!TypeOK /\ link \in {"up", "lost"}
  <2> SUFFICES ASSUME ClientTypes PROVE Caller!TypeOK /\ link \in {"up", "lost"}
    OBVIOUS
  <2>1. failed \in BOOLEAN /\ errClosed \in BOOLEAN /\ halfClosed \in BOOLEAN
    BY DEF ClientTypes, ClientFlags
  <2> QED
    BY <2>1 DEF ClientTypes, ClientPlaces, ClientCounts, Caller!TypeOK, Caller!Exited
<1>3. Proofs!TypeOK /\ ClientTypes => TypeOK
  BY <1>1, <1>2 DEF TypeOK
<1> QED
  BY <1>3, SessionInCall, SessionAssumed, Proofs!TypeCorrect, ClientInvariance, PTL
=============================================================================
