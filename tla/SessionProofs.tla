--------------------------- MODULE SessionProofs ---------------------------
(***************************************************************************)
(* Proofs about one UpdateManifests call (Session.tla), for any number of  *)
(* messages and reports.                                                   *)
(***************************************************************************)
EXTENDS Session, TLAPS

(***************************************************************************)
(* The inductive invariant.                                                *)
(***************************************************************************)
\* Once a batch is joined its ticker is gone, until the next batch starts one.
Joins == handler \in Delivering \cup Closing \cup {"answered"} => ~TickerLive

\* The channel is closed with nothing left to hand over.
Drained ==
    /\ closed => handler \in {"wait", "answered"}
    /\ handler \in {"sending", "wait", "answered"} => outbox = 0
    /\ handler = "answered" => reporter = "done"

\* The count only moves before the ticker is told to stop.
Counted ==
    /\ handler \in {"setup", "start", "walk", "process"} \cup Receiving => ~procDone
    /\ ticker \in {"final", "exited"} /\ ctx = "live" => procDone /\ snapshot = count

\* Where the handler is tells what has been granted and accepted by then.
Approved ==
    /\ upload # "none" => auth = "granted"
    /\ handler = "authorise" => auth = "asked"
    /\ handler \in Receiving \cup {"setup"} => stage = "upload" /\ upload # "accepted"
    /\ handler \in Batch => auth = "granted" /\ (upload = "accepted" <=> stage # "upload")
    /\ handler \in Delivering \cup Closing => upload = "accepted"
    /\ pushed => upload = "accepted"

IInv == StatesOK /\ Joins /\ Drained /\ Counted /\ Approved

LEMMA IInvStep == IInv /\ [Next]_vars => IInv'
<1> SUFFICES ASSUME IInv, [Next]_vars PROVE IInv'
  OBVIOUS
<1> USE SessionAssumption DEF IInv, StatesOK, Joins, Drained, Counted, Approved,
      TickerLive, Ready, Go, Return, Places, Stages, Receiving, Batch, Delivering,
      Closing, Returned, tickerVars, requestVars, workVars, chanVars
<1>1. CASE CreateWorkspace
  BY <1>1 DEF CreateWorkspace, NoWorkspace
<1>2. CASE CheckContext
  BY <1>2 DEF CheckContext
<1>3. CASE ReceiveMetadata
  BY <1>3 DEF ReceiveMetadata
<1>4. CASE AssignMetadata
  BY <1>4 DEF AssignMetadata
<1>5. CASE MetadataCheck
  BY <1>5 DEF MetadataCheck
<1>6. CASE ReceiveFile
  BY <1>6 DEF ReceiveFile
<1>7. CASE BufferChunk
  BY <1>7 DEF BufferChunk
<1>8. CASE ReceiveEnd
  BY <1>8 DEF ReceiveEnd
<1>9. CASE Respond
  BY <1>9 DEF Respond
<1>10. CASE StartProcess
  BY <1>10 DEF StartProcess
<1>11. CASE BeginStage("mutate")
  BY <1>11 DEF BeginStage, After
<1>12. CASE BeginStage("validate")
  BY <1>12 DEF BeginStage, After
<1>13. CASE VisitFile
  BY <1>13 DEF VisitFile
<1>14. CASE FileProcessed
  BY <1>14 DEF FileProcessed
<1>15. CASE WalkEnds
  BY <1>15 DEF WalkEnds, StopProcess
<1>16. CASE WalkCutShort
  BY <1>16 DEF WalkCutShort, StopProcess
<1>17. CASE FinishUpload
  BY <1>17 DEF FinishUpload, Joined
<1>18. CASE FinishStage
  BY <1>18 DEF FinishStage, Joined, After
<1>19. CASE CreateTarget
  BY <1>19 DEF CreateTarget, Step
<1>20. CASE OpenRepository
  BY <1>20 DEF OpenRepository, Step
<1>21. CASE Copy
  BY <1>21 DEF Copy, Step
<1>22. CASE Commit
  <2>1. CASE Step("commit", "push") /\ UNCHANGED pushed
    BY <2>1 DEF Step
  <2>2. CASE Step("commit", "finish") /\ UNCHANGED pushed
    BY <2>2 DEF Step
  <2> QED
    BY <1>22, <2>1, <2>2 DEF Commit
<1>23. CASE Push
  BY <1>23 DEF Push, Step
<1>24. CASE CreateReview
  <2>1. CASE Step("review", "complete") /\ UNCHANGED pushed
    BY <2>1 DEF Step
  <2>2. CASE Step("review", "finish") /\ UNCHANGED pushed
    BY <2>2 DEF Step
  <2> QED
    BY <1>24, <2>1, <2>2 DEF CreateReview
<1>25. CASE CompleteReview
  BY <1>25 DEF CompleteReview, Step
<1>26. CASE FinishRequest
  BY <1>26 DEF FinishRequest, Step
<1>27. CASE Fail
  BY <1>27 DEF Fail
<1>28. CASE ReturnError
  BY <1>28 DEF ReturnError
<1>29. CASE SendSummary
  BY <1>29 DEF SendSummary
<1>30. CASE SummarySent
  BY <1>30 DEF SummarySent
<1>31. CASE Answer
  BY <1>31 DEF Answer
<1>32. CASE HandlerReports
  BY <1>32 DEF HandlerReports
<1>33. CASE TickerReports
  BY <1>33 DEF TickerReports
<1>34. CASE ReporterSent
  BY <1>34 DEF ReporterSent
<1>35. CASE ReporterCtxDone
  BY <1>35 DEF ReporterCtxDone
<1>36. CASE ReporterClosed
  BY <1>36 DEF ReporterClosed
<1>37. CASE Tick
  BY <1>37 DEF Tick, RacyCount
<1>38. CASE TickerStops
  BY <1>38 DEF TickerStops, RacyCount
<1>39. CASE Cancel
  BY <1>39 DEF Cancel
<1>40. CASE Ended
  BY <1>40 DEF Ended, vars
<1>41. CASE UNCHANGED vars
  BY <1>41 DEF vars
<1>42. CASE ProcessorPanics
  BY <1>42 DEF ProcessorPanics
<1>43. CASE ReviewerPanics
  BY <1>43 DEF ReviewerPanics
<1> QED
  BY <1>1, <1>2, <1>3, <1>4, <1>5, <1>6, <1>7, <1>8, <1>9, <1>10, <1>11,
      <1>12, <1>13, <1>14, <1>15, <1>16, <1>17, <1>18, <1>19, <1>20, <1>21,
      <1>22, <1>23, <1>24, <1>25, <1>26, <1>27, <1>28, <1>29, <1>30, <1>31,
      <1>32, <1>33, <1>34, <1>35, <1>36, <1>37, <1>38, <1>39, <1>40, <1>41, <1>42, <1>43 DEF
      Next, HandlerStep, ReporterStep

LEMMA FlagsStep == FlagsOK /\ [Next]_vars => FlagsOK'
<1> SUFFICES ASSUME FlagsOK, [Next]_vars PROVE FlagsOK'
  OBVIOUS
<1> USE DEF FlagsOK, tickerVars, requestVars, workVars, chanVars
<1>1. CASE CreateWorkspace
  BY <1>1 DEF CreateWorkspace, NoWorkspace
<1>2. CASE CheckContext
  BY <1>2 DEF CheckContext
<1>3. CASE ReceiveMetadata
  BY <1>3 DEF ReceiveMetadata
<1>4. CASE AssignMetadata
  BY <1>4 DEF AssignMetadata
<1>5. CASE MetadataCheck
  BY <1>5 DEF MetadataCheck
<1>6. CASE ReceiveFile
  BY <1>6 DEF ReceiveFile
<1>7. CASE BufferChunk
  BY <1>7 DEF BufferChunk
<1>8. CASE ReceiveEnd
  BY <1>8 DEF ReceiveEnd
<1>9. CASE Respond
  BY <1>9 DEF Respond
<1>10. CASE StartProcess
  BY <1>10 DEF StartProcess
<1>11. CASE BeginStage("mutate")
  BY <1>11 DEF BeginStage, After
<1>12. CASE BeginStage("validate")
  BY <1>12 DEF BeginStage, After
<1>13. CASE VisitFile
  BY <1>13 DEF VisitFile
<1>14. CASE FileProcessed
  BY <1>14 DEF FileProcessed
<1>15. CASE WalkEnds
  BY <1>15 DEF WalkEnds, StopProcess
<1>16. CASE WalkCutShort
  BY <1>16 DEF WalkCutShort, StopProcess
<1>17. CASE FinishUpload
  BY <1>17 DEF FinishUpload, Joined
<1>18. CASE FinishStage
  BY <1>18 DEF FinishStage, Joined, After
<1>19. CASE CreateTarget
  BY <1>19 DEF CreateTarget, Step
<1>20. CASE OpenRepository
  BY <1>20 DEF OpenRepository, Step
<1>21. CASE Copy
  BY <1>21 DEF Copy, Step
<1>22. CASE Commit
  BY <1>22 DEF Commit, Step
<1>23. CASE Push
  BY <1>23 DEF Push, Step
<1>24. CASE CreateReview
  BY <1>24 DEF CreateReview, Step
<1>25. CASE CompleteReview
  BY <1>25 DEF CompleteReview, Step
<1>26. CASE FinishRequest
  BY <1>26 DEF FinishRequest, Step
<1>27. CASE Fail
  BY <1>27 DEF Fail
<1>28. CASE ReturnError
  BY <1>28 DEF ReturnError
<1>29. CASE SendSummary
  BY <1>29 DEF SendSummary
<1>30. CASE SummarySent
  BY <1>30 DEF SummarySent
<1>31. CASE Answer
  BY <1>31 DEF Answer
<1>32. CASE HandlerReports
  BY <1>32 DEF HandlerReports
<1>33. CASE TickerReports
  BY <1>33 DEF TickerReports
<1>34. CASE ReporterSent
  BY <1>34 DEF ReporterSent
<1>35. CASE ReporterCtxDone
  BY <1>35 DEF ReporterCtxDone
<1>36. CASE ReporterClosed
  BY <1>36 DEF ReporterClosed
<1>37. CASE Tick
  BY <1>37 DEF Tick, RacyCount
<1>38. CASE TickerStops
  BY <1>38 DEF TickerStops, RacyCount
<1>39. CASE Cancel
  BY <1>39 DEF Cancel
<1>40. CASE Ended
  BY <1>40 DEF Ended, vars
<1>41. CASE UNCHANGED vars
  BY <1>41 DEF vars
<1>42. CASE ProcessorPanics
  BY <1>42 DEF ProcessorPanics
<1>43. CASE ReviewerPanics
  BY <1>43 DEF ReviewerPanics
<1> QED
  BY <1>1, <1>2, <1>3, <1>4, <1>5, <1>6, <1>7, <1>8, <1>9, <1>10, <1>11,
      <1>12, <1>13, <1>14, <1>15, <1>16, <1>17, <1>18, <1>19, <1>20, <1>21,
      <1>22, <1>23, <1>24, <1>25, <1>26, <1>27, <1>28, <1>29, <1>30, <1>31,
      <1>32, <1>33, <1>34, <1>35, <1>36, <1>37, <1>38, <1>39, <1>40, <1>41, <1>42, <1>43 DEF
      Next, HandlerStep, ReporterStep

\* A call starts with the invariant and keeps it.
THEOREM Invariance == Spec => [](FlagsOK /\ IInv)
<1>1. Init => FlagsOK
  BY DEF Init, FlagsOK
<1>2. Init => IInv
  BY SessionAssumption DEF Init, IInv, StatesOK, Joins, Drained, Counted, Approved,
      TickerLive, Places, Stages, Receiving, Batch, Delivering, Closing, Returned
<1> QED
  BY <1>1, <1>2, FlagsStep, IInvStep, PTL DEF Spec

(***************************************************************************)
(* What follows from it.                                                   *)
(***************************************************************************)
\* Every variable of a call keeps its type.
THEOREM TypeCorrect == Spec => []TypeOK
<1>1. FlagsOK /\ IInv => TypeOK
  BY DEF IInv, TypeOK
<1> QED
  BY <1>1, Invariance, PTL

\* Nobody ever sends on the closed progress channel, so reporter.Close cannot make
\* a goroutine of the call panic.
THEOREM ChannelSafe == Spec => []NoSendOnClosedChannel
<1>1. IInv => NoSendOnClosedChannel
  BY DEF IInv, Joins, Drained, NoSendOnClosedChannel, Closing
<1> QED
  BY <1>1, Invariance, PTL

\* A call answered without error has delivered every report and left no goroutine.
THEOREM AnswerDrains == Spec => []AnsweredIsDrained
<1>1. IInv => AnsweredIsDrained
  BY DEF IInv, Joins, Drained, AnsweredIsDrained
<1> QED
  BY <1>1, Invariance, PTL

\* While the stream lives, the ticker's last report has the batch's exact count.
THEOREM FinalCountExact == Spec => []FinalCountIsExact
<1>1. IInv => FinalCountIsExact
  BY DEF IInv, Counted, FinalCountIsExact
<1> QED
  BY <1>1, Invariance, PTL

\* Nothing is pushed without the authorisation and a complete upload.
THEOREM PushApproved == Spec => []PushNeedsApproval
<1>1. IInv => PushNeedsApproval
  BY DEF IInv, Approved, PushNeedsApproval
<1> QED
  BY <1>1, Invariance, PTL
=============================================================================
