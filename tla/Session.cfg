\* One call with up to four messages, cancelled at any moment or not at all.
CONSTANTS
    MaxMessages = 4
    MaxReports = 2
SPECIFICATION FairSpec
INVARIANTS
    TypeOK
    NoSendOnClosedChannel
    AnsweredIsDrained
    FinalCountIsExact
    PushNeedsApproval
PROPERTIES
    CallEnds
\* A cancelled call really blocks for ever: see FinalCountIsSent.
CHECK_DEADLOCK FALSE
