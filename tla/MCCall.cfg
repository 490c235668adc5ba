\* A client with up to two files, one message under way in each direction.
CONSTANTS
    MaxFiles = 2
    MaxReports = 1
    Window = 1
SPECIFICATION MCSpec
INVARIANTS
    TypeOK
    ExitZeroMeansDone
    ErrorsFailTheClient
    NoSendOnClosedErrCh
    FatalPushesNothing
    
    DisconnectIsHarmless
PROPERTIES
    ClientExits
\* A finished call does nothing more, and a cancelled one may block the server.
CHECK_DEADLOCK FALSE
