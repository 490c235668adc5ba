CONSTANTS
    MaxMessages = 3
    MaxReports = 1
SPECIFICATION FairSpec
PROPERTY FinalCountIsSent
CHECK_DEADLOCK FALSE
