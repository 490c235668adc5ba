CONSTANTS
    MaxMessages = 3
    MaxReports = 1
SPECIFICATION Spec
INVARIANT PushedWasProcessed
CHECK_DEADLOCK FALSE
