\* Files of up to two documents, every flow of up to two mutators and validators.
CONSTANTS
    MaxDocuments = 2
    MaxMutators = 2
    MaxValidators = 2
SPECIFICATION Spec
INVARIANTS
    TypeOK
    NextReceivesWhole
    PassedIsMutated
    DiskIsExplained
    EmptyIsCaught
    RejectedForCause
    UnrenderedForCause
