CONSTANTS
    Sessions = {s1, s2}
    Updates = {u1, u2}
    Trees = {none, other, m1}
    EmptyTree = none
    MainTree = other
    MaxCommits = 6
    TrunkPresent = TRUE
    SharedUpdates = FALSE
    Reviewer = "gitlab"
SPECIFICATION Spec
INVARIANTS
    TypeOK
    SuccessMeansDelivered
    CompletedMeansLanded
    DryRunPushesNothing
PROPERTIES
    TrunkKeepsMerges
    KeepsContract
