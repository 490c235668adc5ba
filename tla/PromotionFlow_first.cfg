CONSTANTS
    Sessions = {s1}
    Updates = {u1}
    Trees = {none, other, m1}
    EmptyTree = none
    MainTree = other
    MaxCommits = 5
    TrunkPresent = FALSE
    SharedUpdates = FALSE
    Reviewer = "gitea"
SPECIFICATION Spec
INVARIANTS
    SuccessMeansDelivered
PROPERTIES
    KeepsContract
