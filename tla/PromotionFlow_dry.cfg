CONSTANTS
    Sessions = {s1}
    Updates = {u1}
    Trees = {none, other, m1}
    EmptyTree = none
    MainTree = other
    MaxCommits = 5
    TrunkPresent = FALSE
    SharedUpdates = FALSE
    Reviewer = "gitlab"
SPECIFICATION Spec
INVARIANT DryRunPushesNothing
