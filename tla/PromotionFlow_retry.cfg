CONSTANTS
    Sessions = {s1, s2}
    Updates = {u1}
    Trees = {none, other, m1}
    EmptyTree = none
    MainTree = other
    MaxCommits = 6
    TrunkPresent = TRUE
    SharedUpdates = TRUE
    Reviewer = "gitlab"
SPECIFICATION Spec
INVARIANT RepeatsAreDelivered
