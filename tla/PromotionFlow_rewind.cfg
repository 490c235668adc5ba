CONSTANTS
    Sessions = {s1, s2}
    Updates = {u1, u2}
    Trees = {none, other, m1}
    EmptyTree = none
    MainTree = other
    MaxCommits = 8
    TrunkPresent = FALSE
    SharedUpdates = FALSE
    Reviewer = "gitlab"
SPECIFICATION Spec
PROPERTY TrunkKeepsMerges
