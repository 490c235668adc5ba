----------------------------- MODULE Promotion -----------------------------
(***************************************************************************)
(* What the server promises about the requests it works on, as the         *)
(* flowchart of the README has it: an update is pushed, put under review,  *)
(* and lands on its environment when the review is merged.                 *)
(***************************************************************************)
CONSTANT Sessions

VARIABLES
    offered,      \* requests whose update is on its next branch
    underReview,  \* requests with an open review
    landed,       \* requests whose update is on the environment branch
    turnedDown,   \* requests whose review was closed unmerged
    succeeded     \* requests answered with success

vars == <<offered, underReview, landed, turnedDown, succeeded>>

TypeOK ==
    /\ offered \subseteq Sessions
    /\ underReview \subseteq Sessions
    /\ landed \subseteq Sessions
    /\ turnedDown \subseteq Sessions
    /\ succeeded \subseteq Sessions

Init ==
    /\ offered = {} /\ underReview = {} /\ landed = {}
    /\ turnedDown = {} /\ succeeded = {}

Offer(s) ==
    /\ s \notin offered
    /\ offered' = offered \cup {s}
    /\ UNCHANGED <<underReview, landed, turnedDown, succeeded>>

OpenReview(s) ==
    /\ s \in offered \ underReview
    /\ underReview' = underReview \cup {s}
    /\ UNCHANGED <<offered, landed, turnedDown, succeeded>>

\* Merging may delete the next branch.
Land(s) ==
    /\ s \in offered \cap underReview
    /\ landed' = landed \cup {s}
    /\ underReview' = underReview \ {s}
    /\ offered' \in {offered, offered \ {s}}
    /\ UNCHANGED <<turnedDown, succeeded>>

TurnDown(s) ==
    /\ s \in underReview
    /\ underReview' = underReview \ {s}
    /\ turnedDown' = turnedDown \cup {s}
    /\ UNCHANGED <<offered, landed, succeeded>>

\* Success without an offer is for dry runs and for updates that change nothing.
Succeed(s) ==
    /\ s \notin succeeded
    /\ s \in offered => s \in landed \cup underReview \cup turnedDown
    /\ succeeded' = succeeded \cup {s}
    /\ UNCHANGED <<offered, underReview, landed, turnedDown>>

Next ==
    \E s \in Sessions :
        Offer(s) \/ OpenReview(s) \/ Land(s) \/ TurnDown(s) \/ Succeed(s)

Spec == Init /\ [][Next]_vars
=============================================================================
