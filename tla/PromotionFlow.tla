--------------------------- MODULE PromotionFlow ---------------------------
(***************************************************************************)
(* What the sessions of the server do to the configuration repository they *)
(* share: Manager.ProcessRequest (pkg/server/manager.go) with the git      *)
(* operations of gitops.Service (pkg/gitops/service.go, internal/git) and  *)
(* the review strategies (pkg/gitops/reviewer).  Each session works in a   *)
(* clone of its own and meets the others only in the remote's branches and *)
(* in the forge's reviews.                                                 *)
(*                                                                         *)
(* A commit is a number.  Its tree is what the managed directory holds,    *)
(* anc are its ancestors (itself included) and has are the sessions whose  *)
(* update it carries, which a squash or a rebase keeps although it changes *)
(* the ancestors.                                                          *)
(***************************************************************************)
EXTENDS Naturals, FiniteSets, FiniteSetsExt

CONSTANTS
    Sessions,      \* requests the server works on
    Updates,       \* update identifiers; each names a next branch
    Trees,         \* contents of the managed directory
    EmptyTree,     \* the content of an orphan environment
    MainTree,      \* the content on the main branch
    MaxCommits,    \* bound: commits ever made
    TrunkPresent,  \* the environment branch exists from the start
    SharedUpdates, \* two sessions may work on the same update
    Reviewer       \* "gitea" or "gitlab"

Commits == 1 .. MaxCommits
MainCommit == 1
TrunkCommit == 2
None == 0
Trunk == "trunk"

ASSUME PromotionAssumption ==
    /\ MaxCommits \in Nat /\ MaxCommits > 2
    /\ {EmptyTree, MainTree} \subseteq Trees
    /\ {TrunkPresent, SharedUpdates} \subseteq BOOLEAN
    /\ Reviewer \in {"gitea", "gitlab"}
    /\ Trunk \notin Updates

VARIABLES
    \* the requests, fixed from the start
    request,       \* update, content, dryRun and autoReview of each session, and
                   \* whether its targeter makes an orphan of a new environment
    \* the remote repository and the forge
    refs,          \* the commit of each branch, or None
    reviews,       \* updates whose next branch has an open review
    declined,      \* updates whose review somebody closed unmerged
    \* the commits
    used, tree, anc, has,
    \* the sessions
    pc,
    ltrunk,        \* the trunk of the session's clone
    onext,         \* origin/next in the session's clone
    lnext,         \* the next branch of the session's clone
    mine,          \* the commit the session made of its update
    completed      \* ReviewResult.Completed

remoteVars == <<refs, reviews, declined>>
commitVars == <<used, tree, anc, has>>
localVars  == <<ltrunk, onext, lnext, mine, completed>>
vars == <<request, remoteVars, commitVars, pc, localVars>>

Requests ==
    [update : Updates, content : Trees, dryRun : BOOLEAN, autoReview : BOOLEAN,
     orphan : BOOLEAN]

Branches == {Trunk} \cup Updates

\* A session pushes the environment branch, and writes to the next branch, only
\* once its clone has it.
HasBranch(s) ==
    /\ pc[s] \in {"pushTrunk", "prepare"} => ltrunk[s] # None
    /\ pc[s] \in {"process", "commit"} => lnext[s] # None

TypeOK ==
    /\ request \in [Sessions -> Requests]
    /\ refs \in [Branches -> Commits \cup {None}]
    /\ reviews \subseteq Updates
    /\ declined \subseteq Updates
    /\ used \in Commits
    /\ tree \in [Commits -> Trees]
    /\ anc \in [Commits -> SUBSET Commits]
    /\ has \in [Commits -> SUBSET Sessions]
    /\ pc \in [Sessions -> {"clone", "cloneMain", "pushTrunk", "prepare", "process",
                            "commit", "push", "review", "complete", "end", "ok", "error"}]
    /\ ltrunk \in [Sessions -> Commits \cup {None}]
    /\ onext \in [Sessions -> Commits \cup {None}]
    /\ lnext \in [Sessions -> Commits \cup {None}]
    /\ mine \in [Sessions -> Commits \cup {None}]
    /\ completed \in [Sessions -> BOOLEAN]
    /\ \A s \in Sessions : HasBranch(s)

Init ==
    /\ request \in [Sessions -> Requests]
    /\ \A s, t \in Sessions :
          /\ SharedUpdates \/ (request[s].update = request[t].update => s = t)
          /\ request[s].orphan = request[t].orphan         \* one targeter per server
    /\ refs = [b \in Branches |-> IF b = Trunk /\ TrunkPresent THEN TrunkCommit ELSE None]
    /\ reviews = {} /\ declined = {}
    /\ used = TrunkCommit
    /\ tree = [c \in Commits |-> IF c = MainCommit THEN MainTree ELSE EmptyTree]
    /\ anc = [c \in Commits |-> {c}]
    /\ has = [c \in Commits |-> {}]
    /\ pc = [s \in Sessions |-> "clone"]
    /\ ltrunk = [s \in Sessions |-> None]
    /\ onext = [s \in Sessions |-> None]
    /\ lnext = [s \in Sessions |-> None]
    /\ mine = [s \in Sessions |-> None]
    /\ completed = [s \in Sessions |-> FALSE]

(***************************************************************************)
(* Git.                                                                    *)
(***************************************************************************)
Fresh == used + 1

\* A new commit with content t on top of the ancestors a.
NewCommit(t, a, h) ==
    /\ used < MaxCommits
    /\ used' = Fresh
    /\ tree' = [tree EXCEPT ![Fresh] = t]
    /\ anc' = [anc EXCEPT ![Fresh] = a \cup {Fresh}]
    /\ has' = [has EXCEPT ![Fresh] = h]

\* git push of "+branch:branch": the remote branch is set whatever it holds.
ForcePush(b, c) == refs' = [refs EXCEPT ![b] = c]

\* A three-way merge keeps the side that changed; two changed sides may give any
\* mixture of files.
MergedTrees(base, t, n) ==
    IF t = base \/ t = n THEN {n} ELSE IF n = base THEN {t} ELSE Trees

MergeBase(c, d) == Max(anc[c] \cap anc[d])

(***************************************************************************)
(* The forge, as the review strategies use it.                             *)
(***************************************************************************)
\* Merging the review of update u takes what its next branch holds by now.  It
\* may keep the history or squash or rebase it, and may delete the branch.
MergeReview(u) ==
    LET t == refs[Trunk]
        n == refs[u]
    IN  /\ u \in reviews
        /\ t # None /\ n # None
        /\ n \notin anc[t]
        /\ anc[t] \cap anc[n] # {}                    \* related histories
        /\ \E merged \in MergedTrees(tree[MergeBase(t, n)], tree[t], tree[n]),
              history \in {{}, anc[n]} :
              NewCommit(merged, anc[t] \cup history, has[t] \cup has[n])
        /\ \E kept \in {None, n} :
              refs' = [refs EXCEPT ![Trunk] = Fresh, ![u] = kept]
        /\ reviews' = reviews \ {u}
        /\ UNCHANGED declined

\* People merge and close reviews when they like.
HumanMerge(u) ==
    /\ MergeReview(u)
    /\ UNCHANGED <<request, pc, localVars>>

CloseReview(u) ==
    /\ u \in reviews
    /\ reviews' = reviews \ {u}
    /\ declined' = declined \cup {u}
    /\ UNCHANGED <<request, refs, commitVars, pc, localVars>>

(***************************************************************************)
(* Service.InitRepository.                                                 *)
(***************************************************************************)
update(s) == request[s].update

Goes(s, p, q) == pc[s] = p /\ pc' = [pc EXCEPT ![s] = q]

\* The call fails, or it takes effect and only its answer is lost.
GoesOrFails(s, p, q) == Goes(s, p, q) \/ Goes(s, p, "error")

\* Cloning the environment branch brings every branch of the remote along.
Clone(s) ==
    /\ refs[Trunk] # None
    /\ Goes(s, "clone", "prepare")
    /\ ltrunk' = [ltrunk EXCEPT ![s] = refs[Trunk]]
    /\ onext' = [onext EXCEPT ![s] = refs[update(s)]]
    /\ UNCHANGED <<request, remoteVars, commitVars, lnext, mine, completed>>

TrunkNotFound(s) ==
    /\ refs[Trunk] = None
    /\ Goes(s, "clone", "cloneMain")
    /\ UNCHANGED <<request, remoteVars, commitVars, localVars>>

\* initialiseEnvironmentBranch: an orphan branch starts from an empty root commit.
InitialiseOrphan(s) ==
    /\ Goes(s, "cloneMain", "pushTrunk")
    /\ request[s].orphan
    /\ NewCommit(EmptyTree, {}, {})
    /\ ltrunk' = [ltrunk EXCEPT ![s] = Fresh]
    /\ onext' = [onext EXCEPT ![s] = refs[update(s)]]
    /\ UNCHANGED <<request, remoteVars, lnext, mine, completed>>

\* Otherwise the branch is made of main without becoming HEAD, so that the commit
\* that empties the directory goes to the clone's main and is never pushed.
InitialiseFromMain(s) ==
    /\ Goes(s, "cloneMain", "pushTrunk")
    /\ ~request[s].orphan
    /\ ltrunk' = [ltrunk EXCEPT ![s] = MainCommit]
    /\ onext' = [onext EXCEPT ![s] = refs[update(s)]]
    /\ UNCHANGED <<request, remoteVars, commitVars, lnext, mine, completed>>

\* A branch that another session has pushed at the same commit is an error: Push
\* wraps git's NoErrAlreadyUpToDate.
PushTrunk(s) ==
    /\ \/ refs[Trunk] # ltrunk[s] /\ Goes(s, "pushTrunk", "prepare")
       \/ Goes(s, "pushTrunk", "error")
    /\ ForcePush(Trunk, ltrunk[s])
    /\ UNCHANGED <<request, reviews, declined, commitVars, localVars>>

(***************************************************************************)
(* Service.PrepareEnvironment.                                             *)
(***************************************************************************)
\* Fetching trunk and next together does nothing when either is missing, and is
\* refused when the trunk was rewritten; a shallow clone may refuse more.
FetchedTrunks(s) ==
    IF refs[update(s)] = None \/ refs[Trunk] = None
    THEN {ltrunk[s]}
    ELSE {c \in {refs[Trunk]} : ltrunk[s] \in anc[c]}

\* A variant with a fault: a next branch the remote does not have is not created.
PrepareEnvironmentGetOnly(s) ==
    /\ Goes(s, "prepare", "process")
    /\ \E c \in FetchedTrunks(s) : ltrunk' = [ltrunk EXCEPT ![s] = c]
    /\ lnext' = [lnext EXCEPT ![s] = onext[s]]
    /\ UNCHANGED <<request, remoteVars, commitVars, onext, mine, completed>>

\* GetOrCreateBranch: next continues what the clone saw of the remote's next.
PrepareEnvironment(s) ==
    /\ Goes(s, "prepare", "process")
    /\ \E c \in FetchedTrunks(s) :
          /\ ltrunk' = [ltrunk EXCEPT ![s] = c]
          /\ lnext' = [lnext EXCEPT ![s] = IF onext[s] = None THEN c ELSE onext[s]]
    /\ UNCHANGED <<request, remoteVars, commitVars, onext, mine, completed>>

(***************************************************************************)
(* The rest of ProcessRequest.                                             *)
(***************************************************************************)
\* Mutation and validation (Session and its cut stages), then the copy into the
\* cleared directory: the work tree now holds the request's content.
ProcessAndCopy(s) ==
    /\ Goes(s, "process", "commit")
    /\ UNCHANGED <<request, remoteVars, commitVars, localVars>>

Changed(s) == tree[lnext[s]] # request[s].content

Commit(s) ==
    /\ Goes(s, "commit", "push")
    /\ Changed(s)
    /\ NewCommit(request[s].content, anc[lnext[s]], has[lnext[s]] \cup {s})
    /\ mine' = [mine EXCEPT ![s] = Fresh]
    /\ UNCHANGED <<request, remoteVars, ltrunk, onext, lnext, completed>>

\* "No files to be updated": goto End.
NothingToCommit(s) ==
    /\ Goes(s, "commit", "end")
    /\ ~Changed(s)
    /\ UNCHANGED <<request, remoteVars, commitVars, localVars>>

\* A variant with a fault: the environment branch is pushed instead of next.
PushToTrunk(s) ==
    /\ ~request[s].dryRun
    /\ GoesOrFails(s, "push", "review")
    /\ ForcePush(Trunk, mine[s])
    /\ UNCHANGED <<request, reviews, declined, commitVars, localVars>>

\* A variant with a fault: the clone's environment branch is pushed along.
PushBoth(s) ==
    /\ ~request[s].dryRun
    /\ GoesOrFails(s, "push", "review")
    /\ refs' = [refs EXCEPT ![Trunk] = ltrunk[s], ![update(s)] = mine[s]]
    /\ UNCHANGED <<request, reviews, declined, commitVars, localVars>>

\* A variant with a fault: dryRun is not looked at.
PushAnyway(s) ==
    /\ GoesOrFails(s, "push", "review")
    /\ ForcePush(update(s), mine[s])
    /\ UNCHANGED <<request, reviews, declined, commitVars, localVars>>

Push(s) ==
    /\ ~request[s].dryRun
    /\ GoesOrFails(s, "push", "review")
    /\ ForcePush(update(s), mine[s])
    /\ UNCHANGED <<request, reviews, declined, commitVars, localVars>>

\* A dry run claims a push, a review and its completion without doing any.
DryRun(s) ==
    /\ request[s].dryRun
    /\ Goes(s, "push", "end")
    /\ completed' = [completed EXCEPT ![s] = request[s].autoReview]
    /\ UNCHANGED <<request, remoteVars, commitVars, ltrunk, onext, lnext, mine>>

\* The Gitea strategy looks for an open review with head and base exchanged, never
\* finds it and has its duplicate refused; the GitLab strategy returns it.
CanCreateReview(s) ==
    /\ refs[update(s)] # None /\ refs[Trunk] # None
    /\ update(s) \in reviews => Reviewer = "gitlab"

\* A variant with a fault: ReviewResult.Created is not looked at.
CreateReviewUnchecked(s) ==
    /\ CanCreateReview(s)
    /\ GoesOrFails(s, "review", IF request[s].autoReview THEN "complete" ELSE "end")
    /\ reviews' \in {reviews, reviews \cup {update(s)}}
    /\ UNCHANGED <<request, refs, declined, commitVars, localVars>>

CreateReview(s) ==
    /\ CanCreateReview(s)
    /\ GoesOrFails(s, "review", IF request[s].autoReview THEN "complete" ELSE "end")
    /\ reviews' = reviews \cup {update(s)}
    /\ UNCHANGED <<request, refs, declined, commitVars, localVars>>

\* A variant with a fault: the state of the merge request is not looked at.
CompleteReviewUnchecked(s) ==
    /\ Reviewer = "gitlab"
    /\ update(s) \in reviews
    /\ Goes(s, "complete", "end")
    /\ completed' = [completed EXCEPT ![s] = TRUE]
    /\ UNCHANGED <<request, remoteVars, commitVars, ltrunk, onext, lnext, mine>>

\* The GitLab strategy asks again while the review cannot be merged yet, and gives up
\* (Fails) after some seconds, or when the merge is left to a pipeline.
CompleteReview(s) ==
    /\ Reviewer = "gitlab"
    /\ MergeReview(update(s))
    /\ \/ Goes(s, "complete", "end") /\ completed' = [completed EXCEPT ![s] = TRUE]
       \/ Goes(s, "complete", "error") /\ UNCHANGED completed
    /\ UNCHANGED <<request, ltrunk, onext, lnext, mine>>

\* The Gitea strategy takes the repository from the wrong part of the review's
\* URL, so that its merge is refused.
MergeElsewhere(s) ==
    /\ Reviewer = "gitea"
    /\ Goes(s, "complete", "error")
    /\ UNCHANGED <<request, remoteVars, commitVars, localVars>>

\* GitLab cannot be reached: the client library returns no response, and reading its
\* status code panics, which ends the server and every session at work.
ForgeUnreachable(s) ==
    /\ Reviewer = "gitlab"
    /\ pc[s] = "complete"
    /\ pc' = [t \in Sessions |-> IF pc[t] = "ok" THEN "ok" ELSE "error"]
    /\ UNCHANGED <<request, remoteVars, commitVars, localVars>>

\* The summary reaches the client.
Answer(s) ==
    /\ Goes(s, "end", "ok")
    /\ UNCHANGED <<request, remoteVars, commitVars, localVars>>

\* Any call may fail before it has an effect, and the session may be cancelled or
\* the server may stop.
Fails(s) ==
    /\ pc[s] \notin {"ok", "error"}
    /\ pc' = [pc EXCEPT ![s] = "error"]
    /\ UNCHANGED <<request, remoteVars, commitVars, localVars>>

AllAnswered ==
    /\ \A s \in Sessions : pc[s] \in {"ok", "error"}
    /\ UNCHANGED vars

Step(s) ==
    \/ Clone(s) \/ TrunkNotFound(s) \/ InitialiseOrphan(s) \/ InitialiseFromMain(s)
    \/ PushTrunk(s) \/ PrepareEnvironment(s) \/ ProcessAndCopy(s)
    \/ Commit(s) \/ NothingToCommit(s) \/ Push(s) \/ DryRun(s)
    \/ CreateReview(s) \/ CompleteReview(s) \/ MergeElsewhere(s) \/ ForgeUnreachable(s)
    \/ Answer(s) \/ Fails(s)

Next ==
    \/ \E s \in Sessions : Step(s)
    \/ \E u \in Updates : HumanMerge(u) \/ CloseReview(u)
    \/ AllAnswered

Spec == Init /\ [][Next]_vars

(***************************************************************************)
(* Properties.                                                             *)
(***************************************************************************)
OnTrunk == IF refs[Trunk] = None THEN {} ELSE has[refs[Trunk]]

Landed(s) == s \in OnTrunk

UnderReview(s) ==
    /\ update(s) \in reviews
    /\ refs[update(s)] # None
    /\ s \in has[refs[update(s)]]

\* The trunk holds the content of s, or held it once.
TrunkHeld(s) ==
    refs[Trunk] # None /\ \E c \in anc[refs[Trunk]] : tree[c] = request[s].content

\* What became of the update of s is what a success reports: it is on the
\* environment branch, waits in an open review, was turned down by somebody, or
\* asked for what the branch held already.
Delivered(s) ==
    \/ Landed(s) \/ UnderReview(s) \/ update(s) \in declined
    \/ mine[s] = None /\ TrunkHeld(s)

\* A request that is answered "Git operations completed successfully." and is no
\* dry run was delivered, and stays so whatever the other sessions do.
SuccessMeansDelivered ==
    \A s \in Sessions : pc[s] = "ok" /\ ~request[s].dryRun => Delivered(s)

\* The same for sessions that repeat an update, once none of them is at work: each
\* that was answered with success had its changes pushed and put under review, as
\* the flowchart of the README has it.
RepeatsAreDelivered ==
    (\A s \in Sessions : pc[s] \in {"ok", "error"}) => SuccessMeansDelivered

\* A review reported as completed put this very update on the environment branch,
\* unless the request was a dry run.
CompletedMeansLanded ==
    \A s \in Sessions : completed[s] /\ ~request[s].dryRun => Landed(s)

\* What was merged to the environment branch stays there: no step of any session
\* takes an update off it again.
TrunkKeepsMerges == [][OnTrunk \subseteq OnTrunk']_vars

\* The contract of Promotion.tla, one update branch per session.
Offered == {s \in Sessions : refs[update(s)] # None /\ s \in has[refs[update(s)]]}

Contract == INSTANCE Promotion WITH
    offered     <- Offered,
    underReview <- {s \in Sessions : update(s) \in reviews},
    landed      <- OnTrunk,
    turnedDown  <- {s \in Sessions : update(s) \in declined},
    succeeded   <- {s \in Sessions : pc[s] = "ok"}

\* The server keeps the contract: updates land through their reviews and stay, and
\* success is only reported for what landed, is under review or was turned down.
KeepsContract == Contract!Spec

\* While every request is a dry run, nothing is pushed.
DryRunPushesNothing ==
    (\A s \in Sessions : request[s].dryRun) =>
        \A b \in Branches : refs[b] = IF b = Trunk /\ TrunkPresent THEN TrunkCommit ELSE None
=============================================================================
