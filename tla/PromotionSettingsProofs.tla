---------------------- MODULE PromotionSettingsProofs ----------------------
(***************************************************************************)
(* Proofs about the sessions of the server beyond the setting of           *)
(* PromotionFlowProofs: what holds in every setting, what holds as soon as *)
(* the environment branch exists although sessions may work on the same    *)
(* update, and what holds of the first request of an environment.          *)
(***************************************************************************)
EXTENDS PromotionFlowProofs

(***************************************************************************)
(* In every setting.                                                       *)
(***************************************************************************)
\* Branches and clones hold commits that were made, and a session that works on a
\* branch has it (HasBranch).
Refs == 0 .. used

Typed == request \in [Sessions -> Requests]

LocalShape ==
    /\ pc \in [Sessions -> PCs \cup {"cloneMain", "pushTrunk"}]
    /\ ltrunk \in [Sessions -> Refs] /\ onext \in [Sessions -> Refs]
    /\ lnext \in [Sessions -> Refs] /\ mine \in [Sessions -> Refs]

RemoteShape ==
    /\ refs \in [Branches -> Refs]
    /\ reviews \subseteq Updates /\ declined \subseteq Updates

Shape ==
    /\ CommitsOK /\ Typed /\ RemoteShape /\ LocalShape /\ CompletedOK
    /\ \A s \in Sessions : HasBranch(s)

LEMMA InitShape == Init => Shape
<1> SUFFICES ASSUME Init PROVE Shape
  OBVIOUS
<1> USE PromotionAssumption DEF Init, Commits, Branches, None, MainCommit, TrunkCommit
<1>1. CommitsOK
  BY DEF CommitsOK
<1>2. RemoteShape /\ Typed
  BY DEF RemoteShape, Typed, Refs
<1>3. LocalShape /\ CompletedOK
  BY DEF LocalShape, CompletedOK, Refs, PCs, Early
<1>4. \A s \in Sessions : HasBranch(s)
  BY DEF HasBranch
<1> QED
  BY <1>1, <1>2, <1>3, <1>4 DEF Shape

\* A reference that is not empty is to a commit that was made.
LEMMA RefIsMade ==
  ASSUME Shape, NEW c \in Refs, c # None
  PROVE  c \in 1 .. used /\ c \in Commits
BY PromotionAssumption DEF Shape, CommitsOK, Refs, None, Commits

\* The names of branches.
LEMMA UpdateIsBranch ==
  ASSUME Shape, NEW s \in Sessions
  PROVE  update(s) \in Updates /\ update(s) \in Branches /\ update(s) # Trunk
         /\ request[s].content \in Trees /\ request[s].autoReview \in BOOLEAN
BY PromotionAssumption DEF Shape, Typed, Requests, update, Branches

\* A step that moves no branch keeps the commits, and so every reference.
LEMMA NoCommit ==
  ASSUME Shape, UNCHANGED commitVars
  PROVE  CommitsOK' /\ Preserved /\ Refs' = Refs
BY DEF Shape, CommitsOK, Preserved, Refs, commitVars

LEMMA MoreRefs == ASSUME Shape, Preserved PROVE Refs \subseteq Refs' /\ used \in Nat
BY DEF Shape, CommitsOK, Preserved, Refs

\* What a merge does, whatever else is going on.
LEMMA MergeShape ==
  ASSUME Shape, NEW u, MergeReview(u)
  PROVE  /\ CommitsOK' /\ Preserved /\ RemoteShape'
         /\ refs'[Trunk] # None /\ OnTrunk' = OnTrunk \cup has[refs[u]]
<1> DEFINE t0 == refs[Trunk]
           n == refs[u]
<1>1. u \in Updates /\ u \in Branches /\ Trunk \in Branches /\ u # Trunk
  BY PromotionAssumption DEF MergeReview, Shape, RemoteShape, Branches
<1>2. t0 \in 1 .. used /\ n \in 1 .. used /\ t0 \in Commits /\ n \in Commits
  <2>1. t0 \in Refs /\ n \in Refs /\ t0 # None /\ n # None
    BY <1>1 DEF MergeReview, Shape, RemoteShape
  <2> HIDE DEF t0, n
  <2> QED
    BY <2>1, RefIsMade
<1>3. PICK merged \in MergedTrees(tree[MergeBase(t0, n)], tree[t0], tree[n]),
           history \in {{}, anc[n]} :
           NewCommit(merged, anc[t0] \cup history, has[t0] \cup has[n])
  BY DEF MergeReview
<1>4. /\ CommitsOK' /\ Preserved /\ used' = used + 1 /\ Fresh = used + 1
      /\ has'[Fresh] = has[t0] \cup has[n]
  <2> DEFINE a == anc[t0] \cup history
             h == has[t0] \cup has[n]
  <2>1. merged \in Trees
    BY <1>2, <1>3 DEF MergedTrees, Shape, CommitsOK
  <2>2. a \in SUBSET (1 .. used) /\ h \in SUBSET Sessions
    BY <1>2, <1>3 DEF Shape, CommitsOK
  <2>3. CommitsOK /\ NewCommit(merged, a, h)
    BY <1>3 DEF Shape
  <2> HIDE DEF a, h
  <2>4. /\ CommitsOK' /\ Preserved /\ used' = used + 1 /\ Fresh = used + 1
        /\ has'[Fresh] = h
    BY <2>1, <2>2, <2>3, CommitAdds
  <2> QED
    BY <2>4 DEF h
<1>5. PICK kept \in {None, n} : refs' = [refs EXCEPT ![Trunk] = Fresh, ![u] = kept]
  BY DEF MergeReview
<1>6. refs'[Trunk] = Fresh
  BY <1>1, <1>5 DEF Shape, RemoteShape
<1>7. used \in Nat /\ Fresh # None
  BY <1>4 DEF Shape, CommitsOK, None
<1>8. RemoteShape'
  <2>1. Refs \subseteq Refs' /\ Fresh \in Refs' /\ kept \in Refs
    <3>1. kept \in Refs
      BY <1>2, <1>5, <1>7 DEF Refs, None
    <3> QED
      BY <3>1, <1>4, <1>7, MoreRefs DEF Refs
  <2>2. refs' \in [Branches -> Refs']
    BY <2>1, <1>5 DEF Shape, RemoteShape
  <2>3. reviews' \subseteq Updates /\ declined' \subseteq Updates
    BY DEF MergeReview, Shape, RemoteShape
  <2> QED
    BY <2>2, <2>3 DEF RemoteShape
<1>9. OnTrunk' = OnTrunk \cup has[n]
  BY <1>2, <1>4, <1>6, <1>7 DEF OnTrunk, None
<1> QED
  BY <1>4, <1>6, <1>7, <1>8, <1>9

\* The clone of a session keeps what it holds.
LEMMA LocalsStay ==
  ASSUME Shape, Preserved, UNCHANGED localVars, NEW s \in Sessions,
         NEW q \in PCs \cup {"cloneMain", "pushTrunk"}, pc' = [pc EXCEPT ![s] = q]
  PROVE  LocalShape' /\ CompletedOK'
<1>1. Refs \subseteq Refs'
  BY MoreRefs
<1>2. CompletedOK'
  BY DEF Shape, CompletedOK, localVars
<1>3. LocalShape'
  BY <1>1 DEF Shape, LocalShape, localVars
<1> QED
  BY <1>2, <1>3

\* A step that touches neither the remote nor the commits.
LEMMA RemoteStays ==
  ASSUME Shape, UNCHANGED <<request, remoteVars, commitVars>>
  PROVE  CommitsOK' /\ Typed' /\ RemoteShape' /\ Preserved /\ Refs' = Refs
<1>1. CommitsOK' /\ Preserved /\ Refs' = Refs
  BY NoCommit
<1> QED
  BY <1>1 DEF Shape, Typed, RemoteShape, remoteVars

\* The steps that only move a session, or that it fails in.
LEMMA MoveShape ==
  ASSUME Shape, UNCHANGED <<request, remoteVars, commitVars, localVars>>,
         NEW s \in Sessions, NEW q \in PCs \cup {"cloneMain", "pushTrunk"},
         pc' = [pc EXCEPT ![s] = q],
         q \notin {"pushTrunk", "prepare", "process"},
         q = "commit" => pc[s] = "process"
  PROVE  Shape'
<1>1. CommitsOK' /\ Typed' /\ RemoteShape' /\ Preserved
  BY RemoteStays
<1>2. LocalShape' /\ CompletedOK'
  BY <1>1, LocalsStay
<1>3. \A t \in Sessions : HasBranch(t)'
  BY DEF Shape, HasBranch, LocalShape, localVars
<1> QED
  BY <1>1, <1>2, <1>3 DEF Shape

LEMMA CloneShape == ASSUME Shape, NEW s \in Sessions, Clone(s) PROVE Shape'
<1> USE DEF Clone, Goes
<1>1. CommitsOK' /\ Typed' /\ RemoteShape' /\ Refs' = Refs
  BY RemoteStays
<1>2. refs[Trunk] \in Refs /\ refs[update(s)] \in Refs
  BY UpdateIsBranch DEF Shape, RemoteShape, Branches
<1>3. LocalShape' /\ CompletedOK'
  BY <1>1, <1>2 DEF Shape, LocalShape, CompletedOK, PCs, Early
<1>4. \A t \in Sessions : HasBranch(t)'
  BY DEF Shape, LocalShape, HasBranch
<1> QED
  BY <1>1, <1>3, <1>4 DEF Shape

LEMMA InitialiseShape ==
  ASSUME Shape, NEW s \in Sessions, InitialiseOrphan(s) \/ InitialiseFromMain(s)
  PROVE  Shape' /\ Preserved
<1>1. refs[update(s)] \in Refs /\ MainCommit \in Refs /\ MainCommit # None
  BY UpdateIsBranch DEF Shape, RemoteShape, CommitsOK, Refs, MainCommit, None
<1>2. CommitsOK' /\ Preserved /\ (InitialiseOrphan(s) => Fresh \in Refs' /\ Fresh # None)
  <2>1. CASE InitialiseOrphan(s)
    <3>1. EmptyTree \in Trees /\ {} \in SUBSET (1 .. used) /\ {} \in SUBSET Sessions
      BY PromotionAssumption
    <3>2. NewCommit(EmptyTree, {}, {}) /\ CommitsOK
      BY <2>1 DEF InitialiseOrphan, Shape
    <3>3. CommitsOK' /\ Preserved /\ used' = used + 1 /\ Fresh = used + 1
      BY <3>1, <3>2, CommitAdds
    <3> QED
      BY <3>3 DEF Shape, CommitsOK, Refs, None
  <2>2. CASE ~InitialiseOrphan(s)
    BY <2>2, NoCommit DEF InitialiseFromMain
  <2> QED
    BY <2>1, <2>2
<1>3. Refs \subseteq Refs'
  BY <1>2, MoreRefs
<1>4. PICK c \in Refs' : c # None /\ ltrunk' = [ltrunk EXCEPT ![s] = c]
  BY <1>1, <1>2, <1>3 DEF InitialiseOrphan, InitialiseFromMain
<1>5. /\ pc' = [pc EXCEPT ![s] = "pushTrunk"]
      /\ onext' = [onext EXCEPT ![s] = refs[update(s)]]
      /\ UNCHANGED <<request, remoteVars, lnext, mine, completed>>
  BY DEF InitialiseOrphan, InitialiseFromMain, Goes
<1>6. RemoteShape' /\ Typed'
  BY <1>3, <1>5 DEF Shape, RemoteShape, Typed, remoteVars
<1>7. LocalShape' /\ CompletedOK'
  BY <1>1, <1>3, <1>4, <1>5 DEF Shape, LocalShape, CompletedOK
<1>8. \A t \in Sessions : HasBranch(t)'
  BY <1>4, <1>5 DEF Shape, LocalShape, HasBranch
<1> QED
  BY <1>2, <1>6, <1>7, <1>8 DEF Shape

LEMMA PrepareShape == ASSUME Shape, NEW s \in Sessions, PrepareEnvironment(s) PROVE Shape'
<1> USE DEF PrepareEnvironment, Goes
<1>1. CommitsOK' /\ Typed' /\ RemoteShape' /\ Refs' = Refs
  BY RemoteStays
<1>2. PICK c \in FetchedTrunks(s) :
        /\ ltrunk' = [ltrunk EXCEPT ![s] = c]
        /\ lnext' = [lnext EXCEPT ![s] = IF onext[s] = None THEN c ELSE onext[s]]
  OBVIOUS
<1>3. c \in Refs /\ c # None
  <2>1. ltrunk[s] \in Refs /\ ltrunk[s] # None /\ refs[Trunk] \in Refs
    BY DEF Shape, LocalShape, HasBranch, RemoteShape, Branches
  <2> QED
    BY <1>2, <2>1 DEF FetchedTrunks
<1>4. LocalShape' /\ CompletedOK'
  <2>1. onext[s] \in Refs
    BY DEF Shape, LocalShape
  <2>2. (IF onext[s] = None THEN c ELSE onext[s]) \in Refs
    BY <1>3, <2>1
  <2> QED
    BY <1>1, <1>2, <1>3, <2>2 DEF Shape, LocalShape, CompletedOK, PCs, Early
<1>5. \A t \in Sessions : HasBranch(t)'
  BY <1>2, <1>3 DEF Shape, LocalShape, HasBranch
<1> QED
  BY <1>1, <1>4, <1>5 DEF Shape

LEMMA CommitShape ==
  ASSUME Shape, NEW s \in Sessions, Commit(s) PROVE Shape' /\ Preserved
<1> USE DEF Commit, Goes
<1>1. CommitsOK' /\ Preserved /\ Fresh \in Refs'
  <2> DEFINE a == anc[lnext[s]]
             h == has[lnext[s]] \cup {s}
  <2>1. lnext[s] \in 1 .. used /\ lnext[s] \in Commits
    BY RefIsMade DEF Shape, LocalShape, HasBranch
  <2>2. a \in SUBSET (1 .. used) /\ h \in SUBSET Sessions /\ request[s].content \in Trees
    BY <2>1, UpdateIsBranch DEF Shape, CommitsOK
  <2>3. CommitsOK /\ NewCommit(request[s].content, a, h)
    BY DEF Shape
  <2> HIDE DEF a, h
  <2>4. CommitsOK' /\ Preserved /\ used' = used + 1 /\ Fresh = used + 1
    BY <2>2, <2>3, CommitAdds
  <2> QED
    BY <2>4 DEF Shape, CommitsOK, Refs
<1>2. Refs \subseteq Refs'
  BY <1>1, MoreRefs
<1>3. Typed' /\ RemoteShape' /\ CompletedOK'
  BY <1>2 DEF Shape, Typed, RemoteShape, CompletedOK, remoteVars
<1>4. LocalShape'
  BY <1>1, <1>2 DEF Shape, LocalShape, PCs
<1>5. \A t \in Sessions : HasBranch(t)'
  BY DEF Shape, LocalShape, HasBranch
<1> QED
  BY <1>1, <1>3, <1>4, <1>5 DEF Shape

LEMMA PushShape ==
  ASSUME Shape, NEW s \in Sessions, Push(s) \/ PushTrunk(s)
  PROVE  Shape' /\ Preserved /\ (Push(s) => refs'[Trunk] = refs[Trunk])
<1>1. /\ UNCHANGED <<request, reviews, declined, commitVars, localVars>>
      /\ refs' \in {[refs EXCEPT ![Trunk] = ltrunk[s]], [refs EXCEPT ![update(s)] = mine[s]]}
      /\ Push(s) => refs' = [refs EXCEPT ![update(s)] = mine[s]]
  BY DEF Push, PushTrunk, ForcePush
<1>2. PICK q \in PCs : pc' = [pc EXCEPT ![s] = q] /\ q \in {"prepare", "error", "review"}
                       /\ (q = "prepare" => pc[s] = "pushTrunk")
  BY DEF Push, PushTrunk, GoesOrFails, Goes, PCs, Early
<1>3. CommitsOK' /\ Preserved /\ Refs' = Refs
  BY <1>1, NoCommit
<1>4. ltrunk[s] \in Refs /\ mine[s] \in Refs
  BY DEF Shape, LocalShape
<1>5. RemoteShape' /\ Typed'
  BY <1>1, <1>3, <1>4 DEF Shape, RemoteShape, Typed
<1>6. LocalShape' /\ CompletedOK'
  BY <1>1, <1>2, <1>3, LocalsStay
<1>7. \A t \in Sessions : HasBranch(t)'
  BY <1>1, <1>2 DEF Shape, LocalShape, HasBranch, localVars
<1>8. Push(s) => refs'[Trunk] = refs[Trunk]
  <2>1. update(s) # Trunk
    BY UpdateIsBranch
  <2> QED
    BY <1>1, <2>1 DEF Shape, RemoteShape, Branches
<1> QED
  BY <1>3, <1>5, <1>6, <1>7, <1>8 DEF Shape

LEMMA DryRunShape == ASSUME Shape, NEW s \in Sessions, DryRun(s) PROVE Shape'
<1> USE DEF DryRun, Goes
<1>1. CommitsOK' /\ Typed' /\ RemoteShape' /\ Refs' = Refs
  BY RemoteStays
<1>2. LocalShape'
  BY <1>1 DEF Shape, LocalShape, PCs
<1>3. CompletedOK'
  BY UpdateIsBranch DEF Shape, CompletedOK
<1>4. \A t \in Sessions : HasBranch(t)'
  BY DEF Shape, LocalShape, HasBranch
<1> QED
  BY <1>1, <1>2, <1>3, <1>4 DEF Shape

LEMMA CreateReviewShape == ASSUME Shape, NEW s \in Sessions, CreateReview(s) PROVE Shape'
<1> USE DEF CreateReview
<1>1. CommitsOK' /\ Preserved /\ Refs' = Refs
  BY NoCommit
<1>2. PICK q \in PCs : pc' = [pc EXCEPT ![s] = q] /\ q \in {"complete", "end", "error"}
  BY DEF GoesOrFails, Goes, PCs
<1>3. RemoteShape' /\ Typed'
  BY <1>1, UpdateIsBranch DEF Shape, RemoteShape, Typed
<1>4. LocalShape' /\ CompletedOK'
  BY <1>1, <1>2, LocalsStay
<1>5. \A t \in Sessions : HasBranch(t)'
  BY <1>2 DEF Shape, LocalShape, HasBranch, localVars
<1> QED
  BY <1>1, <1>3, <1>4, <1>5 DEF Shape

LEMMA CompleteReviewShape == ASSUME Shape, NEW s \in Sessions, CompleteReview(s) PROVE Shape'
<1> USE DEF CompleteReview, Goes
<1>1. CommitsOK' /\ Preserved /\ RemoteShape'
  BY MergeShape
<1>2. Refs \subseteq Refs' /\ Typed'
  BY <1>1, MoreRefs DEF Shape, Typed
<1>3. LocalShape'
  BY <1>2 DEF Shape, LocalShape, PCs
<1>4. CompletedOK'
  BY DEF Shape, CompletedOK
<1>5. \A t \in Sessions : HasBranch(t)'
  BY DEF Shape, LocalShape, HasBranch
<1> QED
  BY <1>1, <1>2, <1>3, <1>4, <1>5 DEF Shape

\* What the forge and the people there do leaves the sessions where they are.
LEMMA SessionsStay ==
  ASSUME Shape, Preserved, UNCHANGED <<pc, localVars>>
  PROVE  LocalShape' /\ CompletedOK' /\ \A t \in Sessions : HasBranch(t)'
<1>1. Refs \subseteq Refs'
  BY MoreRefs
<1>2. LocalShape'
  BY <1>1 DEF Shape, LocalShape, localVars
<1> QED
  BY <1>2 DEF Shape, CompletedOK, HasBranch, localVars

LEMMA ForgeShape ==
  ASSUME Shape, NEW u \in Updates, HumanMerge(u) \/ CloseReview(u)
  PROVE  Shape'
<1>1. request' = request /\ UNCHANGED <<pc, localVars>>
  BY DEF HumanMerge, CloseReview
<1>2. CommitsOK' /\ Preserved /\ RemoteShape'
  <2>1. CASE HumanMerge(u)
    BY <2>1, MergeShape DEF HumanMerge
  <2>2. CASE CloseReview(u)
    <3>1. CommitsOK' /\ Preserved /\ Refs' = Refs
      BY <2>2, NoCommit DEF CloseReview
    <3> QED
      BY <2>2, <3>1 DEF CloseReview, Shape, RemoteShape
  <2> QED
    BY <2>1, <2>2
<1> QED
  BY <1>1, <1>2, SessionsStay DEF Shape, Typed

LEMMA ForgeUnreachableShape ==
  ASSUME Shape, NEW s \in Sessions, ForgeUnreachable(s) PROVE Shape'
<1> USE DEF ForgeUnreachable
<1>1. CommitsOK' /\ Typed' /\ RemoteShape' /\ Refs' = Refs
  BY RemoteStays
<1>2. LocalShape' /\ CompletedOK'
  BY <1>1 DEF Shape, LocalShape, CompletedOK, PCs, localVars
<1>3. \A t \in Sessions : HasBranch(t)'
  BY DEF HasBranch
<1> QED
  BY <1>1, <1>2, <1>3 DEF Shape

LEMMA NextShape == Shape /\ [Next]_vars => Shape'
<1> SUFFICES ASSUME Shape, [Next]_vars PROVE Shape'
  OBVIOUS
<1>1. ASSUME NEW s \in Sessions, Step(s) PROVE Shape'
  <2>1. CASE \/ TrunkNotFound(s) \/ ProcessAndCopy(s) \/ NothingToCommit(s)
             \/ MergeElsewhere(s) \/ Answer(s) \/ Fails(s)
    <3>1. UNCHANGED <<request, remoteVars, commitVars, localVars>>
      BY <2>1 DEF TrunkNotFound, ProcessAndCopy, NothingToCommit, MergeElsewhere, Answer,
         Fails
    <3>2. \E q \in PCs \cup {"cloneMain", "pushTrunk"} :
            /\ pc' = [pc EXCEPT ![s] = q] /\ q \notin {"pushTrunk", "prepare", "process"}
            /\ q = "commit" => pc[s] = "process"
      BY <2>1 DEF TrunkNotFound, ProcessAndCopy, NothingToCommit, MergeElsewhere, Answer,
         Fails, Goes, PCs, Early
    <3> QED
      BY <3>1, <3>2, MoveShape
  <2> QED
    BY <1>1, <2>1, CloneShape, InitialiseShape, PrepareShape, CommitShape, PushShape,
       DryRunShape, CreateReviewShape, CompleteReviewShape, ForgeUnreachableShape
    DEF Step
<1>2. CASE UNCHANGED vars
  <2>1. UNCHANGED <<request, remoteVars, commitVars, pc, localVars>>
    BY <1>2 DEF vars
  <2> QED
    BY <2>1, RemoteStays, SessionsStay DEF Shape
<1> QED
  BY <1>1, <1>2, ForgeShape DEF Next, AllAnswered

LEMMA AlwaysShape == Spec => []Shape
BY InitShape, NextShape, PTL DEF Spec

\* Whatever the setting, the variables keep their types: every branch and every clone
\* refers to commits that were made, and a session that is about to push the
\* environment branch or to write to the next branch has that branch in its clone.
THEOREM Types == Spec => []TypeOK
<1>1. Shape => TypeOK
  <2> SUFFICES ASSUME Shape PROVE TypeOK
    OBVIOUS
  <2>1. Refs \subseteq Commits \cup {None} /\ used \in Commits
    BY PromotionAssumption DEF Shape, CommitsOK, Commits, None, Refs
  <2>2. refs \in [Branches -> Commits \cup {None}]
    BY <2>1 DEF Shape, RemoteShape
  <2>3. /\ ltrunk \in [Sessions -> Commits \cup {None}]
        /\ onext \in [Sessions -> Commits \cup {None}]
        /\ lnext \in [Sessions -> Commits \cup {None}]
        /\ mine \in [Sessions -> Commits \cup {None}]
    BY <2>1 DEF Shape, LocalShape
  <2>4. pc \in [Sessions -> {"clone", "cloneMain", "pushTrunk", "prepare", "process",
                             "commit", "push", "review", "complete", "end", "ok", "error"}]
    BY DEF Shape, LocalShape, PCs, Early
  <2> QED
    BY <2>1, <2>2, <2>3, <2>4 DEF TypeOK, Shape, Typed, CommitsOK, RemoteShape, CompletedOK
<1> QED
  BY <1>1, AlwaysShape, PTL

(***************************************************************************)
(* What the trunk keeps.                                                   *)
(***************************************************************************)
\* A step that leaves the trunk's branch and the commits made so far alone.
LEMMA TrunkUntouched ==
  ASSUME Shape, Preserved, refs'[Trunk] = refs[Trunk]
  PROVE  OnTrunk' = OnTrunk
<1>1. refs[Trunk] = None \/ refs[Trunk] \in 1 .. used
  BY RefIsMade DEF Shape, RemoteShape, Branches
<1> QED
  BY <1>1 DEF Preserved, OnTrunk

LEMMA TrunkChange ==
  ASSUME Shape, [Next]_vars
  PROVE  /\ (\A s \in Sessions : ~PushTrunk(s)) => OnTrunk \subseteq OnTrunk'
         /\ refs[Trunk] # None => refs'[Trunk] # None
<1>1. ASSUME UNCHANGED <<refs, has>>
      PROVE  OnTrunk' = OnTrunk /\ refs'[Trunk] = refs[Trunk]
  BY <1>1 DEF OnTrunk
<1>2. ASSUME NEW u, MergeReview(u)
      PROVE  OnTrunk \subseteq OnTrunk' /\ refs'[Trunk] # None
  BY <1>2, MergeShape
<1>3. ASSUME NEW s \in Sessions, Step(s)
      PROVE  \/ OnTrunk \subseteq OnTrunk' /\ (refs[Trunk] # None => refs'[Trunk] # None)
             \/ PushTrunk(s) /\ refs'[Trunk] # None
  <2>1. CASE InitialiseOrphan(s) \/ Commit(s) \/ Push(s)
    <3>1. Preserved /\ refs'[Trunk] = refs[Trunk]
      BY <2>1, InitialiseShape, CommitShape, PushShape
      DEF InitialiseOrphan, Commit, remoteVars
    <3> QED
      BY <3>1, TrunkUntouched
  <2>2. CASE PushTrunk(s)
    <3>1. ltrunk[s] # None
      BY <2>2 DEF PushTrunk, Goes, Shape, HasBranch
    <3>2. refs'[Trunk] = ltrunk[s]
      BY <2>2 DEF PushTrunk, ForcePush, Shape, RemoteShape, Branches
    <3> QED
      BY <2>2, <3>1, <3>2
  <2>3. CASE CompleteReview(s)
    BY <2>3, <1>2 DEF CompleteReview
  <2>4. CASE ~(InitialiseOrphan(s) \/ Commit(s) \/ Push(s) \/ PushTrunk(s) \/ CompleteReview(s))
    <3>1. UNCHANGED <<refs, has>>
      BY <1>3, <2>4
      DEF Step, Clone, TrunkNotFound, InitialiseFromMain, PrepareEnvironment,
          ProcessAndCopy, NothingToCommit, DryRun, CreateReview, MergeElsewhere,
          ForgeUnreachable, Answer, Fails, remoteVars, commitVars
    <3> QED
      BY <3>1, <1>1
  <2> QED
    BY <2>1, <2>2, <2>3, <2>4
<1>4. ASSUME NEW u \in Updates, HumanMerge(u) \/ CloseReview(u)
      PROVE  OnTrunk \subseteq OnTrunk' /\ (refs[Trunk] # None => refs'[Trunk] # None)
  BY <1>4, <1>1, <1>2 DEF HumanMerge, CloseReview, commitVars
<1>5. CASE UNCHANGED vars
  BY <1>5, <1>1 DEF vars, remoteVars, commitVars
<1> QED
  BY <1>3, <1>4, <1>5 DEF Next, AllAnswered, vars

\* Only the push that founds an environment branch may take a merge off it: no other
\* step does, whoever works on the environment and on which updates.
OnlyFoundingRewinds ==
    [][(\A s \in Sessions : ~PushTrunk(s)) => OnTrunk \subseteq OnTrunk']_vars

\* Only the push of a new environment branch (InitRepository) can undo a merge.
THEOREM FoundingRewinds == Spec => OnlyFoundingRewinds
<1>1. Shape /\ [Next]_vars
         => [(\A s \in Sessions : ~PushTrunk(s)) => OnTrunk \subseteq OnTrunk']_vars
  BY TrunkChange
<1> QED
  BY <1>1, AlwaysShape, PTL DEF Spec, OnlyFoundingRewinds

\* The branch that a session founds carries no update.
FoundsEmpty ==
    /\ has[MainCommit] = {}
    /\ \A s \in Sessions : pc[s] = "pushTrunk" => has[ltrunk[s]] = {}

LEMMA FoundsEmptyStays == Shape /\ FoundsEmpty /\ [Next]_vars => FoundsEmpty'
<1> SUFFICES ASSUME Shape, FoundsEmpty, [Next]_vars PROVE FoundsEmpty'
  OBVIOUS
<1>1. MainCommit \in 1 .. used
  BY DEF Shape, CommitsOK, MainCommit
<1>2. \A s \in Sessions : pc[s] = "pushTrunk" => ltrunk[s] \in 1 .. used
  BY RefIsMade DEF Shape, LocalShape, HasBranch
<1>3. ASSUME Preserved,
             \A s \in Sessions : pc'[s] = "pushTrunk"
                => pc[s] = "pushTrunk" /\ ltrunk'[s] = ltrunk[s]
      PROVE  FoundsEmpty'
  BY <1>1, <1>2, <1>3 DEF FoundsEmpty, Preserved, MainCommit
<1>4. ASSUME UNCHANGED commitVars PROVE Preserved
  BY <1>4, NoCommit
<1>5. ASSUME NEW s \in Sessions, Step(s) PROVE FoundsEmpty'
  <2>1. CASE InitialiseOrphan(s)
    <3>1. EmptyTree \in Trees /\ {} \in SUBSET (1 .. used) /\ {} \in SUBSET Sessions
      BY PromotionAssumption
    <3>2. NewCommit(EmptyTree, {}, {}) /\ CommitsOK
      BY <2>1 DEF InitialiseOrphan, Shape
    <3>3. Preserved /\ has'[Fresh] = {}
      BY <3>1, <3>2, CommitAdds
    <3>4. \A t \in Sessions : pc'[t] = "pushTrunk" => has'[ltrunk'[t]] = {}
      BY <2>1, <3>3, <1>2
      DEF InitialiseOrphan, Goes, Shape, LocalShape, FoundsEmpty, Preserved
    <3> QED
      BY <3>3, <3>4, <1>1 DEF FoundsEmpty, Preserved, MainCommit
  <2>2. CASE InitialiseFromMain(s)
    BY <2>2 DEF InitialiseFromMain, Goes, commitVars, Shape, LocalShape, FoundsEmpty
  <2>3. CASE CompleteReview(s)
    <3>1. Preserved
      BY <2>3, MergeShape DEF CompleteReview
    <3> QED
      BY <2>3, <3>1, <1>3 DEF CompleteReview, Goes, Shape, LocalShape
  <2>4. CASE Commit(s)
    <3>1. Preserved
      BY <2>4, CommitShape
    <3> QED
      BY <2>4, <3>1, <1>3 DEF Commit, Goes, Shape, LocalShape
  <2>5. CASE ~(InitialiseOrphan(s) \/ InitialiseFromMain(s) \/ CompleteReview(s) \/ Commit(s))
    <3>1. UNCHANGED commitVars
      BY <1>5, <2>5
      DEF Step, Clone, TrunkNotFound, PushTrunk, PrepareEnvironment, ProcessAndCopy,
          NothingToCommit, Push, DryRun, CreateReview, MergeElsewhere, ForgeUnreachable,
          Answer, Fails
    <3>2. \A t \in Sessions : pc'[t] = "pushTrunk"
            => pc[t] = "pushTrunk" /\ ltrunk'[t] = ltrunk[t]
      BY <1>5, <2>5
      DEF Shape, LocalShape, Step, Clone, TrunkNotFound, PushTrunk, PrepareEnvironment,
          ProcessAndCopy, NothingToCommit, Push, DryRun, CreateReview, MergeElsewhere,
          ForgeUnreachable, Answer, Fails, GoesOrFails, Goes, localVars
    <3> QED
      BY <3>1, <3>2, <1>3, <1>4
  <2> QED
    BY <2>1, <2>2, <2>3, <2>4, <2>5
<1>6. ASSUME NEW u \in Updates, HumanMerge(u) \/ CloseReview(u) PROVE FoundsEmpty'
  <2>1. Preserved
    BY <1>4, <1>6, MergeShape DEF HumanMerge, CloseReview
  <2> QED
    BY <1>3, <1>6, <2>1 DEF HumanMerge, CloseReview, localVars
<1>7. CASE UNCHANGED vars
  BY <1>7 DEF vars, commitVars, localVars, FoundsEmpty
<1> QED
  BY <1>5, <1>6, <1>7 DEF Next, AllAnswered

\* What comes to the environment branch was on the next branch of an open review, and
\* that review is done.
LandsByReview ==
    [][\A t \in OnTrunk' \ OnTrunk :
          \E u \in reviews \ reviews' : refs[u] # None /\ t \in has[refs[u]]]_vars

LEMMA TrunkLands ==
  ASSUME Shape, FoundsEmpty, [Next]_vars, NEW t \in OnTrunk' \ OnTrunk
  PROVE  \E u \in reviews \ reviews' : refs[u] # None /\ t \in has[refs[u]]
<1>1. ASSUME NEW u, MergeReview(u)
      PROVE  \E v \in reviews \ reviews' : refs[v] # None /\ t \in has[refs[v]]
  <2>1. t \in has[refs[u]]
    BY <1>1, MergeShape
  <2> QED
    BY <1>1, <2>1 DEF MergeReview
<1>2. ~(Preserved /\ refs'[Trunk] = refs[Trunk])
  BY TrunkUntouched
<1>3. UNCHANGED commitVars => refs'[Trunk] # refs[Trunk]
  BY <1>2, NoCommit
<1>4. ASSUME NEW s \in Sessions, Step(s) PROVE CompleteReview(s)
  <2>1. ~PushTrunk(s)
    <3> SUFFICES ASSUME PushTrunk(s) PROVE FALSE
      OBVIOUS
    <3>1. refs'[Trunk] = ltrunk[s] /\ has' = has /\ pc[s] = "pushTrunk"
      BY DEF PushTrunk, ForcePush, Goes, Shape, RemoteShape, Branches, commitVars
    <3>2. OnTrunk' = {}
      BY <3>1 DEF OnTrunk, FoundsEmpty
    <3> QED
      BY <3>2
  <2>2. ~(InitialiseOrphan(s) \/ Commit(s) \/ Push(s))
    BY <1>2, InitialiseShape, CommitShape, PushShape DEF InitialiseOrphan, Commit, remoteVars
  <2> QED
    BY <1>3, <1>4, <2>1, <2>2
    DEF Step, Clone, TrunkNotFound, InitialiseFromMain, PrepareEnvironment,
        ProcessAndCopy, NothingToCommit, DryRun, CreateReview, MergeElsewhere,
        ForgeUnreachable, Answer, Fails, remoteVars
<1>5. \E u : MergeReview(u)
  <2>1. ~UNCHANGED vars
    BY <1>3 DEF vars, remoteVars
  <2>2. \A u \in Updates : ~CloseReview(u)
    BY <1>3 DEF CloseReview
  <2> QED
    BY <1>4, <2>1, <2>2 DEF Next, AllAnswered, HumanMerge, CompleteReview
<1> QED
  BY <1>1, <1>5

\* Nothing gets to the environment branch but through a review, in no setting: not by
\* a push of next, nor by sessions that found the branch together.
THEOREM OnlyReviewsLand == Spec => LandsByReview
<1>1. Init => FoundsEmpty
  BY PromotionAssumption DEF Init, FoundsEmpty, MainCommit, Commits
<1>2. Shape /\ FoundsEmpty /\ [Next]_vars
         => [\A t \in OnTrunk' \ OnTrunk :
               \E u \in reviews \ reviews' : refs[u] # None /\ t \in has[refs[u]]]_vars
  BY TrunkLands
<1>3. Spec => []FoundsEmpty
  BY <1>1, FoundsEmptyStays, AlwaysShape, PTL DEF Spec
<1> QED
  BY <1>2, <1>3, AlwaysShape, PTL DEF Spec, LandsByReview

(***************************************************************************)
(* Where the environment branch exists, and updates may be repeated.       *)
(***************************************************************************)
Rooted ==
    /\ refs[Trunk] # None
    /\ \A s \in Sessions : pc[s] \notin {"cloneMain", "pushTrunk"}

LEMMA InitRooted == TrunkPresent /\ Init => Rooted
BY PromotionAssumption DEF Init, Rooted, Branches, TrunkCommit, None

\* No session founds a branch that is there.
LEMMA RootedStays ==
  Shape /\ Rooted /\ [Next]_vars => Rooted' /\ \A s \in Sessions : ~PushTrunk(s)
<1> SUFFICES ASSUME Shape, Rooted, [Next]_vars
             PROVE  Rooted' /\ \A s \in Sessions : ~PushTrunk(s)
  OBVIOUS
<1>1. \A s \in Sessions : ~PushTrunk(s) /\ ~TrunkNotFound(s) /\ ~InitialiseOrphan(s)
                          /\ ~InitialiseFromMain(s)
  BY DEF Rooted, PushTrunk, TrunkNotFound, InitialiseOrphan, InitialiseFromMain, Goes
<1>2. refs'[Trunk] # None
  BY TrunkChange DEF Rooted
<1>3. ASSUME NEW s \in Sessions, Step(s)
      PROVE  \A t \in Sessions : pc'[t] \notin {"cloneMain", "pushTrunk"}
  BY <1>1, <1>3
  DEF Rooted, Shape, LocalShape, Step, Clone, PrepareEnvironment, ProcessAndCopy, Commit,
      NothingToCommit, Push, DryRun, CreateReview, CompleteReview, MergeElsewhere,
      ForgeUnreachable, Answer, Fails, GoesOrFails, Goes
<1>4. \A t \in Sessions : pc'[t] \notin {"cloneMain", "pushTrunk"}
  BY <1>3 DEF Next, HumanMerge, CloseReview, AllAnswered, vars, Rooted
<1> QED
  BY <1>1, <1>2, <1>4 DEF Rooted

LEMMA AlwaysRooted == TrunkPresent /\ Spec => []Rooted
BY InitRooted, RootedStays, AlwaysShape, PTL DEF Spec

\* On an environment branch that exists, merges stay: repeated and concurrent requests
\* for one update may take each other's next branch, but nothing off the trunk.
THEOREM TrunkKeeps == TrunkPresent /\ Spec => TrunkKeepsMerges
<1>1. Shape /\ Rooted /\ [Next]_vars => [OnTrunk \subseteq OnTrunk']_vars
  BY TrunkChange, RootedStays
<1> QED
  BY <1>1, AlwaysShape, AlwaysRooted, PTL DEF Spec, TrunkKeepsMerges

(***************************************************************************)
(* Dry runs.                                                               *)
(***************************************************************************)
\* The requests never change.
LEMMA RequestStays == [Next]_vars => request' = request
<1> SUFFICES ASSUME [Next]_vars PROVE request' = request
  OBVIOUS
<1>1. ASSUME NEW s \in Sessions, Step(s) PROVE request' = request
  BY <1>1
  DEF Step, Clone, TrunkNotFound, InitialiseOrphan, InitialiseFromMain, PushTrunk,
      PrepareEnvironment, ProcessAndCopy, Commit, NothingToCommit, Push, DryRun,
      CreateReview, CompleteReview, MergeElsewhere, ForgeUnreachable, Answer, Fails
<1> QED
  BY <1>1 DEF Next, HumanMerge, CloseReview, AllAnswered, vars

AllDry == \A s \in Sessions : request[s].dryRun

\* Only the branch that was there from the start is there.
Untouched == refs[Trunk] = TrunkCommit /\ \A u \in Updates : refs[u] = None

\* Nothing that could move a branch is enabled: dry sessions do not push, and there is
\* no next branch to merge.
LEMMA DryKeeps ==
  Shape /\ Rooted /\ (AllDry => Untouched) /\ [Next]_vars => (AllDry => Untouched)'
<1> SUFFICES ASSUME Shape, Rooted, AllDry => Untouched, [Next]_vars, AllDry'
             PROVE  Untouched'
  OBVIOUS
<1>1. AllDry /\ Untouched
  BY RequestStays DEF AllDry
<1>2. \A s \in Sessions : ~Push(s) /\ ~PushTrunk(s)
  BY <1>1, RootedStays DEF AllDry, Push
<1>3. \A u \in Updates : ~MergeReview(u)
  BY <1>1 DEF Untouched, MergeReview
<1>4. ASSUME NEW s \in Sessions, Step(s) PROVE refs' = refs
  <2>1. ~CompleteReview(s)
    BY <1>3, UpdateIsBranch DEF CompleteReview
  <2> QED
    BY <1>2, <1>4, <2>1
    DEF Step, Clone, TrunkNotFound, InitialiseOrphan, InitialiseFromMain,
        PrepareEnvironment, ProcessAndCopy, Commit, NothingToCommit, DryRun, CreateReview,
        MergeElsewhere, ForgeUnreachable, Answer, Fails, remoteVars
<1>5. refs' = refs
  BY <1>3, <1>4 DEF Next, HumanMerge, CloseReview, AllAnswered, vars, remoteVars
<1> QED
  BY <1>1, <1>5 DEF Untouched

\* Where the environment branch exists, dry runs push nothing: the remote's branches
\* stay as they were, also of requests that repeat an update.
THEOREM DryRuns == TrunkPresent /\ Spec => []DryRunPushesNothing
<1> SUFFICES ASSUME TrunkPresent PROVE Spec => []DryRunPushesNothing
  OBVIOUS
<1>1. Init => (AllDry => Untouched)
  BY PromotionAssumption DEF Init, Untouched, Branches, TrunkCommit, None
<1>2. (AllDry => Untouched) => DryRunPushesNothing
  BY PromotionAssumption DEF AllDry, Untouched, DryRunPushesNothing, Branches
<1>3. Spec => []Rooted
  BY AlwaysRooted
<1> QED
  BY <1>1, <1>2, <1>3, DryKeeps, AlwaysShape, PTL DEF Spec

(***************************************************************************)
(* The first request of an environment, alone.                             *)
(***************************************************************************)
FirstSetting == ~TrunkPresent /\ \E s \in Sessions : Sessions = {s}

\* Until its session has pushed the environment branch, nothing is on the remote and
\* no commit carries an update.
Founding ==
    /\ Shape /\ (\E s \in Sessions : Sessions = {s})
    /\ refs = [b \in Branches |-> None] /\ reviews = {} /\ declined = {}
    /\ \A c \in 1 .. used : has[c] = {}
    /\ \A s \in Sessions :
          /\ pc[s] \in {"clone", "cloneMain", "pushTrunk", "error"}
          /\ onext[s] = None /\ lnext[s] = None /\ mine[s] = None
          /\ completed[s] = FALSE

LEMMA InitFounding == FirstSetting /\ Init => Founding
<1> SUFFICES ASSUME FirstSetting, Init PROVE Founding
  OBVIOUS
<1>1. Shape
  BY InitShape
<1>2. refs = [b \in Branches |-> None]
  BY DEF Init, FirstSetting
<1>3. \A c \in 1 .. used : has[c] = {}
  BY PromotionAssumption DEF Init, Commits, TrunkCommit
<1> QED
  BY <1>1, <1>2, <1>3 DEF Init, Founding, FirstSetting

\* The push of the environment branch leads to where the branch exists.
LEMMA FoundingPush ==
  ASSUME Founding, NEW s \in Sessions, PushTrunk(s)
  PROVE  IInv' /\ OnTrunk' = {}
<1>1. /\ UNCHANGED <<request, reviews, declined, commitVars, localVars>>
      /\ refs' = [refs EXCEPT ![Trunk] = ltrunk[s]] /\ pc[s] = "pushTrunk"
      /\ pc'[s] \in {"prepare", "error"} /\ Sessions = {s}
  BY DEF PushTrunk, ForcePush, Goes, Founding, Shape, LocalShape
<1>2. Shape'
  BY PushShape DEF Founding
<1>3. ltrunk[s] # None /\ ltrunk[s] \in Refs /\ ltrunk[s] \in 1 .. used
  BY <1>1, RefIsMade DEF Founding, Shape, LocalShape, HasBranch
<1>4. refs'[Trunk] = ltrunk[s] /\ refs'[update(s)] = None /\ update(s)' = update(s)
  BY <1>1, UpdateIsBranch DEF Founding, Branches, update
<1>5. OnTrunk' = {}
  BY <1>1, <1>3, <1>4 DEF OnTrunk, Founding, commitVars
<1>6. RequestsOK'
  BY <1>1, <1>2 DEF Shape, Typed, Requests, RequestsOK, update
<1>7. RemoteOK'
  BY <1>1, <1>2, <1>3, <1>4 DEF Founding, Shape, RemoteShape, Refs, RemoteOK
<1>8. LocalsOK'
  <2>1. pc' \in [Sessions -> PCs]
    BY <1>1, <1>2 DEF Shape, LocalShape, PCs, Early
  <2>2. onext' \in [Sessions -> {None}]
    BY <1>1, <1>2 DEF Founding, Shape, LocalShape, localVars
  <2> QED
    BY <2>1, <2>2, <1>2 DEF Shape, LocalShape, Refs, LocalsOK
<1>9. SInv(s)'
  <2>1. Held(ltrunk[s])' /\ Held(lnext[s])'
    <3>1. ltrunk[s] \in anc[ltrunk[s]] /\ has[ltrunk[s]] = {}
      BY <1>3 DEF Founding, Shape, CommitsOK
    <3> QED
      BY <3>1, <1>1, <1>4 DEF Founding, Held, localVars, commitVars
  <2>2. mine'[s] = None /\ completed'[s] = FALSE /\ ltrunk'[s] # None
    BY <1>1, <1>3 DEF Founding, localVars
  <2>3. Based(s)'
    BY <2>1, <2>2, <1>1 DEF Based
  <2>4. Made(s)'
    BY <2>2, <1>1 DEF Made
  <2>5. Pushed(s)'
    BY <1>1, <1>4 DEF Pushed, Founding
  <2>6. Outcome(s)'
    BY <2>2, <1>1, <1>4 DEF Outcome
  <2> QED
    BY <2>3, <2>4, <2>5, <2>6 DEF SInv
<1> QED
  BY <1>1, <1>2, <1>5, <1>6, <1>7, <1>8, <1>9 DEF IInv, Shape

\* Everything before is preparation in the session's clone.
LEMMA FoundingStep ==
  ASSUME Founding, [Next]_vars
  PROVE  \/ Founding' /\ UNCHANGED <<request, refs, reviews, declined>>
         \/ \E s \in Sessions : PushTrunk(s)
<1>1. Shape'
  BY NextShape DEF Founding
<1>2. \A b \in Branches : refs[b] = None
  BY DEF Founding
<1>3. ASSUME NEW u PROVE ~MergeReview(u) /\ ~CloseReview(u)
  BY DEF Founding, MergeReview, CloseReview
<1>4. ASSUME NEW s \in Sessions, Step(s), ~PushTrunk(s)
      PROVE  Founding' /\ UNCHANGED <<request, refs, reviews, declined>>
  <2>1. TrunkNotFound(s) \/ InitialiseOrphan(s) \/ InitialiseFromMain(s) \/ Fails(s)
    <3>1. refs[Trunk] = None
      BY <1>2 DEF Branches
    <3> QED
      BY <3>1, <1>4
      DEF Founding, Step, Clone, PrepareEnvironment, ProcessAndCopy, Commit,
          NothingToCommit, Push, DryRun, CreateReview, CompleteReview, MergeElsewhere,
          ForgeUnreachable, Answer, GoesOrFails, Goes
  <2>2. /\ UNCHANGED <<request, refs, reviews, declined, lnext, mine, completed>>
        /\ \A t \in Sessions : pc'[t] \in {"clone", "cloneMain", "pushTrunk", "error"}
    BY <2>1 DEF Founding, Shape, LocalShape, TrunkNotFound, InitialiseOrphan,
       InitialiseFromMain, Fails, Goes, remoteVars, localVars
  <2>3. \A t \in Sessions : onext'[t] = None
    <3>1. refs[update(s)] = None
      BY <1>2, UpdateIsBranch DEF Founding
    <3> QED
      BY <2>1, <3>1 DEF Founding, Shape, LocalShape, TrunkNotFound, InitialiseOrphan,
         InitialiseFromMain, Fails, localVars
  <2>4. \A c \in 1 .. used' : has'[c] = {}
    <3>1. CASE InitialiseOrphan(s)
      <4>1. /\ Preserved /\ used' = used + 1 /\ Fresh = used + 1 /\ has'[Fresh] = {}
        <5>1. EmptyTree \in Trees /\ {} \in SUBSET (1 .. used) /\ {} \in SUBSET Sessions
          BY PromotionAssumption
        <5>2. NewCommit(EmptyTree, {}, {}) /\ CommitsOK
          BY <3>1 DEF InitialiseOrphan, Founding, Shape
        <5> QED
          BY <5>1, <5>2, CommitAdds
      <4>2. \A c \in 1 .. used' : c \in 1 .. used \/ c = Fresh
        BY <4>1 DEF Founding, Shape, CommitsOK
      <4> QED
        BY <4>1, <4>2 DEF Preserved, Founding
    <3>2. CASE ~InitialiseOrphan(s)
      BY <2>1, <3>2 DEF Founding, TrunkNotFound, InitialiseFromMain, Fails, commitVars
    <3> QED
      BY <3>1, <3>2
  <2> QED
    BY <1>1, <2>2, <2>3, <2>4 DEF Founding
<1>5. CASE UNCHANGED vars
  BY <1>1, <1>5 DEF Founding, vars, remoteVars, commitVars, localVars
<1> QED
  BY <1>3, <1>4, <1>5 DEF Next, HumanMerge, AllAnswered

LEMMA AlwaysFirst == FirstSetting /\ Spec => [](Founding \/ IInv)
<1>1. (Founding \/ IInv) /\ [Next]_vars => (Founding \/ IInv)'
  BY FoundingStep, FoundingPush, NextKeeps
<1> QED
  BY <1>1, InitFounding, PTL DEF Spec

\* The first request of an environment is delivered if it is answered with success.
THEOREM FirstDelivery == FirstSetting /\ Spec => []SuccessMeansDelivered
<1>1. Founding => SuccessMeansDelivered
  BY DEF Founding, SuccessMeansDelivered
<1> QED
  BY <1>1, InvDelivers, AlwaysFirst, PTL

\* Its review is reported as completed when it landed on the new branch.
THEOREM FirstCompletion == FirstSetting /\ Spec => []CompletedMeansLanded
<1>1. Founding => CompletedMeansLanded
  BY DEF Founding, CompletedMeansLanded
<1> QED
  BY <1>1, InvLands, AlwaysFirst, PTL

\* The push that founds the branch has nothing to take off it.
THEOREM FirstKeeps == FirstSetting /\ Spec => TrunkKeepsMerges
<1>1. ASSUME Founding \/ IInv, Shape, [Next]_vars PROVE OnTrunk \subseteq OnTrunk'
  <2>1. CASE Founding
    <3>1. OnTrunk = {}
      BY <2>1 DEF Founding, OnTrunk, Branches
    <3> QED
      BY <3>1
  <2>2. CASE IInv
    BY <1>1, <2>2, TrunkIsThere, TrunkChange
  <2> QED
    BY <1>1, <2>1, <2>2
<1> QED
  BY <1>1, AlwaysFirst, AlwaysShape, PTL DEF Spec, TrunkKeepsMerges

\* As far as the contract sees, nothing has happened yet.
LEMMA FoundingSeen == Founding => Contract!Init
<1> SUFFICES ASSUME Founding PROVE Contract!Init
  OBVIOUS
<1>1. \A b \in Branches : refs[b] = None
  BY DEF Founding
<1>2. OnTrunk = {}
  BY <1>1 DEF OnTrunk, Branches
<1>3. \A t \in Sessions : refs[update(t)] = None
  BY <1>1, UpdateIsBranch DEF Founding
<1> QED
  BY <1>2, <1>3 DEF Founding, Contract!Init, Offered

LEMMA FoundingPushSeen ==
  ASSUME Founding, NEW s \in Sessions, PushTrunk(s)
  PROVE  Contract!Init'
<1>1. /\ UNCHANGED <<request, reviews, declined>>
      /\ refs' = [refs EXCEPT ![Trunk] = ltrunk[s]] /\ Sessions = {s}
      /\ pc'[s] \in {"prepare", "error"}
  BY DEF PushTrunk, ForcePush, Goes, Founding, Shape, LocalShape
<1>2. refs'[update(s)] = None /\ update(s)' = update(s)
  BY <1>1, UpdateIsBranch DEF Founding, Branches, update
<1>3. reviews' = {} /\ declined' = {}
  BY <1>1 DEF Founding
<1>4. OnTrunk' = {}
  BY FoundingPush
<1>5. Offered' = {}
  BY <1>1, <1>2 DEF Offered
<1> QED
  BY <1>1, <1>3, <1>4, <1>5 DEF Contract!Init

\* The first request keeps the contract of Promotion.tla: making the environment branch
\* is nothing that the contract sees.
THEOREM FirstImplements == FirstSetting /\ Spec => KeepsContract
<1>1. Founding' => Contract!Init'
  BY FoundingSeen, PTL
<1>2. Founding /\ [Next]_vars => UNCHANGED Contract!vars
  <2> SUFFICES ASSUME Founding, [Next]_vars PROVE UNCHANGED Contract!vars
    OBVIOUS
  <2>1. Contract!Init /\ Contract!Init'
    BY <1>1, FoundingSeen, FoundingStep, FoundingPushSeen
  <2> QED
    BY <2>1 DEF Contract!Init, Contract!vars
<1>3. (Founding \/ IInv) /\ [Next]_vars => [Contract!Next]_Contract!vars
  BY <1>2, NextImplements
<1> QED
  BY <1>3, FoundingSeen, InitFounding, AlwaysFirst, PTL
  DEF Spec, KeepsContract, Contract!Spec
=============================================================================
