------------------------ MODULE PromotionFlowProofs ------------------------
(***************************************************************************)
(* Proofs about the sessions of the server (PromotionFlow.tla), for any    *)
(* set of sessions, contents and commits, where the environment branch     *)
(* exists and no two sessions work on the same update (Setting).           *)
(***************************************************************************)
EXTENDS PromotionFlow, TLAPS

Setting == TrunkPresent /\ ~SharedUpdates

(***************************************************************************)
(* The inductive invariant.                                                *)
(***************************************************************************)
RequestsOK ==
    /\ \A s \in Sessions :
          /\ update(s) \in Updates /\ request[s].content \in Trees
          /\ request[s].autoReview \in BOOLEAN
    /\ \A s, t \in Sessions : update(s) = update(t) => s = t

\* The commits that were made, and their ancestors.
CommitsOK ==
    /\ used \in 2 .. MaxCommits
    /\ tree \in [Commits -> Trees]
    /\ anc \in [Commits -> SUBSET Commits]
    /\ has \in [Commits -> SUBSET Sessions]
    /\ \A c \in 1 .. used : c \in anc[c] /\ anc[c] \subseteq 1 .. used

\* The environment branch is there; a review belongs to the update of a session.
RemoteOK ==
    /\ refs \in [Branches -> 0 .. used]
    /\ refs[Trunk] # None
    /\ reviews \subseteq {update(s) : s \in Sessions}
    /\ declined \subseteq Updates

Early == {"clone", "prepare", "process", "commit"}
PCs == Early \cup {"push", "review", "complete", "end", "ok", "error"}

LocalsOK ==
    /\ pc \in [Sessions -> PCs]
    /\ ltrunk \in [Sessions -> 0 .. used]
    /\ onext \in [Sessions -> {None}]
    /\ lnext \in [Sessions -> 0 .. used]
    /\ mine \in [Sessions -> 0 .. used]

\* What a clone holds of the environment branch carries nothing else.
Held(c) == c = None \/ (c \in anc[refs[Trunk]] /\ has[c] \subseteq OnTrunk)

Based(s) ==
    /\ Held(ltrunk[s]) /\ Held(lnext[s])
    /\ pc[s] = "prepare" => ltrunk[s] # None
    /\ pc[s] \in {"process", "commit"} => lnext[s] # None

\* The commit of a session carries its update, and else what is on the trunk.
Made(s) ==
    /\ pc[s] \in Early => mine[s] = None
    /\ pc[s] \in {"push", "review", "complete"} => mine[s] # None
    /\ mine[s] # None => s \in has[mine[s]] /\ has[mine[s]] \subseteq OnTrunk \cup {s}

\* Its next branch is that commit or nothing, and only then is there a review.
Pushed(s) ==
    /\ refs[update(s)] \in {None, mine[s]}
    /\ pc[s] \in Early \cup {"push"} => refs[update(s)] = None
    /\ update(s) \in reviews =>
          refs[update(s)] # None /\ pc[s] \in {"complete", "end", "ok", "error"}

Outcome(s) ==
    /\ (pc[s] \in {"complete", "end", "ok"} /\ mine[s] # None /\ ~request[s].dryRun)
          => s \in OnTrunk \/ update(s) \in reviews \/ update(s) \in declined
    /\ pc[s] \in {"end", "ok"} /\ mine[s] = None => TrunkHeld(s)
    /\ request[s].dryRun => refs[update(s)] = None /\ pc[s] \notin {"review", "complete"}
    /\ completed[s] /\ ~request[s].dryRun => s \in OnTrunk

SInv(s) == Based(s) /\ Made(s) /\ Pushed(s) /\ Outcome(s)

CompletedOK == completed \in [Sessions -> BOOLEAN]

IInv ==
    /\ RequestsOK /\ CommitsOK /\ RemoteOK /\ LocalsOK /\ CompletedOK
    /\ \A s \in Sessions : SInv(s)

LEMMA InitIInv == Setting /\ Init => IInv
<1> SUFFICES ASSUME Setting, Init PROVE IInv
  OBVIOUS
<1> USE PromotionAssumption DEF Setting, Init, Commits, Branches, None, Trunk,
      MainCommit, TrunkCommit
<1>1. RequestsOK
  BY DEF RequestsOK, Requests, update
<1>2. CommitsOK
  BY DEF CommitsOK
<1>3. RemoteOK
  BY DEF RemoteOK
<1>4. LocalsOK
  BY DEF LocalsOK, PCs, Early
<1>5. ASSUME NEW s \in Sessions PROVE SInv(s)
  <2>1. refs[update(s)] = None
    BY <1>1 DEF RequestsOK
  <2> QED
    BY <2>1 DEF SInv, Based, Made, Pushed, Outcome, Held, Early
<1> QED
  <2>1. CompletedOK
    BY DEF CompletedOK
  <2> QED
    BY <2>1, <1>1, <1>2, <1>3, <1>4, <1>5 DEF IInv

(***************************************************************************)
(* How steps change the commits and the trunk.                             *)
(***************************************************************************)
\* The commits that were made stay what they are.
Preserved ==
    /\ used' \in Nat /\ used <= used'
    /\ \A c \in 1 .. used : anc'[c] = anc[c] /\ has'[c] = has[c] /\ tree'[c] = tree[c]

\* The environment branch keeps its ancestors and the updates it carries.
Grows ==
    /\ Preserved
    /\ anc[refs[Trunk]] \subseteq anc'[refs'[Trunk]]
    /\ OnTrunk \subseteq OnTrunk'

\* A new commit does not touch those before it.
LEMMA CommitAdds ==
  ASSUME CommitsOK, NEW t \in Trees, NEW a \in SUBSET (1 .. used),
         NEW h \in SUBSET Sessions, NewCommit(t, a, h)
  PROVE  /\ CommitsOK' /\ Preserved
         /\ used' = used + 1 /\ Fresh = used + 1
         /\ anc'[Fresh] = a \cup {Fresh} /\ has'[Fresh] = h
<1> USE PromotionAssumption DEF CommitsOK, NewCommit, Fresh, Commits
<1>1. used + 1 \in Commits /\ used' = used + 1
  OBVIOUS
<1>2. anc'[Fresh] = a \cup {Fresh} /\ has'[Fresh] = h
  BY <1>1
<1>3. Preserved
  BY <1>1 DEF Preserved
<1>4. CommitsOK'
  <2>1. tree' \in [Commits -> Trees] /\ has' \in [Commits -> SUBSET Sessions]
    BY <1>1
  <2>2. anc' \in [Commits -> SUBSET Commits]
    BY <1>1
  <2>3. \A c \in 1 .. used' : c \in anc'[c] /\ anc'[c] \subseteq 1 .. used'
    <3> SUFFICES ASSUME NEW c \in 1 .. used'
                 PROVE  c \in anc'[c] /\ anc'[c] \subseteq 1 .. used'
      OBVIOUS
    <3>1. CASE c = Fresh
      <4>1. a \subseteq 1 .. used' /\ Fresh \in 1 .. used'
        BY <1>1
      <4>2. anc'[c] = a \cup {c}
        BY <3>1, <1>2
      <4> QED
        BY <4>1, <4>2
    <3>2. CASE c # Fresh
      <4>1. c \in 1 .. used /\ used \in Nat
        BY <3>2, <1>1
      <4>2. anc'[c] = anc[c] /\ c \in anc[c] /\ anc[c] \subseteq 1 .. used
        BY <4>1, <1>3 DEF Preserved
      <4> QED
        BY <4>1, <4>2, <1>1
    <3> QED
      BY <3>1, <3>2
  <2> QED
    BY <1>1, <2>1, <2>2, <2>3
<1> QED
  BY <1>1, <1>2, <1>3, <1>4

\* A step that makes no commit and leaves the trunk alone.
LEMMA NothingGrows ==
  ASSUME CommitsOK, RemoteOK, UNCHANGED commitVars, refs'[Trunk] = refs[Trunk]
  PROVE  CommitsOK' /\ Grows
<1>1. CommitsOK' /\ Preserved
  BY DEF CommitsOK, Preserved, commitVars
<1>2. OnTrunk' = OnTrunk
  BY DEF OnTrunk, commitVars
<1> QED
  BY <1>1, <1>2 DEF Grows, commitVars

\* A commit that is not pushed.
LEMMA CommitGrows ==
  ASSUME CommitsOK, RemoteOK, Preserved, refs' = refs
  PROVE  Grows
<1>1. refs[Trunk] \in 1 .. used
  BY PromotionAssumption DEF RemoteOK, Branches, None, CommitsOK
<1> QED
  BY <1>1 DEF Grows, Preserved, OnTrunk

\* Nothing happens to session t itself, or it fails.
StaysLocal(t) ==
    /\ pc'[t] \in {pc[t], "error"}
    /\ ltrunk'[t] = ltrunk[t] /\ lnext'[t] = lnext[t]
    /\ mine'[t] = mine[t] /\ completed'[t] = completed[t]

\* Nothing happens to its next branch and its review, or the review is over.
StaysRemote(t) ==
    /\ request' = request
    /\ declined \subseteq declined'
    /\ \/ refs'[update(t)] = refs[update(t)] /\ (update(t) \in reviews' => update(t) \in reviews)
             /\ (update(t) \in reviews => update(t) \in reviews')
       \/ /\ refs'[update(t)] \in {refs[update(t)], None}
          /\ update(t) \notin reviews'
          /\ t \in OnTrunk' \/ update(t) \in declined'

\* A commit the clone holds stays on the trunk, and so does a content it held.
LEMMA HeldStays ==
  ASSUME IInv, Grows, request' = request, NEW c \in 0 .. used, Held(c)
  PROVE  Held(c)'
<1>1. CASE c = None
  BY <1>1 DEF Held
<1>2. CASE c # None
  <2>1. c \in 1 .. used
    BY <1>2 DEF None, IInv, CommitsOK
  <2>2. has'[c] = has[c] /\ c \in anc'[refs'[Trunk]]
    BY <1>2, <2>1 DEF Held, Grows, Preserved
  <2> QED
    BY <1>2, <2>2 DEF Held, Grows
<1> QED
  BY <1>1, <1>2

LEMMA TrunkHeldStays ==
  ASSUME IInv, Grows, RemoteOK', request' = request, NEW t \in Sessions, TrunkHeld(t)
  PROVE  TrunkHeld(t)'
<1>1. PICK c \in anc[refs[Trunk]] : tree[c] = request[t].content
  BY DEF TrunkHeld
<1>2. c \in 1 .. used
  <2>1. refs[Trunk] \in 1 .. used
    BY DEF IInv, RemoteOK, CommitsOK, Branches, None
  <2> QED
    BY <1>1, <2>1 DEF IInv, CommitsOK
<1>3. c \in anc'[refs'[Trunk]] /\ tree'[c] = tree[c]
  BY <1>1, <1>2 DEF Grows, Preserved
<1> QED
  BY <1>1, <1>3 DEF TrunkHeld, RemoteOK

\* Nor does a clone lose its place on the trunk.
LEMMA ClonesHold ==
  ASSUME IInv, Grows, request' = request, NEW t \in Sessions,
         ltrunk'[t] = ltrunk[t], lnext'[t] = lnext[t]
  PROVE  Held(ltrunk[t])' /\ Held(lnext[t])'
<1>1. ltrunk[t] \in 0 .. used /\ lnext[t] \in 0 .. used
  BY DEF IInv, LocalsOK
<1>2. Held(ltrunk[t]) /\ Held(lnext[t])
  BY DEF IInv, SInv, Based
<1>3. \A c \in 0 .. used :
        Held(c) => (c = None \/ (c \in anc'[refs'[Trunk]] /\ has'[c] \subseteq OnTrunk'))
  BY HeldStays DEF Held
<1> QED
  BY <1>1, <1>2, <1>3 DEF Held

\* The commit of a session keeps what it carries.
LEMMA MadeStays ==
  ASSUME IInv, Grows, NEW t \in Sessions, mine[t] # None
  PROVE  t \in has'[mine[t]] /\ has'[mine[t]] \subseteq OnTrunk' \cup {t}
<1>1. mine[t] \in 1 .. used
  BY DEF IInv, LocalsOK, CommitsOK, None
<1>2. has'[mine[t]] = has[mine[t]]
  BY <1>1 DEF Grows, Preserved
<1>3. t \in has[mine[t]] /\ has[mine[t]] \subseteq OnTrunk \cup {t}
  BY DEF IInv, SInv, Made
<1> QED
  BY <1>2, <1>3 DEF Grows

\* A session at which nothing happens keeps its part of the invariant.
LEMMA Keeps ==
  ASSUME IInv, Grows, RemoteOK', NEW t \in Sessions, StaysLocal(t), StaysRemote(t)
  PROVE  SInv(t)'
<1>1. SInv(t) /\ update(t) \in Updates /\ update(t)' = update(t) /\ request' = request
  BY DEF IInv, RequestsOK, StaysRemote, update
<1>2. Based(t)'
  BY <1>1, ClonesHold DEF SInv, Based, StaysLocal
<1>3. Made(t)'
  BY <1>1, MadeStays DEF SInv, Made, StaysLocal, Early
<1>4. Pushed(t)'
  BY <1>1 DEF SInv, Pushed, StaysLocal, StaysRemote, Early
<1>5. Outcome(t)'
  <2>1. TrunkHeld(t) => TrunkHeld(t)'
    BY TrunkHeldStays, <1>1
  <2> QED
    BY <1>1, <2>1 DEF SInv, Outcome, StaysLocal, StaysRemote, Grows
<1> QED
  BY <1>2, <1>3, <1>4, <1>5 DEF SInv

\* A step of session s, put together.
LEMMA StepKeeps ==
  ASSUME IInv, Grows, CommitsOK', RemoteOK', LocalsOK', CompletedOK', request' = request,
         NEW s \in Sessions, SInv(s)',
         \A t \in Sessions \ {s} : StaysLocal(t) /\ StaysRemote(t)
  PROVE  IInv'
<1>1. RequestsOK'
  BY DEF IInv, RequestsOK, update
<1>2. \A t \in Sessions : SInv(t)'
  BY Keeps
<1> QED
  BY <1>1, <1>2 DEF IInv

(***************************************************************************)
(* A merge, by whomever.                                                   *)
(***************************************************************************)
LEMMA MergeLands ==
  ASSUME IInv, NEW u, MergeReview(u), request' = request
  PROVE  /\ CommitsOK' /\ RemoteOK' /\ Grows
         /\ \A t \in Sessions : StaysRemote(t) /\ (update(t) = u => t \in OnTrunk')
         /\ \E s \in Sessions : update(s) = u /\ OnTrunk' = OnTrunk \cup {s}
         /\ refs'[u] \in {None, refs[u]}
         /\ \A b \in Branches \ {Trunk, u} : refs'[b] = refs[b]
<1> DEFINE t0 == refs[Trunk]
           n == refs[u]
<1>1. PICK s \in Sessions : update(s) = u /\ u \in Updates /\ u # Trunk
  BY PromotionAssumption DEF MergeReview, IInv, RemoteOK, RequestsOK
<1>2. t0 \in 1 .. used /\ n \in 1 .. used
  BY <1>1 DEF MergeReview, IInv, RemoteOK, CommitsOK, Branches, None
<1>3. n = mine[s] /\ s \in has[n]
  BY <1>1, <1>2 DEF IInv, SInv, Pushed, Made, None
<1>4. PICK merged \in MergedTrees(tree[MergeBase(t0, n)], tree[t0], tree[n]),
           history \in {{}, anc[n]} :
           NewCommit(merged, anc[t0] \cup history, has[t0] \cup has[n])
  BY DEF MergeReview
<1>5. merged \in Trees
  <2>1. t0 \in Commits /\ n \in Commits
    BY <1>2, PromotionAssumption DEF IInv, CommitsOK, Commits
  <2> QED
    BY <1>4, <2>1 DEF MergedTrees, IInv, CommitsOK
<1>6. anc[t0] \cup history \in SUBSET (1 .. used)
  BY <1>2, <1>4 DEF IInv, CommitsOK
<1>7. has[t0] \cup has[n] \in SUBSET Sessions
  BY <1>2, PromotionAssumption DEF IInv, CommitsOK, Commits
<1>8. /\ CommitsOK' /\ Preserved /\ used' = used + 1 /\ Fresh = used + 1
      /\ anc'[Fresh] = anc[t0] \cup history \cup {Fresh} /\ has'[Fresh] = has[t0] \cup has[n]
  <2> DEFINE a == anc[t0] \cup history
             h == has[t0] \cup has[n]
  <2>1. /\ CommitsOK /\ merged \in Trees /\ a \in SUBSET (1 .. used)
        /\ h \in SUBSET Sessions /\ NewCommit(merged, a, h)
    BY <1>4, <1>5, <1>6, <1>7 DEF IInv
  <2> HIDE DEF a, h
  <2>2. /\ CommitsOK' /\ Preserved /\ used' = used + 1 /\ Fresh = used + 1
        /\ anc'[Fresh] = a \cup {Fresh} /\ has'[Fresh] = h
    BY <2>1, CommitAdds
  <2> QED
    BY <2>2 DEF a, h
<1>9. PICK kept \in {None, n} : refs' = [refs EXCEPT ![Trunk] = Fresh, ![u] = kept]
  BY DEF MergeReview
<1>10. refs'[Trunk] = Fresh /\ refs'[u] = kept /\ \A b \in Branches \ {Trunk, u} : refs'[b] = refs[b]
  BY <1>1, <1>9 DEF IInv, RemoteOK, Branches
<1>11. Fresh # None /\ used \in Nat
  BY <1>8 DEF None, IInv, CommitsOK
<1>12. OnTrunk' = OnTrunk \cup has[n] /\ s \in OnTrunk'
  BY <1>2, <1>3, <1>8, <1>10, <1>11 DEF OnTrunk, None
<1>13. Grows
  BY <1>8, <1>10, <1>12 DEF Grows
<1>14. RemoteOK'
  <2>1. refs' \in [Branches -> 0 .. used']
    <3>1. refs \in [Branches -> 0 .. used'] /\ Fresh \in 0 .. used' /\ kept \in 0 .. used'
      <4>1. 0 .. used \subseteq 0 .. used' /\ Fresh \in 0 .. used'
        BY <1>8, <1>11
      <4>2. kept \in 0 .. used
        BY <1>2, <1>11 DEF None
      <4> QED
        BY <4>1, <4>2 DEF IInv, RemoteOK
    <3> QED
      BY <3>1, <1>9
  <2>2. {update(t) : t \in Sessions}' = {update(t) : t \in Sessions}
    BY DEF update
  <2>3. reviews' \subseteq reviews /\ declined' = declined
    BY DEF MergeReview
  <2> QED
    BY <2>1, <2>2, <2>3, <1>10, <1>11 DEF IInv, RemoteOK
<1>15. ASSUME NEW t \in Sessions PROVE StaysRemote(t) /\ (update(t) = u => t \in OnTrunk')
  <2>1. update(t) \in Updates /\ (update(t) = u => t = s) /\ update(t) # Trunk
    BY <1>1, PromotionAssumption DEF IInv, RequestsOK
  <2>2. reviews' = reviews \ {u} /\ declined' = declined
    BY DEF MergeReview
  <2>3. CASE update(t) = u
    BY <2>1, <2>2, <2>3, <1>9, <1>10, <1>12 DEF StaysRemote
  <2>4. CASE update(t) # u
    BY <2>1, <2>2, <2>4, <1>10 DEF StaysRemote, Branches
  <2> QED
    BY <2>3, <2>4
<1>16. OnTrunk' = OnTrunk \cup {s}
  <2>1. has[n] \subseteq OnTrunk \cup {s}
    BY <1>2, <1>3 DEF IInv, SInv, Made, None
  <2> QED
    BY <2>1, <1>3, <1>12
<1> QED
  BY <1>1, <1>8, <1>10, <1>13, <1>14, <1>15, <1>16
(***************************************************************************)
(* The steps of a session.                                                 *)
(***************************************************************************)
\* The commits and the remote stay as they are.
LEMMA Quiet ==
  ASSUME IInv, UNCHANGED <<request, remoteVars, commitVars>>
  PROVE  /\ CommitsOK' /\ RemoteOK' /\ Grows
         /\ \A t \in Sessions : StaysRemote(t)
<1>1. CommitsOK' /\ Grows
  BY NothingGrows DEF IInv, remoteVars
<1>2. RemoteOK'
  BY DEF IInv, RemoteOK, remoteVars, commitVars, update
<1>3. \A t \in Sessions : StaysRemote(t)
  BY DEF StaysRemote, remoteVars
<1> QED
  BY <1>1, <1>2, <1>3

\* Only one session moves.
Moves(s, q) ==
    /\ q \in PCs
    /\ pc' = [pc EXCEPT ![s] = q]

LEMMA OnlyPcMoves ==
  ASSUME IInv, used' = used, NEW s \in Sessions, NEW q, Moves(s, q),
         UNCHANGED <<ltrunk, onext, lnext, mine>>
  PROVE  LocalsOK' /\ pc'[s] = q
BY DEF Moves, IInv, LocalsOK

\* The other sessions stay where they are.
LEMMA OthersStay ==
  ASSUME IInv, NEW s \in Sessions, NEW q, Moves(s, q), UNCHANGED localVars
  PROVE  \A t \in Sessions \ {s} : StaysLocal(t)
BY DEF Moves, IInv, LocalsOK, StaysLocal, localVars

LEMMA CloneKeeps == ASSUME IInv, NEW s \in Sessions, Clone(s) PROVE IInv'
<1> USE DEF Clone, Goes
<1>1. CommitsOK' /\ RemoteOK' /\ Grows /\ \A t \in Sessions : StaysRemote(t)
  BY Quiet
<1>2. refs[update(s)] = None /\ refs[Trunk] \in 1 .. used /\ used' = used
  <2>1. refs[Trunk] \in 1 .. used
    BY DEF IInv, RemoteOK, Branches, None, CommitsOK
  <2> QED
    BY <2>1 DEF IInv, SInv, Pushed, Early, commitVars
<1>3. LocalsOK'
  BY <1>2 DEF IInv, LocalsOK, PCs, Early, None
<1>4. CompletedOK'
  BY DEF IInv, CompletedOK
<1>5. \A t \in Sessions \ {s} : StaysLocal(t)
  BY DEF StaysLocal, IInv, LocalsOK
<1>6. pc'[s] = "prepare" /\ ltrunk'[s] = refs[Trunk]
  BY DEF IInv, LocalsOK
<1>7. SInv(s)'
  <2>1. Held(ltrunk[s])' /\ Held(lnext[s])'
    <3>1. Held(refs[Trunk])'
      BY <1>1, <1>2 DEF Held, IInv, CommitsOK, RemoteOK, OnTrunk, remoteVars, commitVars
    <3>2. Held(lnext[s])'
      <4>1. Held(lnext[s])
        BY DEF IInv, SInv, Based
      <4> QED
        BY <4>1 DEF Held, OnTrunk, remoteVars, commitVars
    <3> QED
      BY <3>1, <3>2, <1>6 DEF Held, remoteVars
  <2>2. Based(s)'
    BY <2>1, <1>2, <1>6 DEF Based, IInv, RemoteOK
  <2>3. Made(s)'
    BY <1>6 DEF Made, IInv, SInv, Early
  <2>4. Pushed(s)'
    BY <1>2, <1>6 DEF Pushed, IInv, SInv, Early, remoteVars, update
  <2>5. Outcome(s)'
    BY <1>2, <1>6 DEF Outcome, IInv, SInv, OnTrunk, remoteVars, commitVars, update
  <2> QED
    BY <2>2, <2>3, <2>4, <2>5 DEF SInv
<1> QED
  BY <1>1, <1>3, <1>4, <1>5, <1>7, StepKeeps

LEMMA PrepareKeeps == ASSUME IInv, NEW s \in Sessions, PrepareEnvironment(s) PROVE IInv'
<1> USE DEF PrepareEnvironment, Goes
<1>1. CommitsOK' /\ RemoteOK' /\ Grows /\ \A t \in Sessions : StaysRemote(t)
  BY Quiet
<1>2. refs[update(s)] = None /\ onext[s] = None /\ used' = used /\ ltrunk[s] # None
  BY DEF IInv, SInv, Pushed, Based, Early, LocalsOK, commitVars
<1>3. ltrunk' = [ltrunk EXCEPT ![s] = ltrunk[s]] /\ lnext' = [lnext EXCEPT ![s] = ltrunk[s]]
  BY <1>2 DEF FetchedTrunks
<1>4. LocalsOK'
  BY <1>2, <1>3 DEF IInv, LocalsOK, PCs, Early
<1>5. CompletedOK'
  BY DEF IInv, CompletedOK
<1>6. \A t \in Sessions \ {s} : StaysLocal(t)
  BY <1>3 DEF StaysLocal, IInv, LocalsOK
<1>7. pc'[s] = "process" /\ ltrunk'[s] = ltrunk[s] /\ lnext'[s] = ltrunk[s]
  BY <1>3 DEF IInv, LocalsOK
<1>8. SInv(s)'
  <2>1. Held(ltrunk[s])' /\ Held(lnext[s])'
    <3>1. Held(ltrunk[s])
      BY DEF IInv, SInv, Based
    <3> QED
      BY <3>1, <1>7 DEF Held, OnTrunk, remoteVars, commitVars
  <2>2. Based(s)'
    BY <2>1, <1>2, <1>7 DEF Based
  <2>3. Made(s)'
    BY <1>7 DEF Made, IInv, SInv, Early
  <2>4. Pushed(s)'
    BY <1>2, <1>7 DEF Pushed, IInv, SInv, Early, remoteVars, update
  <2>5. Outcome(s)'
    BY <1>2, <1>7 DEF Outcome, IInv, SInv, OnTrunk, remoteVars, commitVars, update
  <2> QED
    BY <2>2, <2>3, <2>4, <2>5 DEF SInv
<1> QED
  BY <1>1, <1>4, <1>5, <1>6, <1>8, StepKeeps

\* Steps that move one session and change nothing else.
LEMMA MoveKeeps ==
  ASSUME IInv, NEW s \in Sessions, NEW q, Moves(s, q),
         UNCHANGED <<request, remoteVars, commitVars, localVars>>,
         \/ q = "error"
         \/ pc[s] = "process" /\ q = "commit"
         \/ pc[s] = "commit" /\ q = "end" /\ ~Changed(s)
         \/ pc[s] = "end" /\ q = "ok"
  PROVE  IInv'
<1>1. CommitsOK' /\ RemoteOK' /\ Grows /\ \A t \in Sessions : StaysRemote(t)
  BY Quiet
<1>2. LocalsOK' /\ pc'[s] = q
  BY OnlyPcMoves DEF localVars, commitVars
<1>3. CompletedOK'
  BY DEF IInv, CompletedOK, localVars
<1>4. \A t \in Sessions \ {s} : StaysLocal(t)
  BY OthersStay
<1>5. SInv(s)'
  <2>0. SInv(s)
    BY DEF IInv
  <2>1. Based(s)'
    BY <2>0, <1>1, <1>2, ClonesHold DEF SInv, Based, localVars
  <2>2. Made(s)'
    BY <2>0, <1>1, <1>2, MadeStays DEF SInv, Made, Early, localVars
  <2>3. Pushed(s)'
    BY <2>0, <1>2 DEF SInv, Pushed, Early, localVars, remoteVars, update
  <2>4. Outcome(s)'
    <3>1. ~Changed(s) /\ pc[s] = "commit" => TrunkHeld(s)
      BY <2>0 DEF SInv, Based, Held, None, IInv, RemoteOK, TrunkHeld, Changed
    <3>2. TrunkHeld(s) => TrunkHeld(s)'
      BY <1>1, TrunkHeldStays
    <3> QED
      BY <2>0, <1>2, <3>1, <3>2
      DEF SInv, Outcome, Made, Early, OnTrunk, localVars, remoteVars, commitVars, update
  <2> QED
    BY <2>1, <2>2, <2>3, <2>4 DEF SInv
<1> QED
  BY <1>1, <1>2, <1>3, <1>4, <1>5, StepKeeps
LEMMA CommitKeeps == ASSUME IInv, NEW s \in Sessions, Commit(s) PROVE IInv'
<1> USE DEF Commit, Goes
<1>1. /\ CommitsOK' /\ Preserved /\ used' = used + 1 /\ Fresh = used + 1
      /\ has'[Fresh] = has[lnext[s]] \cup {s}
  <2> DEFINE a == anc[lnext[s]]
             h == has[lnext[s]] \cup {s}
  <2>1. lnext[s] \in 1 .. used
    BY DEF IInv, SInv, Based, LocalsOK, CommitsOK, None
  <2>2. /\ CommitsOK /\ request[s].content \in Trees /\ a \in SUBSET (1 .. used)
        /\ h \in SUBSET Sessions /\ NewCommit(request[s].content, a, h)
    BY <2>1, PromotionAssumption DEF IInv, CommitsOK, Commits, RequestsOK
  <2> HIDE DEF a
  <2> HIDE DEF h
  <2>3. CommitsOK' /\ Preserved /\ used' = used + 1 /\ Fresh = used + 1 /\ has'[Fresh] = h
    BY <2>2, CommitAdds
  <2> QED
    BY <2>3 DEF h
<1>2. Grows /\ RemoteOK' /\ \A t \in Sessions : StaysRemote(t)
  <2>1. Grows
    BY <1>1, CommitGrows DEF IInv, remoteVars
  <2>2. RemoteOK'
    <3>1. 0 .. used \subseteq 0 .. used'
      BY <1>1 DEF IInv, CommitsOK
    <3> QED
      BY <3>1 DEF IInv, RemoteOK, remoteVars, update
  <2>3. \A t \in Sessions : StaysRemote(t)
    BY DEF StaysRemote, remoteVars
  <2> QED
    BY <2>1, <2>2, <2>3
<1>3. LocalsOK'
  <2>1. 0 .. used \subseteq 0 .. used' /\ Fresh \in 0 .. used'
    BY <1>1 DEF IInv, CommitsOK
  <2> QED
    BY <2>1 DEF IInv, LocalsOK, PCs
<1>4. CompletedOK'
  BY DEF IInv, CompletedOK
<1>5. \A t \in Sessions \ {s} : StaysLocal(t)
  BY DEF StaysLocal, IInv, LocalsOK
<1>6. pc'[s] = "push" /\ mine'[s] = Fresh /\ Fresh # None
  <2>1. Fresh # None
    BY <1>1 DEF IInv, CommitsOK, None
  <2> QED
    BY <2>1 DEF IInv, LocalsOK
<1>7. SInv(s)'
  <2>0. SInv(s)
    BY DEF IInv
  <2>1. Based(s)'
    BY <1>2, <1>6, ClonesHold DEF Based
  <2>2. Made(s)'
    <3>1. has[lnext[s]] \subseteq OnTrunk /\ OnTrunk \subseteq OnTrunk'
      BY <1>2, <2>0 DEF SInv, Based, Held, Grows
    <3> QED
      BY <1>1, <1>6, <3>1 DEF Made, Early
  <2>3. Pushed(s)'
    BY <2>0, <1>6 DEF SInv, Pushed, Early, remoteVars, update
  <2>4. Outcome(s)'
    BY <2>0, <1>2, <1>6 DEF SInv, Outcome, Pushed, Early, Grows, remoteVars, update
  <2> QED
    BY <2>1, <2>2, <2>3, <2>4 DEF SInv
<1> QED
  BY <1>1, <1>2, <1>3, <1>4, <1>5, <1>7, StepKeeps

LEMMA PushKeeps == ASSUME IInv, NEW s \in Sessions, Push(s) PROVE IInv'
<1> USE DEF Push
<1>0. SInv(s) /\ update(s) \in Updates /\ update(s) # Trunk /\ request' = request
  BY PromotionAssumption DEF IInv, RequestsOK
<1>1. PICK q \in {"review", "error"} : Moves(s, q) /\ pc[s] = "push"
  BY DEF GoesOrFails, Goes, Moves, PCs
<1>2. refs' = [refs EXCEPT ![update(s)] = mine[s]] /\ used' = used
  BY DEF ForcePush, commitVars
<1>3. refs'[Trunk] = refs[Trunk] /\ refs'[update(s)] = mine[s]
      /\ \A b \in Branches \ {update(s)} : refs'[b] = refs[b]
  BY <1>0, <1>2 DEF IInv, RemoteOK, Branches
<1>4. CommitsOK' /\ Grows
  BY <1>3, NothingGrows DEF IInv
<1>5. RemoteOK'
  <2>1. mine[s] \in 0 .. used
    BY DEF IInv, LocalsOK
  <2>2. refs' \in [Branches -> 0 .. used]
    BY <1>2, <2>1 DEF IInv, RemoteOK
  <2> QED
    BY <1>2, <1>3, <2>2 DEF IInv, RemoteOK, update
<1>6. LocalsOK' /\ pc'[s] = q
  BY <1>1, <1>2, OnlyPcMoves DEF localVars
<1>7. CompletedOK'
  BY DEF IInv, CompletedOK, localVars
<1>8. \A t \in Sessions \ {s} : StaysLocal(t) /\ StaysRemote(t)
  <2>1. \A t \in Sessions \ {s} : StaysLocal(t)
    BY <1>1, OthersStay
  <2>2. \A t \in Sessions \ {s} : refs'[update(t)] = refs[update(t)]
    BY <1>3 DEF IInv, RequestsOK, Branches
  <2> QED
    BY <2>1, <2>2 DEF StaysRemote
<1>9. SInv(s)'
  <2>1. Based(s)'
    BY <1>0, <1>1, <1>4, <1>6, ClonesHold DEF SInv, Based, localVars
  <2>2. Made(s)'
    BY <1>0, <1>1, <1>4, <1>6, MadeStays DEF SInv, Made, Early, localVars
  <2>3. Pushed(s)'
    BY <1>0, <1>1, <1>3, <1>6 DEF SInv, Pushed, Early, localVars, update
  <2>4. Outcome(s)'
    BY <1>0, <1>1, <1>4, <1>6 DEF SInv, Outcome, Grows, localVars, update
  <2> QED
    BY <2>1, <2>2, <2>3, <2>4 DEF SInv
<1> QED
  BY <1>0, <1>4, <1>5, <1>6, <1>7, <1>8, <1>9, StepKeeps

LEMMA DryRunKeeps == ASSUME IInv, NEW s \in Sessions, DryRun(s) PROVE IInv'
<1> USE DEF DryRun
<1>0. SInv(s) /\ pc[s] = "push" /\ Moves(s, "end")
  BY DEF IInv, Goes, Moves, PCs
<1>1. CommitsOK' /\ RemoteOK' /\ Grows /\ \A t \in Sessions : StaysRemote(t)
  BY Quiet
<1>2. LocalsOK' /\ pc'[s] = "end"
  BY <1>0, OnlyPcMoves DEF commitVars
<1>3. CompletedOK' /\ \A t \in Sessions \ {s} : completed'[t] = completed[t]
  <2>1. request[s].autoReview \in BOOLEAN
    BY DEF IInv, RequestsOK
  <2> QED
    BY <2>1 DEF IInv, CompletedOK
<1>4. \A t \in Sessions \ {s} : StaysLocal(t)
  BY <1>0, <1>3 DEF StaysLocal, Moves, IInv, LocalsOK
<1>5. SInv(s)'
  <2>1. Based(s)'
    BY <1>0, <1>1, <1>2, ClonesHold DEF SInv, Based
  <2>2. Made(s)'
    BY <1>0, <1>1, <1>2, MadeStays DEF SInv, Made, Early
  <2>3. Pushed(s)'
    BY <1>0, <1>2 DEF SInv, Pushed, Early, remoteVars, update
  <2>4. Outcome(s)'
    BY <1>0, <1>1, <1>2 DEF SInv, Outcome, Made, Grows, remoteVars, update
  <2> QED
    BY <2>1, <2>2, <2>3, <2>4 DEF SInv
<1> QED
  BY <1>1, <1>2, <1>3, <1>4, <1>5, StepKeeps
LEMMA CreateReviewKeeps == ASSUME IInv, NEW s \in Sessions, CreateReview(s) PROVE IInv'
<1> USE DEF CreateReview
<1>0. SInv(s) /\ refs[update(s)] # None /\ request' = request
  BY DEF IInv, CanCreateReview
<1>1. PICK q \in {"complete", "end", "error"} : Moves(s, q) /\ pc[s] = "review"
  BY DEF GoesOrFails, Goes, Moves, PCs
<1>2. CommitsOK' /\ Grows
  BY NothingGrows DEF IInv
<1>3. RemoteOK'
  BY DEF IInv, RemoteOK, commitVars, update
<1>4. LocalsOK' /\ pc'[s] = q
  BY <1>1, OnlyPcMoves DEF localVars, commitVars
<1>5. CompletedOK'
  BY DEF IInv, CompletedOK, localVars
<1>6. \A t \in Sessions \ {s} : StaysLocal(t) /\ StaysRemote(t)
  <2>1. \A t \in Sessions \ {s} : StaysLocal(t)
    BY <1>1, OthersStay
  <2>2. \A t \in Sessions \ {s} : update(t) # update(s)
    BY DEF IInv, RequestsOK
  <2> QED
    BY <2>1, <2>2 DEF StaysRemote
<1>7. SInv(s)'
  <2>1. Based(s)'
    BY <1>0, <1>1, <1>2, <1>4, ClonesHold DEF SInv, Based, localVars
  <2>2. Made(s)'
    BY <1>0, <1>1, <1>2, <1>4, MadeStays DEF SInv, Made, Early, localVars
  <2>3. Pushed(s)'
    BY <1>0, <1>1, <1>4 DEF SInv, Pushed, Early, localVars, update
  <2>4. Outcome(s)'
    BY <1>0, <1>1, <1>2, <1>4 DEF SInv, Outcome, Made, Grows, localVars, update
  <2> QED
    BY <2>1, <2>2, <2>3, <2>4 DEF SInv
<1> QED
  BY <1>0, <1>2, <1>3, <1>4, <1>5, <1>6, <1>7, StepKeeps

LEMMA CompleteReviewKeeps == ASSUME IInv, NEW s \in Sessions, CompleteReview(s) PROVE IInv'
<1> USE DEF CompleteReview
<1>0. SInv(s) /\ pc[s] = "complete" /\ request' = request
  BY DEF IInv, Goes
<1>1. /\ CommitsOK' /\ RemoteOK' /\ Grows
      /\ \A t \in Sessions : StaysRemote(t) /\ (update(t) = update(s) => t \in OnTrunk')
  BY <1>0, MergeLands
<1>2. PICK q \in {"end", "error"} : Moves(s, q)
  BY DEF Goes, Moves, PCs
<1>3. LocalsOK' /\ pc'[s] = q
  <2>1. 0 .. used \subseteq 0 .. used'
    BY <1>1 DEF Grows, Preserved, IInv, CommitsOK
  <2> QED
    BY <1>2, <2>1 DEF IInv, LocalsOK, Moves
<1>4. CompletedOK' /\ \A t \in Sessions \ {s} : completed'[t] = completed[t]
  BY DEF IInv, CompletedOK
<1>5. \A t \in Sessions \ {s} : StaysLocal(t)
  BY <1>2, <1>4 DEF StaysLocal, Moves, IInv, LocalsOK
<1>6. SInv(s)'
  <2>1. Based(s)'
    BY <1>0, <1>1, <1>2, <1>3, ClonesHold DEF SInv, Based
  <2>2. Made(s)'
    BY <1>0, <1>1, <1>2, <1>3, MadeStays DEF SInv, Made, Early
  <2>3. Pushed(s)'
    BY <1>0, <1>1, <1>2, <1>3 DEF SInv, Pushed, Early, StaysRemote, update
  <2>4. Outcome(s)'
    BY <1>0, <1>1, <1>2, <1>3 DEF SInv, Outcome, Made, StaysRemote, update
  <2> QED
    BY <2>1, <2>2, <2>3, <2>4 DEF SInv
<1> QED
  BY <1>0, <1>1, <1>3, <1>4, <1>5, <1>6, StepKeeps

(***************************************************************************)
(* Steps that no session takes alone.                                      *)
(***************************************************************************)
LEMMA AllKeep ==
  ASSUME IInv, Grows, CommitsOK', RemoteOK', LocalsOK', CompletedOK', request' = request,
         \A t \in Sessions : StaysLocal(t) /\ StaysRemote(t)
  PROVE  IInv'
<1>1. RequestsOK'
  BY DEF IInv, RequestsOK, update
<1> QED
  BY <1>1, Keeps DEF IInv

LEMMA ForgeUnreachableKeeps == ASSUME IInv, NEW s \in Sessions, ForgeUnreachable(s) PROVE IInv'
<1> USE DEF ForgeUnreachable
<1>1. CommitsOK' /\ RemoteOK' /\ Grows /\ \A t \in Sessions : StaysRemote(t)
  BY Quiet
<1>2. LocalsOK' /\ CompletedOK'
  BY DEF IInv, LocalsOK, CompletedOK, PCs, localVars, commitVars
<1>3. \A t \in Sessions : StaysLocal(t)
  BY DEF StaysLocal, localVars
<1> QED
  BY <1>1, <1>2, <1>3, AllKeep

LEMMA HumanMergeKeeps == ASSUME IInv, NEW u \in Updates, HumanMerge(u) PROVE IInv'
<1> USE DEF HumanMerge
<1>1. CommitsOK' /\ RemoteOK' /\ Grows /\ \A t \in Sessions : StaysRemote(t)
  BY MergeLands
<1>2. LocalsOK' /\ CompletedOK'
  <2>1. 0 .. used \subseteq 0 .. used'
    BY <1>1 DEF Grows, Preserved, IInv, CommitsOK
  <2> QED
    BY <2>1 DEF IInv, LocalsOK, CompletedOK, localVars
<1>3. \A t \in Sessions : StaysLocal(t)
  BY DEF StaysLocal, localVars
<1> QED
  BY <1>1, <1>2, <1>3, AllKeep

LEMMA CloseReviewKeeps == ASSUME IInv, NEW u \in Updates, CloseReview(u) PROVE IInv'
<1> USE DEF CloseReview
<1>1. CommitsOK' /\ Grows
  BY NothingGrows DEF IInv
<1>2. RemoteOK'
  BY DEF IInv, RemoteOK, commitVars, update
<1>3. \A t \in Sessions : StaysRemote(t)
  BY DEF StaysRemote
<1>4. LocalsOK' /\ CompletedOK'
  BY DEF IInv, LocalsOK, CompletedOK, localVars, commitVars
<1>5. \A t \in Sessions : StaysLocal(t)
  BY DEF StaysLocal, localVars
<1> QED
  BY <1>1, <1>2, <1>3, <1>4, <1>5, AllKeep

\* The environment branch is there, so that no session starts one.
LEMMA TrunkIsThere ==
  ASSUME IInv, NEW s \in Sessions
  PROVE  ~TrunkNotFound(s) /\ ~InitialiseOrphan(s) /\ ~InitialiseFromMain(s) /\ ~PushTrunk(s)
<1>1. refs[Trunk] # None /\ pc[s] \notin {"cloneMain", "pushTrunk"}
  BY DEF IInv, RemoteOK, LocalsOK, PCs, Early
<1> QED
  BY <1>1 DEF TrunkNotFound, InitialiseOrphan, InitialiseFromMain, PushTrunk, Goes

LEMMA NextKeeps == IInv /\ [Next]_vars => IInv'
<1> SUFFICES ASSUME IInv, [Next]_vars PROVE IInv'
  OBVIOUS
<1>1. CASE UNCHANGED vars
  <2>1. UNCHANGED <<request, remoteVars, commitVars, pc, localVars>>
    BY <1>1 DEF vars
  <2>2. CommitsOK' /\ RemoteOK' /\ Grows /\ \A t \in Sessions : StaysRemote(t)
    BY <2>1, Quiet
  <2>3. LocalsOK' /\ CompletedOK' /\ \A t \in Sessions : StaysLocal(t)
    BY <2>1 DEF IInv, LocalsOK, CompletedOK, StaysLocal, localVars, commitVars
  <2> QED
    BY <2>1, <2>2, <2>3, AllKeep
<1>2. ASSUME NEW s \in Sessions, Step(s) PROVE IInv'
  <2>1. CASE ProcessAndCopy(s)
    <3>1. Moves(s, "commit") /\ pc[s] = "process"
      BY <2>1 DEF ProcessAndCopy, Goes, Moves, PCs, Early
    <3> QED
      BY <2>1, <3>1, MoveKeeps DEF ProcessAndCopy
  <2>2. CASE NothingToCommit(s)
    <3>1. Moves(s, "end") /\ pc[s] = "commit" /\ ~Changed(s)
      BY <2>2 DEF NothingToCommit, Goes, Moves, PCs
    <3> QED
      BY <2>2, <3>1, MoveKeeps DEF NothingToCommit
  <2>3. CASE MergeElsewhere(s) \/ Fails(s)
    <3>1. Moves(s, "error")
      BY <2>3 DEF MergeElsewhere, Fails, Goes, Moves, PCs
    <3> QED
      BY <2>3, <3>1, MoveKeeps DEF MergeElsewhere, Fails
  <2>4. CASE Answer(s)
    <3>1. Moves(s, "ok") /\ pc[s] = "end"
      BY <2>4 DEF Answer, Goes, Moves, PCs
    <3> QED
      BY <2>4, <3>1, MoveKeeps DEF Answer
  <2> QED
    BY <1>2, <2>1, <2>2, <2>3, <2>4, CloneKeeps, PrepareKeeps, CommitKeeps, PushKeeps,
       DryRunKeeps, CreateReviewKeeps, CompleteReviewKeeps, ForgeUnreachableKeeps,
       TrunkIsThere
    DEF Step
<1> QED
  BY <1>1, <1>2, HumanMergeKeeps, CloseReviewKeeps DEF Next, AllAnswered

LEMMA Invariance == Setting /\ Spec => []IInv
BY InitIInv, NextKeeps, PTL DEF Spec
(***************************************************************************)
(* What follows.                                                           *)
(***************************************************************************)
LEMMA InvDelivers == IInv => SuccessMeansDelivered
<1> SUFFICES ASSUME IInv, NEW s \in Sessions, pc[s] = "ok", ~request[s].dryRun
             PROVE  Delivered(s)
  BY DEF SuccessMeansDelivered
<1>1. SInv(s)
  BY DEF IInv
<1>2. CASE mine[s] = None
  BY <1>1, <1>2 DEF SInv, Outcome, Delivered
<1>3. CASE mine[s] # None
  <2>1. update(s) \in reviews => UnderReview(s)
    <3>1. update(s) \in reviews => refs[update(s)] = mine[s]
      BY <1>1 DEF SInv, Pushed
    <3> QED
      BY <3>1, <1>1, <1>3 DEF SInv, Made, UnderReview
  <2> QED
    BY <1>1, <1>3, <2>1 DEF SInv, Outcome, Delivered, Landed
<1> QED
  BY <1>2, <1>3

\* A request of a session that was answered with success was delivered, and stays
\* so whatever the other sessions and the people at the forge do.
THEOREM Delivery == Setting /\ Spec => []SuccessMeansDelivered
BY InvDelivers, Invariance, PTL

LEMMA InvLands == IInv => CompletedMeansLanded
BY DEF IInv, SInv, Outcome, CompletedMeansLanded, Landed

\* A review is only reported as completed when its merge put this session's update
\* on the environment branch, where it still is.
THEOREM Completion == Setting /\ Spec => []CompletedMeansLanded
BY InvLands, Invariance, PTL

(***************************************************************************)
(* The contract of Promotion.tla.                                          *)
(***************************************************************************)
\* A session meets the contract in its next branch, its review and its answer.
InReview(t) == update(t) \in reviews
InDeclined(t) == update(t) \in declined

\* The next branch of session t carries its update.
OnNext(t) == refs[update(t)] # None /\ t \in has[refs[update(t)]]

\* Session t is where it was, as far as the contract sees.
SameFor(t) ==
    /\ OnNext(t)' = OnNext(t) /\ InReview(t)' = InReview(t)
    /\ InDeclined(t)' = InDeclined(t)
    /\ (pc'[t] = "ok") = (pc[t] = "ok")

LEMMA ContractStutters ==
  ASSUME OnTrunk' = OnTrunk, \A t \in Sessions : SameFor(t)
  PROVE  UNCHANGED Contract!vars
<1>1. Offered' = Offered
  BY DEF SameFor, OnNext, Offered
<1>2. {t \in Sessions : update(t) \in reviews}' = {t \in Sessions : update(t) \in reviews}
  BY DEF SameFor, InReview
<1>3. {t \in Sessions : update(t) \in declined}' = {t \in Sessions : update(t) \in declined}
  BY DEF SameFor, InDeclined
<1>4. {t \in Sessions : pc[t] = "ok"}' = {t \in Sessions : pc[t] = "ok"}
  BY DEF SameFor
<1> QED
  BY <1>1, <1>2, <1>3, <1>4 DEF Contract!vars
\* A merge lands the session whose review it was.
LEMMA MergeImplements ==
  ASSUME IInv, NEW u, MergeReview(u), request' = request,
         \A t \in Sessions : (pc'[t] = "ok") = (pc[t] = "ok")
  PROVE  \E s \in Sessions : Contract!Land(s)
<1>1. PICK s \in Sessions : update(s) = u /\ OnTrunk' = OnTrunk \cup {s}
  BY MergeLands
<1>2. /\ Preserved /\ refs'[u] \in {None, refs[u]}
      /\ \A b \in Branches \ {Trunk, u} : refs'[b] = refs[b]
      /\ u \in reviews /\ reviews' = reviews \ {u} /\ declined' = declined
  BY MergeLands DEF Grows, MergeReview
<1>3. \A t \in Sessions : update(t)' = update(t) /\ (update(t) = u => t = s)
  BY <1>1 DEF IInv, RequestsOK, update
<1>4. OnNext(s)
  BY <1>1, <1>2 DEF IInv, SInv, Pushed, Made, OnNext
<1>5. \A t \in Sessions : refs[update(t)] = None \/ has'[refs[update(t)]] = has[refs[update(t)]]
  <2> TAKE t \in Sessions
  <2>1. refs[update(t)] = None \/ refs[update(t)] \in 1 .. used
    BY DEF IInv, SInv, Pushed, LocalsOK, CommitsOK, None
  <2> QED
    BY <2>1, <1>2 DEF Preserved
<1>6. \A t \in Sessions \ {s} : OnNext(t)' = OnNext(t)
  <2> TAKE t \in Sessions \ {s}
  <2>1. update(t) \in Branches \ {Trunk, u}
    BY <1>3, PromotionAssumption DEF IInv, RequestsOK, Branches
  <2>2. refs'[update(t)] = refs[update(t)]
    BY <1>2, <2>1
  <2> QED
    BY <1>3, <1>5, <2>2 DEF OnNext
<1>7. Offered' \in {Offered, Offered \ {s}} /\ s \in Offered
  BY <1>4, <1>6 DEF OnNext, Offered
<1>8. {t \in Sessions : update(t) \in reviews}' = {t \in Sessions : update(t) \in reviews} \ {s}
  BY <1>1, <1>2, <1>3
<1>9. {t \in Sessions : update(t) \in declined}' = {t \in Sessions : update(t) \in declined}
  BY <1>2, <1>3
<1>10. {t \in Sessions : pc[t] = "ok"}' = {t \in Sessions : pc[t] = "ok"}
  OBVIOUS
<1>11. s \in {t \in Sessions : update(t) \in reviews}
  BY <1>1, <1>2
<1> QED
  BY <1>1, <1>7, <1>8, <1>9, <1>10, <1>11 DEF Contract!Land

\* A push offers the update of the session that pushes.
LEMMA PushImplements == ASSUME IInv, NEW s \in Sessions, Push(s) PROVE Contract!Offer(s)
<1>1. /\ refs' = [refs EXCEPT ![update(s)] = mine[s]] /\ UNCHANGED <<request, reviews, declined, has>>
      /\ pc[s] = "push" /\ pc' \in {[pc EXCEPT ![s] = "review"], [pc EXCEPT ![s] = "error"]}
  BY DEF Push, ForcePush, GoesOrFails, Goes, commitVars
<1>2. /\ update(s) \in Branches /\ update(s) # Trunk
      /\ \A t \in Sessions : update(t)' = update(t) /\ (update(t) = update(s) => t = s)
  BY <1>1, PromotionAssumption DEF IInv, RequestsOK, update, Branches
<1>3. refs[update(s)] = None /\ mine[s] # None /\ s \in has[mine[s]]
  BY <1>1 DEF IInv, SInv, Pushed, Made
<1>4. /\ refs'[update(s)] = mine[s] /\ refs'[Trunk] = refs[Trunk]
      /\ \A t \in Sessions \ {s} : refs'[update(t)] = refs[update(t)]
  BY <1>1, <1>2 DEF IInv, RemoteOK
<1>5. \A t \in Sessions \ {s} : OnNext(t)' = OnNext(t)
  BY <1>1, <1>2, <1>4 DEF OnNext
<1>6. s \notin Offered /\ Offered' = Offered \cup {s}
  <2>1. OnNext(s)' /\ ~OnNext(s)
    BY <1>1, <1>2, <1>3, <1>4 DEF OnNext
  <2> QED
    BY <2>1, <1>5 DEF OnNext, Offered
<1>7. OnTrunk' = OnTrunk
  BY <1>1, <1>4 DEF OnTrunk
<1>8. \A t \in Sessions : (pc'[t] = "ok") = (pc[t] = "ok")
  BY <1>1 DEF IInv, LocalsOK
<1>9. {t \in Sessions : pc[t] = "ok"}' = {t \in Sessions : pc[t] = "ok"}
  BY <1>8
<1>10. /\ {t \in Sessions : update(t) \in reviews}' = {t \in Sessions : update(t) \in reviews}
       /\ {t \in Sessions : update(t) \in declined}' = {t \in Sessions : update(t) \in declined}
  BY <1>1, <1>2
<1> QED
  BY <1>6, <1>7, <1>9, <1>10 DEF Contract!Offer
\* Opening the review of an update that was pushed.
LEMMA ReviewImplements ==
  ASSUME IInv, NEW s \in Sessions, CreateReview(s)
  PROVE  Contract!OpenReview(s)
<1>1. /\ reviews' = reviews \cup {update(s)} /\ UNCHANGED <<request, refs, declined, has>>
      /\ pc[s] = "review" /\ refs[update(s)] # None
      /\ \E q \in {"complete", "end", "error"} : pc' = [pc EXCEPT ![s] = q]
  BY DEF CreateReview, CanCreateReview, GoesOrFails, Goes, commitVars
<1>2. \A t \in Sessions : update(t)' = update(t) /\ (update(t) = update(s) => t = s)
  BY <1>1 DEF IInv, RequestsOK, update
<1>3. Offered' = Offered /\ OnTrunk' = OnTrunk
  BY <1>1, <1>2 DEF Offered, OnTrunk
<1>4. s \in Offered /\ update(s) \notin reviews
  BY <1>1 DEF IInv, SInv, Pushed, Made, Offered
<1>5. {t \in Sessions : update(t) \in reviews}' = {t \in Sessions : update(t) \in reviews} \cup {s}
  BY <1>1, <1>2
<1>6. {t \in Sessions : update(t) \in declined}' = {t \in Sessions : update(t) \in declined}
  BY <1>1, <1>2
<1>7. {t \in Sessions : pc[t] = "ok"}' = {t \in Sessions : pc[t] = "ok"}
  BY <1>1 DEF IInv, LocalsOK
<1> QED
  BY <1>3, <1>4, <1>5, <1>6, <1>7 DEF Contract!OpenReview

\* A review that somebody closes was the review of a session.
LEMMA CloseImplements ==
  ASSUME IInv, NEW u \in Updates, CloseReview(u)
  PROVE  \E s \in Sessions : Contract!TurnDown(s)
<1>1. /\ u \in reviews /\ reviews' = reviews \ {u} /\ declined' = declined \cup {u}
      /\ UNCHANGED <<request, refs, has, pc>>
  BY DEF CloseReview, commitVars
<1>2. PICK s \in Sessions : update(s) = u
  BY <1>1 DEF IInv, RemoteOK
<1>3. \A t \in Sessions : update(t)' = update(t) /\ (update(t) = u => t = s)
  BY <1>1, <1>2 DEF IInv, RequestsOK, update
<1>4. Offered' = Offered /\ OnTrunk' = OnTrunk
  BY <1>1, <1>3 DEF Offered, OnTrunk
<1>5. /\ s \in {t \in Sessions : update(t) \in reviews}
      /\ {t \in Sessions : update(t) \in reviews}' = {t \in Sessions : update(t) \in reviews} \ {s}
  BY <1>1, <1>2, <1>3
<1>6. {t \in Sessions : update(t) \in declined}' = {t \in Sessions : update(t) \in declined} \cup {s}
  BY <1>1, <1>2, <1>3
<1>7. {t \in Sessions : pc[t] = "ok"}' = {t \in Sessions : pc[t] = "ok"}
  BY <1>1
<1> QED
  BY <1>4, <1>5, <1>6, <1>7 DEF Contract!TurnDown

\* Success is only reported when the contract allows it.
LEMMA AnswerImplements == ASSUME IInv, NEW s \in Sessions, Answer(s) PROVE Contract!Succeed(s)
<1>1. /\ UNCHANGED <<request, refs, reviews, declined, has>>
      /\ pc[s] = "end" /\ pc' = [pc EXCEPT ![s] = "ok"]
  BY DEF Answer, Goes, remoteVars, commitVars
<1>2. \A t \in Sessions : update(t)' = update(t)
  BY <1>1 DEF update
<1>3. Offered' = Offered /\ OnTrunk' = OnTrunk
  BY <1>1, <1>2 DEF Offered, OnTrunk
<1>4. s \in Offered => s \in OnTrunk \/ update(s) \in reviews \/ update(s) \in declined
  BY <1>1 DEF IInv, SInv, Pushed, Outcome, Offered
<1>5. /\ {t \in Sessions : update(t) \in reviews}' = {t \in Sessions : update(t) \in reviews}
      /\ {t \in Sessions : update(t) \in declined}' = {t \in Sessions : update(t) \in declined}
  BY <1>1, <1>2
<1>6. /\ s \notin {t \in Sessions : pc[t] = "ok"}
      /\ {t \in Sessions : pc[t] = "ok"}' = {t \in Sessions : pc[t] = "ok"} \cup {s}
  BY <1>1 DEF IInv, LocalsOK
<1> QED
  BY <1>3, <1>4, <1>5, <1>6 DEF Contract!Succeed

\* A commit is nothing the contract sees before it is pushed.
LEMMA CommitStutters ==
  ASSUME IInv, NEW s \in Sessions, Commit(s)
  PROVE  UNCHANGED Contract!vars
<1>1. /\ UNCHANGED <<request, refs, reviews, declined>>
      /\ pc[s] = "commit" /\ pc' = [pc EXCEPT ![s] = "push"]
  BY DEF Commit, Goes, remoteVars
<1>2. \A c \in 1 .. used : has'[c] = has[c]
  <2>1. lnext[s] \in 1 .. used
    BY <1>1 DEF IInv, SInv, Based, LocalsOK, CommitsOK, None
  <2> QED
    BY <2>1, PromotionAssumption DEF Commit, NewCommit, Fresh, IInv, CommitsOK, Commits
<1>3. OnTrunk' = OnTrunk
  <2>1. refs[Trunk] \in 1 .. used
    BY DEF IInv, RemoteOK, Branches, CommitsOK, None
  <2> QED
    BY <1>1, <1>2, <2>1 DEF OnTrunk
<1>4. ASSUME NEW t \in Sessions PROVE SameFor(t)
  <2>1. refs[update(t)] = None \/ refs[update(t)] \in 1 .. used
    BY DEF IInv, SInv, Pushed, LocalsOK, CommitsOK, None
  <2>2. OnNext(t)' = OnNext(t)
    BY <1>1, <1>2, <2>1 DEF OnNext, update
  <2>3. (pc'[t] = "ok") = (pc[t] = "ok")
    BY <1>1 DEF IInv, LocalsOK
  <2> QED
    BY <1>1, <2>2, <2>3 DEF SameFor, InReview, InDeclined, update
<1> QED
  BY <1>3, <1>4, ContractStutters

\* Nor are the steps that change neither the remote nor an answer.
LEMMA QuietStutters ==
  ASSUME UNCHANGED <<request, refs, reviews, declined, has>>,
         \A t \in Sessions : (pc'[t] = "ok") = (pc[t] = "ok")
  PROVE  UNCHANGED Contract!vars
<1>1. OnTrunk' = OnTrunk
  BY DEF OnTrunk
<1>2. \A t \in Sessions : SameFor(t)
  BY DEF SameFor, OnNext, InReview, InDeclined, update
<1> QED
  BY <1>1, <1>2, ContractStutters

\* Every step is a step of the contract or one it does not see.
LEMMA NextImplements == IInv /\ [Next]_vars => [Contract!Next]_Contract!vars
<1> SUFFICES ASSUME IInv, [Next]_vars PROVE [Contract!Next]_Contract!vars
  OBVIOUS
<1>1. ASSUME NEW s \in Sessions, Step(s) PROVE [Contract!Next]_Contract!vars
  <2>1. CASE \/ Clone(s) \/ PrepareEnvironment(s) \/ ProcessAndCopy(s)
             \/ NothingToCommit(s) \/ DryRun(s) \/ MergeElsewhere(s)
             \/ ForgeUnreachable(s) \/ Fails(s)
    <3>1. UNCHANGED <<request, refs, reviews, declined, has>>
      BY <2>1
      DEF Clone, PrepareEnvironment, ProcessAndCopy, NothingToCommit, DryRun,
          MergeElsewhere, ForgeUnreachable, Fails, remoteVars, commitVars
    <3>2. \A t \in Sessions : (pc'[t] = "ok") = (pc[t] = "ok")
      BY <2>1
      DEF Clone, PrepareEnvironment, ProcessAndCopy, NothingToCommit, DryRun,
          MergeElsewhere, ForgeUnreachable, Fails, Goes, IInv, LocalsOK
    <3> QED
      BY <3>1, <3>2, QuietStutters
  <2>2. CASE CompleteReview(s)
    <3>1. \A t \in Sessions : (pc'[t] = "ok") = (pc[t] = "ok")
      BY <2>2 DEF CompleteReview, Goes, IInv, LocalsOK
    <3>2. \E t \in Sessions : Contract!Land(t)
      BY <2>2, <3>1, MergeImplements DEF CompleteReview
    <3> QED
      BY <3>2 DEF Contract!Next
  <2>3. CASE Commit(s)
    BY <2>3, CommitStutters
  <2>4. CASE Push(s)
    BY <2>4, PushImplements DEF Contract!Next
  <2>5. CASE CreateReview(s)
    BY <2>5, ReviewImplements DEF Contract!Next
  <2>6. CASE Answer(s)
    BY <2>6, AnswerImplements DEF Contract!Next
  <2> QED
    BY <1>1, <2>1, <2>2, <2>3, <2>4, <2>5, <2>6, TrunkIsThere DEF Step
<1>2. ASSUME NEW u \in Updates, HumanMerge(u) PROVE [Contract!Next]_Contract!vars
  <2>1. \E t \in Sessions : Contract!Land(t)
    BY <1>2, MergeImplements DEF HumanMerge
  <2> QED
    BY <2>1 DEF Contract!Next
<1>3. ASSUME NEW u \in Updates, CloseReview(u) PROVE [Contract!Next]_Contract!vars
  BY <1>3, CloseImplements DEF Contract!Next
<1>4. CASE UNCHANGED vars
  BY <1>4, QuietStutters DEF vars, remoteVars, commitVars
<1> QED
  BY <1>1, <1>2, <1>3, <1>4 DEF Next, AllAnswered

\* The sessions implement the contract of Promotion.tla: an update is offered once,
\* lands only through its review and stays, and success is only reported for what
\* landed, is under review or was turned down.
THEOREM Implements == Setting /\ Spec => KeepsContract
<1>1. Setting /\ Init => Contract!Init
  <2> SUFFICES ASSUME Setting, Init PROVE Contract!Init
    OBVIOUS
  <2>1. \A s \in Sessions : refs[update(s)] = None /\ update(s) \notin reviews
                            /\ update(s) \notin declined /\ pc[s] # "ok"
    BY InitIInv, PromotionAssumption
    DEF Init, Branches, None, IInv, RequestsOK
  <2>2. OnTrunk = {}
    <3>1. refs[Trunk] = TrunkCommit /\ TrunkCommit # None /\ TrunkCommit \in Commits
      BY PromotionAssumption DEF Setting, Init, Branches, None, TrunkCommit, Commits
    <3> QED
      BY <3>1 DEF Init, OnTrunk
  <2> QED
    BY <2>1, <2>2 DEF Contract!Init, Offered
<1> QED
  BY <1>1, NextImplements, Invariance, PTL DEF Spec, KeepsContract, Contract!Spec
=============================================================================
