# A specification of gitops-manager

TLA+ modules, TLC runs and TLAPS proofs about the Go packages of this
repository. File names below are relative to `src/`.

## 1. The system

A client streams one request - metadata, then the chunks of rendered manifests -
to the server, which streams progress back and ends with a summary. The server
clones the configuration repository, mutates and validates the manifests, copies
them in, commits them to a "next" branch, pushes it, and opens, perhaps merges, a
review from it to the environment branch ("trunk" in the code).

| Component | State | Operations | Talks to |
|---|---|---|---|
| request handler `pkg/server/server.go` | place in the stream, `metadataRecieved`, `preflightErr`, the request, the workspace | `UpdateManifests` | gRPC stream, reporter, receiver, manager |
| progress `pkg/progress` | unbuffered `progressChan`; per batch a ticker goroutine, `ProgressCount`, `wg`, a cancel function | `Run`, the reports, `Close`; `Start`, `Increment`, `Done` | stream; everybody who reports |
| file receiver `pkg/server/file_receiver.go` | `buffers`, `filesReceived`, `startedReceiving`, files on disk | `receiveFileChunk`, `done` | disk, progress |
| manager `pkg/server/manager.go` | the response under construction | `MetadataCheck`, `ProcessRequest` | strategies, processors, git service |
| git service `pkg/gitops/service.go`, `internal/git` | a clone, its branches and work tree | `InitRepository`, `PrepareEnvironment`, `Commit`, `Push` | remote repository |
| strategies `pkg/gitops/{targeters,committer,copier,authorisor,authenticator}` | configuration | one call each | manager |
| reviewers `pkg/gitops/reviewer` | the forge's reviews | `CreateReview`, `CompleteReview` | Gitea, GitLab |
| processors `pkg/gitops/{mutators,validators}` | the file's handle and the readers between them, kept by the manager | `MutateFile`, `ValidateFile` | manager |
| client `pkg/client`, `cmd/client` | stream, `errCh`, `Errors`, summary, two goroutines, the deadline | `SendRequest`, `UploadDirectory`, `Wait`, the exit code | server |

What is hard about it:

* **Goroutines that meet on an unbuffered channel.** A report blocks its sender
  until the reporter takes it, and the reporter may go away. Correct means: an
  uncancelled call ends, an answered call leaves nothing behind, nobody sends on a
  closed channel, and the last count of a batch is exact.
* **A request that is cut short**, by the client, by the disk, by an error that is
  ignored. Correct means: what is accepted was sent whole, what is pushed was
  authorised, uploaded and processed.
* **A remote shared by all requests and by people.** Calls fail before or after
  they had an effect; requests repeat each other; people merge and close reviews
  meanwhile. Correct means: an update reaches its environment only through its
  review, what was merged stays, and success tells the truth.
* **Two ends of one stream.** Either end may block the other, die, or run out of
  time, and the client's three goroutines must not lose what the server said.
  Correct means: exit code 0 was earned, an error reaches it, a client that dies
  leaves no update behind, and the client exits.
* **A file that is read while it is rewritten.** The reader that passes from mutator
  to mutator may still end in the file that is truncated at last, and validators
  share a handle. Correct means: what passes is what the chain of mutators promises,
  and is not empty.

## 2. The modules

| Module | Models | Kind |
|---|---|---|
| `Session` | one `UpdateManifests` call: handler, reporter and ticker goroutines, context | component |
| `SessionProofs` | its inductive invariant | proofs |
| `FileReceiver` | one upload: buffers, disk, the verdict of `done()` | component |
| `FileReceiverProofs` | its inductive invariant | proofs |
| `Promotion` | what requests may do to an environment | abstract specification |
| `PromotionFlow` | several sessions of `ProcessRequest` on one remote and forge | composition |
| `PromotionFlowProofs` | its inductive invariant, and that it implements `Promotion` | proofs |
| `PromotionSettingsProofs` | what holds in the other settings: repeated updates, dry runs, a first request | proofs |
| `Client` | the client of one call: main, receiver and collector goroutines, deadline | component |
| `Call` | a `Client` and a `Session` joined by the stream | composition |
| `MCCall` | `Call` with one more bound | for TLC |
| `CallProofs` | its inductive invariant | proofs |
| `CallSessionProofs` | that the server of a call is a `Session` | proofs |
| `Pipeline` | one file through the mutators, back to disk, through the validators | component |
| `PipelineProofs` | its inductive invariants, the readers' algebra, an induction over the chain | proofs |

**Session.** `handler` is the place of the handler goroutine. The code reports
between almost any two steps, and a report blocks; `outbox` counts the reports the
handler has yet to hand over before its next step, so that every step waits for
`outbox = 0` (`Ready`) and sets the number the code sends after it (`Go`). A report
moves in `HandlerReports` or `TickerReports`, joint steps of the sender and of
`Reporter.Run`. `stage` is the batch in hand; each has its own `ProcessReporter`
(`ticker`, `procDone`, `count`, `snapshot`). `cut` remembers the stages whose
`WalkDir` ended early. The stream's context ends by `Cancel` at any moment, or by
the handler's return (or `NoWorkspace`, before the first message). `Recv` may fail for
any reason (`ReceiveEnd`). A panic goes to `"panicked"`, which stops every goroutine, as
it does in Go: of `done()` without a ticker or a receiver (`Respond`), of metadata that
lacks a part (`AssignMetadata`), of a processor (`ProcessorPanics`) and of a review
strategy (`ReviewerPanics`). Strategies of the server's owner are taken to return.

**FileReceiver.** A file is `Chunks` chunks long; buffers and files on disk are
the number of chunks they hold. Chunks of different files interleave freely and
those of one file arrive in order (one stream). A last chunk is written, or its
directory or its write fails (`LastChunk`, `NoDirectory`, `WriteFails`); `Done`
may come at any time. In `Session` the same upload is reduced to its verdict, its
count and the number of files that got to the disk, which may be smaller.

**PromotionFlow.** A commit is a number with a tree (what the managed directory
holds), its ancestors, and the sessions whose updates it carries. `refs` are the
remote's branches, `reviews` and `declined` the forge's. A session owns a clone
(`ltrunk`, `onext`, `lnext`) and a program counter; one action per call that the
manager makes to the service or to a strategy. Each call may fail before it has an
effect (`Fails`, which is also a cancelled request and a stopped server: nothing of
a session outlives it but the remote) or after it (`GoesOrFails`). `HumanMerge` and
`CloseReview` are people. `MergeElsewhere` is the Gitea strategy, whose merge goes to
another repository and is refused; `ForgeUnreachable` is the GitLab strategy, which
panics when it gets no response and takes every session of the server with it. A merge is git's three-way merge at the granularity of
the directory, where two changed sides may give any content, and may squash, rebase
and delete the branch. The trees of an environment are those of one managed
directory.

**Client.** `main`, `receiver` and `collector` are the places of the three goroutines;
`log.Fatalf` and the end of `main` stop the other two (`Alive`). `Send` puts a message
under way and blocks while `Window` of them are (gRPC's flow control). `SendFails` is
`Send` on a call that is over, `UploadFails` everything else that makes the client give
up. `SkipDirectory` is a directory that cannot be read: `uploadDir` does not look at
the error of its walk, and goes on to the half-close without what is in there. `HandOverError` is the meeting of receiver and collector on `errCh`. The
server is behind `ended` and `broken`. The directory is counted (`CountFiles`) before it
is walked and may differ then: `announced` and `present`, the files that the walk finds,
are independent.

**Call** instantiates both ends. The server's steps that receive take a message that
is under way and know the half-close only after the last one (`AllReceived`); those
that send wait for the window while there is a client to send to. Progress is sent by
the reporter goroutine, the summary by the handler, through the same window. The
status of the call reaches the client after the messages. The client's deadline,
its death or a lost connection lets the server's context end (`ServerCancelled`),
sooner or later or never.

**Pipeline.** A text is a sequence of documents by what the processors see in them: a
Helm hook to convert (`hook`), other annotations (`sync`), no annotations (`bare`), a
template that renders, renders to nothing or is malformed (`tag`, `void`, `badtag`), a list, no YAML at all
(`broken`), and perhaps a final new line. A reader is a text in memory (`buf`) and,
while `live`, the rest of the file from the handle's `offset`. `HandOn` and `Replace` are
the two readers the manager makes after a mutator. The YAML decoder buffers, so
`HelmPasses` reads any number of documents. `WriteBack` truncates and copies the last
reader: what that reader still had in the file is gone. One action per mutator and
validator, and per way it fails. Beside the server's own there are mutators that write
nothing (`silent`) and mutators that return an error (`failing`: a read that fails, a
`GetData` that does, or one of the owner's), each after any part of its input; which of
them a file meets is chosen with the flow, in `Init`. What a mutator of the owner's
writes is left out. A validator of the owner's reads any part of the file and may
return an error with its result (`Custom`) or no result (`CustomFails`).

**Promotion** has five sets of requests (offered, under review, landed, turned
down, succeeded) and five steps; `PromotionFlow` implements it under the
substitution `Contract`.

The operators under "A variant with a fault" are the ways in which these
definitions are made wrong on purpose, to see that the properties notice.

## 3. The runs

| Run | Configuration | Shows |
|---|---|---|
| session | `Session.cfg` | the goroutine and gating properties, and `CallEnds` |
| session_final_count | `Session_lost.cfg` | *violated:* the final count is sent |
| session_cut_walk | `Session_cut.cfg` | *violated:* every processor saw every file before the push |
| upload | `FileReceiver.cfg` | what an accepted upload guarantees |
| upload_all_files | `FileReceiver_all.cfg` | *violated:* "Received all files" |
| promotion | `PromotionFlow.cfg` | two requests on an existing environment keep the contract, and dry runs push nothing |
| promotion_first | `PromotionFlow_first.cfg` | so does a first request, with the other forge |
| promotion_repeat | `PromotionFlow_retry.cfg` | *violated:* a repeated request is delivered |
| promotion_rewind | `PromotionFlow_rewind.cfg` | *violated:* what was merged stays, with two first requests |
| promotion_dry_run | `PromotionFlow_dry.cfg` | *violated:* a dry run pushes nothing |
| call | `MCCall.cfg` | what the client's exit and the server's push say of the other end, and that the client exits |
| pipeline | `Pipeline.cfg` | what the readers between the processors keep |

The properties:

* `NoSendOnClosedChannel`, `AnsweredIsDrained`: the shutdown protocol of
  `reporter.Close` and `wg.Wait`. It works because every batch joins its ticker and
  because an answer is given only after the reporter saw the closed channel.
* `FinalCountIsExact`: the ticker reads the count after it was told to stop, and it
  is told after the last `Increment`; only an ended context tells it earlier, and then
  its unsynchronised read of `ProgressCount` (`RacyCount`) may be behind.
* `PushNeedsApproval`: for every order of messages.
* `CallEnds`: a call the client does not give up ends. `FinalCountIsSent` is what
  fails when it does give up: the reporter leaves on `ctx.Done()`, the ticker, told
  to stop by the same context, blocks in its last report, and the handler waits for
  it in `Done` for ever. The workspace of that call is never removed.
* `PushedWasProcessed`: fails, because the error of `WalkDir` is not looked at.
* `AcceptedWasSentWhole`, `DroppedBufferIsOnDisk`: hold whatever the disk refuses.
* `AcceptedMissesAtMostOne`: the two counts of `done()` notice all failed writes but
  one. `ReceivedAllFiles` is the same without the one, and fails because of
  `len(r.buffers) > 1`.
* `SuccessMeansDelivered`: an answered update is on the environment branch, in an
  open review, was turned down, or was there before - and stays so under the steps
  of the other session and of people. `RepeatsAreDelivered` is the same when two
  requests share their update identifier, and fails: a request whose review failed
  after the push is sent again, has nothing to commit and is told of success.
* `CompletedMeansLanded`: also when people race the automatic merge.
* `TrunkKeepsMerges`: no step takes a merged update off the environment branch. It
  holds when the branch exists, and fails when two requests both create it.
* `KeepsContract`: refinement of `Promotion`.
* `DryRunPushesNothing`: holds where the environment branch exists, and fails where it does
  not, because the branch is created and pushed before anything looks at `dryRun`.
* `ExitZeroMeansDone`: exit code 0, before the deadline, was earned: the server answered
  and the receiver printed the summary. After the deadline it is not: between two
  messages the receiver looks at the context and leaves without an error.
* `ErrorsFailTheClient`, `NoSendOnClosedErrCh`: `Wait` waits for the receiver, closes
  `errCh`, waits for the collector; each of the three is needed.
* `FatalPushesNothing`: a client that dies in its upload leaves no update behind.
* `PushIsComplete`: what is pushed came from a client that ended its walk and
  half-closed, was received to the last file sent, has no fewer files than the client
  announced, and lacks at most one of them on the server's disk. It does not say that
  the directory was pushed: one unwritten file is accepted (`ReceivedAllFiles`), and a
  directory that the client could not read is skipped. Only the count that was made
  before the walk tells the server that something was.
* `DisconnectIsHarmless`: the panic of `done()` on a ticker that no file has started
  needs a client that half-closed without having sent a file, because its directory
  is empty or cannot be read. A client that dies or is cut off there does no harm.
  Other panics are possible in every call, and no property speaks about them.
* `ClientExits`: with full windows in both directions nobody waits for ever.
* `NextReceivesWhole`: whatever a mutator reads, writes or refuses, the next one gets
  what `docs/processors.md` promises it (`Promised`, what the chain so far makes of the upload).
* `PassedIsMutated`: so does the disk in the end - unless no mutator of the chain is
  bound to read its input to the end. `HelmHooksToArgoCD`, or one of the owner's that
  writes nothing, may hand on the end of the file unread, to be truncated.
  `HelmHooksToArgoCD` also keeps the first document only (`HelmWrites`); that is part of
  what it writes, and no part of the property.
* `DiskIsExplained`: after a failed write the disk has the upload or the beginning of its
  mutated text. `EmptyIsCaught`: an empty one does not pass `EmptyFile`, unless the walk
  of the validators was cut short, which passes what it did not look at.
* `RejectedForCause`: `EmptyFile` refuses only empty files, unless another validator has
  read from the handle before it.
* `UnrenderedForCause`: a template that gets past `Mustache` unrendered was uploaded
  beside a malformed one, whose error is overwritten, or in a file that renders to
  nothing: the manager takes an empty output for a mutator that wrote nothing, and
  hands on the template.

**Bounds.** `MaxMessages = 4`: metadata, a refused second metadata, a first chunk and
a later one, in every order. `MaxReports = 2` lets a step report not at all, once,
or again; a longer row of reports repeats the same hand-over. Counts are bounded by
the messages. Three files of two chunks give a first and a last chunk, two left
buffers (one more than `done()` tolerates) and a whole file beside them.
`MaxCommits = 6` is main, the environment branch, a commit and a merge of each of
two sessions; 8 (rewind) has room for two roots. A bound stops commits and merges
only; a session then fails. Two sessions are enough for every pair of overlapping
steps, and three trees are empty, main's, and an update's. The same
content in both requests is among the initial states.

A call has up to two files (`MaxFiles = 2`), so that of the files that were counted some
may be sent and some skipped or refused by the disk, and `Window = 1`, so that both
windows are full after each message; it meets a passed deadline or a lost connection,
not both. `MCCall` adds that only a directory of fewer than two files grows between the
count and the walk; the server refuses one that grew by its count, whatever its size,
unless as many files are skipped. The safety properties are proved for any number of
files, reports and messages under way. A file of two documents has a first and a rest,
which is all the processors tell apart; chains of two mutators and two validators have
every pair of neighbours, and the theorems of `PipelineProofs` hold for chains of any
length.

**Fairness** (`FairSpec` of `Session`). Goroutines are scheduled, so each handler step,
the end of a `Send` and the reporter's reaction to the closed channel are weakly fair:
the client half-closes or cancels in the end, and strategies return. A blocked sender
competes with the other for the reporter; Go queues senders first in, first out, hence
the strong fairness of the hand-overs. Strong fairness of the reporter's exit and of the
ticker's stop is that of `select`, which picks among ready cases at random. `Tick` and
`Cancel` have none. `Call` adds weak fairness of the client's three goroutines, with one
condition for the steps that a call has finitely many of, and none of an upload that
fails or a directory that is skipped; the deadline need not pass, the connection need
not be lost and the server need not learn of it. `ClientExits` and `CallEnds` are the
liveness properties; their runs have `CHECK_DEADLOCK FALSE`: a finished call does
nothing more and a cancelled one really blocks, which is the finding above and no reason
to stop the other checks.

## 4. The proofs

Every invariant, every action property and the refinement that a passing run checks is
also proved, for all values of the constants; only the two liveness properties are not.
The proofs assume what the `ASSUME`s of the components say, which TLC evaluates in those
runs, and what a theorem's own hypothesis names.

*Session.* None of the properties is inductive. `IInv` adds where everybody is:
`Joins` - no ticker is live where the handler delivers, closes or has answered, so
that it is gone wherever the channel may be closed; `Drained` - the
channel is closed, and the reporter done, only at the last places of the handler
with an empty outbox; `Counted` - once the ticker was told to stop, the count no
longer changes; `Approved` - each place after the authorisation, the upload and
the gate keeps its verdict. `IInvStep` shows that every action preserves it, one
leaf per action. Boolean variables are in a type lemma of their own (`FlagsOK`).

*FileReceiver.* `IInv` says that what a file has sent is in its buffer, or on disk
(`Kept`), that a file is counted at most once and only when it ended
(`CountedOnce`), and what the verdict was based on (`Checked`). An accepted upload
counted as many files as were announced; counted files are among the ended ones; so
all ended. A missing file still has its buffer, and there is at most one buffer.
`ReceivedAllFiles`, which a failing disk violates, is proved under the hypothesis that no
write fails (`AllOnDisk`): then no more files are counted than are on disk. A directory that
cannot be made does no harm, since its file is not counted. `WholeIsNotRefused` is the other
half: on a disk that works, only an upload the client cut short is refused.

*PromotionFlow*, for any sessions, contents and bound of commits. The contract is proved
under `Setting`: the environment branch exists and no two sessions share an update. Both
are needed: without either the runs *promotion_rewind* and *promotion_repeat* are
counterexamples. What a session may say depends on what others do to the remote
meanwhile, so `IInv` relates each session's clone and commit to the trunk: what it
cloned is an ancestor of the trunk and carries only updates that are on it (`Based`);
its commit carries its own update and otherwise only such (`Made`); its next branch is
that commit or nothing, and there is no review before the push (`Pushed`); from the
review on its update is on the trunk, under review or declined, and once reported as
completed on the trunk (`Outcome`). Nothing of this is lost when the trunk moves, since
only merges move it and a merge unites what both sides carry: `MergeLands` and `Keeps`,
from which one lemma per action follows. `Implements` then maps every step to a step or
a stutter of `Promotion`.

`PromotionSettingsProofs` says what is left without `Setting`. `Shape` is inductive in
every setting - branches and clones hold commits that were made, and a session that
works on a branch has it (`HasBranch`) - and gives `Types` without hypothesis. From it follows
`FoundingRewinds`: of all steps only `PushTrunk` may take a merge off the trunk, which
locates the cause of *promotion_rewind*. `OnlyReviewsLand` needs that a founded branch
carries no update (`FoundsEmpty`): then no push puts anything on the trunk, and what
comes there comes from the next branch of an open review, in every setting. Once the
branch exists no session gets there (`Rooted`), so that merges stay even when updates
are repeated or shared (`TrunkKeeps`), and dry runs push nothing (`DryRuns`: a dry
session does not push, and without a next branch there is nothing to merge). For the
first request of an environment, alone, `Founding` describes the time until its branch
is pushed: the remote is empty and no commit carries an update. `FoundingPush` shows
that the push leads to `IInv`, from where the proofs for `Setting` go on; hence
delivery, completion, the merges and the contract hold for it as well (`FirstDelivery`,
`FirstCompletion`, `FirstKeeps`, `FirstImplements`).

*Call*, for any number of files and reports and any window. `IInv` counts the messages
(`SentOK`: what was sent is under way or received, and half-closed means that the
walk of the directory was ended), knows what each place of the server implies about them
and about the verdict on the upload (`ServerOK`), follows the summary from the handler through the stream to the receiver
(`AnswerOK`), and follows an error from the receiver to the exit code (`ClientOK`).
`CallSessionProofs` then shows that every call is a behaviour of `Session` with as many
messages as the stream may carry (`ServerIsSession`): the joint steps only add guards to
the server's own. So `SessionProofs` is used as it stands, and its invariants hold of
the server of every call (`SessionSafe`). `ClientInvariance` adds the types of the
client, which together give `Types`.

*Pipeline*, for files, chains of mutators and rows of validators of any length. The heart
is `HandOnKeeps`: however many documents a mutator read, the buffer of what was read and
the rest of the file are adjacent, so the reader that is handed on yields the same
text. `EachRuns` concludes for every mutator that the next reader yields
`Mutated(Input, mutators[at])`. `IInv` then needs only what one mutator does to a text
(`MutatedText`) to follow templates through the chain (`TemplatesOK`: once there is
something Mustache cannot render, it was in the upload), and where the shared
handle stands before the first reading validator (`Caused`).

The properties of a whole chain need more: what the mutators before this one make of the
upload is a recursive function (`Mutations`). That it satisfies its equation
(`MutationsAre`) is proved by `Induction` over a set of numbers instead of an operator: of
the numbers outside the set there would be a least one, by the well-foundedness of `<`.
The invariant `Handed` then says that whatever a mutator is handed is `Promised` to it -
`EachIsMutated` is its step -, that nothing is left to read in the file once a mutator
that is not among `PartReaders` has run, and that the disk has the upload or a beginning of what the
whole chain makes of it. `ReceivesWhole`, `PassesMutated` and `DiskExplained` follow for chains of
any length.

With TLC stay the liveness properties, `CallEnds` and `ClientExits`: they rest on
fairness, and so on `ENABLED`, which the provers do not handle. The properties of the
runs that expect a violation are false of the code; where a hypothesis makes one true
(`ReceivedAllFiles`, `DryRunPushesNothing`, `TrunkKeepsMerges`), it is proved under that
hypothesis. `FinalCountIsSent`, `PushedWasProcessed` and `RepeatsAreDelivered` are not
taken further.

## 5. Not modelled, and what comes next

Not modelled: how single values of YAML are rendered or mapped, texts of reports and
reviews, the title and labels of a review, credentials, flags and printing, logging,
the health service, generated code. Of the retry loops of the review strategies
only the outcome counts: no state of the server or the forge changes between two
rounds, and people may act at any moment before `CompleteReview` anyway. The lookup of an
existing review is its outcome, too. The directory and repository targeters take the
same steps on other branches and directories; they never hand on `Orphan`, although
its comment (`pkg/gitops/targeters/directory.go:14`) gives it precedence.

What could follow:

1. Several environments in one branch (the directory targeter), where merges of
   different directories meet in one trunk; a commit's tree would be a function
   from directories to contents.
2. Two calls on one server, a `Call` each with the remote of `PromotionFlow`, to follow a
   panic of one handler through the other's stream.
