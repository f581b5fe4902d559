# revu — formal models

TLA+ models of [revu](../src/README.md), a local-first code-review tool: a React client, a daemon
(`revud`) that pulls a pull request or a pair of local branches down as an offline snapshot, and a
durable SQLite store that keeps snapshots, threads and drafts. The modules model the parts whose
correctness depends on the order in which requests, timers, crashes, other processes, git and GitHub
interleave, and the pure algorithms those parts rest on. TLC checks small instances; the TLA+ proof
system proves the theorems of section 5 for every value of the constants.

Paths below are relative to `src/packages/` unless they start with `src/`.

## 1. Inventory

`revud` is one JavaScript process per workspace. A request handler runs without interruption from
one `await` to the next, so the unit of interleaving is the stretch of code between two awaits.
SQLite is written synchronously; `write` wraps one statement or one transaction, and several
daemons may open the same data directory (WAL, `busy_timeout`).

| Component | State it keeps | Operations | Interacts with | What is hard | Correct when |
|---|---|---|---|---|---|
| Store (`revud/src/direct/store.ts`) | tables `immutables`, `snapshots`, `local_snapshots`, `blobs`, `local_reviews`, `local_threads`, `local_reviews_submitted`, `drafts`, `local_drafts`, `viewed`, `audit_log`, `pr_author`, `meta` | one method per row operation, a few transactions | everything | two processes, transactions that decide on what they read before they lock, high-water marks | an envelope's half exists; ids are not reissued; a reclaim removes only what nothing names |
| Pull sync (`sync.ts`) | none of its own | `syncPull` | GitHub client, store, blob provisioning | four awaits between the compare key and the envelope | the half under a key is that comparison and says when it is incomplete |
| Blob provisioning (`blobs.ts`) | none | `provisionBlobs` | store, git, GitHub | `hasBlob` is believed long before the envelope lands | a snapshot has its bytes or names them missing |
| Retention (`retention.ts`) | the sync gate (in memory) | `withSyncInFlight`, `pruneImmutables`, `pruneBlobs`, `dropPinnedRefs` | store, git | a sweep inside another request's awaits; another daemon's gate | the gate counts its syncs; a sweep takes nothing live |
| API assembly (`direct-api.ts`) | the gate's owner | `syncPull`, `deleteLocalReview`, drafts, viewed, preferences, list | all of the above | delete while something is in flight | deleting leaves nothing behind |
| Local reviews (`local-surface.ts`, `local-writes.ts`, `local-ids.ts`) | none beyond the store | create, sync, submit, reply, resolve, react, drafts | git, store, archive detector | a head resolution awaited in the middle of a write; a snapshot captured before a sync and written after it | nothing acknowledged is lost; an archived review stands still |
| Archive detection (`local-archive.ts`, `shared/src/lib/local-archive.ts`) | `local_reviews.archived_pr` | `detect` | GitHub, store | a listing that never answers; two answers that differ | the number is written once; a dead host holds nothing up |
| Local git (`local-sync.ts`, `local-git.ts`, `local-pins.ts`) | refs under `refs/revu/reviews` | range, diff, log, pins | `git` | parsing | pure functions of git's answers |
| GitHub writes (`writes.ts`, `write-decorator.ts`) | journal rows | `submitReview`, `replyToThread`, `resolveThread`, `addReaction` | GitHub, store | a lost answer and a retry; two submits at once | a review is posted once; a draft goes only when it landed |
| Reconcile (`reconcile.ts`, `shared/src/lib/anchor.ts`) | none | `reconcileDraft` | store | boundary lines | each comment is clean, drifted or lost, as defined |
| Session and GitHub client (`context.ts`, `session.ts`, `github-client.ts`, `mappers.ts`, `threads.ts`) | none | start-up, HTTP, mapping | GitHub | retries, pagination | pure plumbing |
| Broker (`revud/src/broker/`) | cached list with its ETags and failure count, last good reviewers' file | poll, serve the list, detect out-of-band writes, read the token | GitHub, store | 304s, failures in the middle of a cycle, facts carried over | a list is never served as fresh when it is not; no write under the bot's name goes unnoticed |
| Collector (`revud/src/collector/`) | host store: drafts, viewed marks, journal, keyed by bound identity | collect, off-board, export | workspaces, GitHub | the same rows handed over again; one container failing half-way | the journal is append-only and lands each row once, under the bound identity |
| Servers and routers (`server.ts`, `index.ts`, `direct-router.ts`, `api-router.ts`, …) | none | dispatch | surfaces | — | stateless |
| Client drafts (`app/src/state/drafts.ts`) | timers, pending draft, dirty flag | save, retry, flush, discard, submit | daemon | a save in flight while the draft is discarded or submitted | the draft survives until it lands |
| Client cache (`app/src/state/threads.ts`, `viewed.ts`, `queries.ts`) | React Query entries, optimistic copies | reply, resolve, react, mark viewed, sync | daemon | a rollback puts back a copy of before; a sync replaces what it was taken of | a settled screen shows what GitHub and the daemon have |
| Files tab (`app/src/pages/files.tsx`, `lib/diff.ts`, `components/files/`) | opened ranges, folds, selection, composer and kept texts | expand, fold, select, compose, submit a comment | snapshot, blobs, draft | blobs that arrive late; a sync under an open composer | the rows are the file; nothing written is hidden or lost |
| Review dialogs (`app/src/components/review/`) | report, decisions | submit, sync, reconcile, apply | daemon, draft, cache | the tab's compare, the report's and GitHub's may all differ | a comment is posted on the text it was written about |
| Transports and the rest of the UI (`app/src/`) | — | — | daemon | — | presentation |
| Docs, scripts, e2e | — | — | — | — | not part of the running system |

`PROJECT.json` lists the same components with their status, and under `hazards` every place where
this code is hard to test, with the property that watches it; its `note` says which part of it no property watches, and why.

## 2. Modules

| Module | What it is | Composes |
|---|---|---|
| `Tables` | SQLite tables as functions: the domain is the set of keys that have a row | |
| `SnapshotCache` | the two-half snapshot cache and all that writes it: syncs, sweeps, deletions, several daemons | `Tables` |
| `SnapshotPromise` | what the cache promises a reader, in one variable | implemented by `SnapshotCache` |
| `LocalReview` | the life of a local review in one daemon: writes, archive, catch-up | `Tables` |
| `LocalDiff`, `LocalClone` | the change set of two commits, joined from three streams; the clone it is read from while branches move and git collects | `LocalClone` over `LocalDiff` |
| `GithubWrites` | the daemon's writes to GitHub, their retries and journal | `Tables` |
| `DraftPersistence` | one draft between the page, the wire and the daemon's row | |
| `PollLoop` | the broker's polled list, its tag and its clients | |
| `OutOfBandWrites`, `HostStore`, `Collector` | the detector, the host's tables, and the tick that uses both | `Collector` over the other two |
| `Anchor`, `Reconcile` | where a comment belongs in a newer file; the dialogs that ask | `Reconcile` over `Anchor` |
| `ClientCache` | what one tab shows while its writes are out | |
| `DiffRows`, `FilesView` | a patch as the rows drawn; the Files tab over one file | `FilesView` over `DiffRows` |
| `SnapshotCacheProofs`, `LocalReviewProofs`, `GithubWritesProofs`, `PollLoopProofs`, `CollectorProofs`, `ReconcileProofs`, `LocalCloneProofs`, `ClientProofs` | the theorems of the module each is named after (`ReconcileProofs`: of `Anchor` too; `ClientProofs`: of `DraftPersistence`, `ClientCache` and `FilesView`) and their proofs | each over its modules |
| `MC...` | names, functions and small data the `.cfg` files give to the constants | |

Conventions. An action is the code a request runs between two awaits, with the writes in the order
the code issues them; where one of several writes can fail, the failing prefixes are an action of
their own. Definitions marked *Fault* are mutated forms of the definition below them: they belong to
no specification, and record which mistake each property would notice. A variable or field marked
*history* is not in the program; it remembers what a property needs.

### SnapshotCache

The tables `immutables` (compare key → half), `snapshots` and `local_snapshots` (one variable,
`envelopes`), `blobs` and the existence of a local review's row (`status`) are the disk. `gate`,
`jobs` and `sweeps` are the memory of each daemon, and a `Crash` loses exactly these. `head` is what
git or GitHub would answer now.

| Action | Code |
|---|---|
| `EnterSync`, `LeaveGate`, `FailSync` | `syncPull` in `direct-api.ts` and `withSyncInFlight`'s try/finally |
| `ReadDetail`, `LookUpHalf`, `FetchHalf`, `PutImmutable` | `sync.ts`: key from the pull's detail, cache hit or `fetchImmutable`, `putImmutable` |
| `BuildHalf` | `performSync` in `local-surface.ts`: the half read whole from the clone |
| `ProvisionBlob`, `PutBlobs` | `provisionBlobs`: `hasBlob`, then a tier that answers or none, then one `putBlobs` |
| `PutSnapshot` | `writeSnapshotRows`: both rows in one transaction, the half keeping the mark its row has |
| `DeleteLocalReview`, `DropPins` | `deleteLocalReview`: rows first, refs after an await |
| `SweepHeldOff`, `ProposeHalves`, `DisposeHalves`, `ProposeBlobs`, `DisposeBlobs` | `pruneImmutables`, `pruneBlobs` and the transactions that recompute what is live |
| `Push`, `Crash`, `CreateLocalReview` | the environment, and the row a local sync needs |

A sweep has no await inside: while a daemon is in `sweeps` none of its requests runs, but the other
daemon's do. `PushMidFetch` and the sets of comparisons a review may show separate the behaviours
in which the code keeps its promises from those in which it does not (see *Findings*).

`SnapshotPromise` says what a reader is owed: a review shows one snapshot or none, a snapshot is
replaced as a whole by a publication of that review, whose half is the comparison its key names and
says so when it is incomplete, and only local reviews are taken away. `PromiseSpec` is that
specification under the mapping `ShownNow` — what `getSnapshot` would join for each envelope. A
write of one review that changed what another shows would be a step the promise has not got.

### LocalReview

`reviews`, `envelopes`, `threads`, `summaries`, `drafts` and the high-water marks `marks` are the
`local_*` tables and `meta`; `jobs` are requests between awaits; `opens` is GitHub; `acked` is a
history variable, the comments whose write was answered with success. The envelope repeats what
other tables hold — pair, archived state, threads — and holds one thing of its own, who wrote each
comment. Whether these copies agree is what most of the properties are about.

| Action | Code |
|---|---|
| `CreateLocalReview` | `createLocalReview` and `bumpIdHighWater`, one transaction |
| `StartSync`, `ServeListing`, `RejectListing`, `Deadline`, `MarkArchived` | `syncLocalPull`, `detect` with `withDeadline`, `markLocalReviewArchived` |
| `EnterSync`, `LandSync`, `FailSync` | `syncLocalReview`: freeze, catch-up, `performSync` |
| `StartSubmit`, `FinishSubmit`, `BreakSubmit` | `submitLocalReview` before and after it awaits the head; `BreakSubmit` is any proper prefix of its writes |
| `StartReply`, `FinishReply`, `BreakReply` | `replyToLocalThread` and `persistThread` |
| `RefuseWrite` | the head moved or could not be resolved |
| `ResolveThread` | `resolveLocalThread`; `addLocalReaction` has the same shape |
| `SaveDraft`, `DiscardDraft`, `DeleteLocalReview` | the handlers of those names |
| `OpenPull`, `ClosePull`, `Restart` | the environment |

Left out here because `SnapshotCache` has it: what a sync does to halves and blobs. Left out
altogether: viewed marks, the text of review summaries, line anchors.

### LocalDiff and LocalClone

`LocalDiff` is pure. `Records`, `Counts` and `Sections` are what `git diff --raw`, `--numstat` and
`--patch` print for a pair of commits. `Sections` is a constant that need only be `PrintedInOrder`,
one section per path and two where a path changes its type; the configurations give it `Prints`,
which computes it. `LocalChangeSet` joins them by position as
`local-sync.ts:775` does, and `JoinsUp` is its refusal of streams that do not fit. `FilesOf` says the
same of the two trees, without streams, and is what the join is checked against.

`LocalClone` runs it over a clone: `tip` and `odb` are git's refs and objects, `pins` the refs under
`refs/revu/reviews`. A sync is ten commands (`ResolveBase` to `PutLocalSnapshot`), and between any
two of them a branch may move, be amended or go, `Collect` may take everything no ref reaches, and
the review may be removed, its refs dropped one command at a time (`ListPins`, `DropPin`).

### GithubWrites

A request slot is a process; a step is what it runs between two calls. A POST is in `calls` until
GitHub applies it or it is lost: `LandReview`, `LandWrite` apply it, `LoseAnswer`, `LoseWrite` lose
the answer after or before that. `ListReviews`, `AcceptCandidate`, `Adopt` are the check a submit
makes for a review an earlier try may have posted; `Conflict` is GitHub refusing comments it cannot
place; `RecordFails` and `DeleteFails` are the journal's and the draft's rows refused after the write
landed. A POST either landed before its answer was lost or never will.

### DraftPersistence

`cache` is the query cache's draft, `entry` the autosave entry with its debounce and retry timers,
`saves`, `submits`, `discard`, `removal` and `reading` are requests in flight, `row` the daemon's
row. A draft is its version, as the code compares documents by identity. `PressSubmit` flushes and
`SendSubmit` awaits that; `BeginDiscard` is what a discard and the deletion of a local review share;
`CloseTab` flushes without waiting and loses the page; `SyncLands` makes the page read the row again.

### PollLoop

One action per `await` of `pollOnce`: `StartTick`, the conditional list (`ListUnchanged`,
`ListChanged`), the facts of what changed (`LandSweep`, `LandList`), `FailTick` at any of them.
`BrokerEtag` is the tag composed of GitHub's tag, the rollups and the host's annotations.
`ClientPolls` is a client's conditional read. GitHub's pulls are revisions; CI and the reviewers file
move without one.

### OutOfBandWrites, HostStore, Collector

`HostStore` gives the host's tables as operations on their value, keyed by the human an owner label
is bound to. `OutOfBandWrites` is the detector as an operator over three listings and a journal.
`Collector` interleaves what people and the bot do with the tick: `Pull` each workspace, `Land` it in
full or in part, list reviews, review comments and issue comments in three calls, `Detect`.

### Anchor and Reconcile

`Anchor` translates `shared/src/lib/anchor.ts`: context scores, the search window, the ranking of
candidates and the start of a span that moved. `Reconcile` puts it under a review of one file whose
branch and base move: `commits` and `bases` only grow; `stored`, `cached` and the report each name
one compare. `ReconcileDraft` is the daemon's report with its pre-flight for missing blobs;
`Decisions` and `Apply` are the dialog's rows and the plan that rewrites the draft and submits again.

### ClientCache

`shown` and `viewed` are the tab's entries, `stored` and `marks` the daemon's, `github` the thread.
A write is `Optimistic` at once and carries a copy to put back; `Serve`, `Refuse`, `Lose` are the
wire, `Succeed` and `Fail` the handlers. `requests` is a table: a request's number says which is
older, as react-query numbers its mutations, and stays its own when others go. A sync reads GitHub, lands in the daemon and replaces the
entry, and the reads it invalidates come back later.

### DiffRows and FilesView

`DiffRows` is pure: `PatchOf` is what git prints of a script of kept, deleted and added lines,
`ParseHunks`, `BuildRows` and `FindAnchorRowIndex` are the client's. `FilesView` is the tab over one
file: blobs arrive one by one, a sync may replace the snapshot (`Resync`), the reader opens gaps,
folds, switches modes, selects lines and writes, before a sync, across it and after it: the selection
and the composer record, as history, on which snapshot their lines were chosen (`on`), so that
`CapturedAsShown` can tell what the author saw from what the tab captures. Effects that run before
the next event are part of the action that caused them. A closed composer is one without an anchor,
and where there is no draft `draft` has no head and no comments.

## 3. What the runs show

All listed runs pass. States are distinct states.

| Run | Instance | States | Shows |
|---|---|---|---|
| `cache_bytes` | one daemon, two slots, a pull and a local review sharing one comparison, a second comparison GitHub lists only in part, two blobs, blob reclamation on | 206,672 | `HalvesSayWhatTheyAre`, `FoundBytesStay`, `SnapshotsAreHonest`, the refinement `PromiseSpec` |
| `cache_two_daemons` | the same reviews, one slot on each of two daemons, no blobs | 56,901 | `NoDanglingEnvelope` |
| `local_threads` | two pairs, two reviews ever created, two slots, no pull request | 301,462 | `EnvelopeBelongs`, `AcknowledgedStays`, `TextLeavesByHandOrLands` |
| `local_answers` | one pair, two pull requests that open and close over it, two slots, fairness | 95,568 | `ShownIsOnDisk`, `ArchiveNumberStays`, `EveryRequestEnds` |
| `local_clone` | two syncs and the removal of a review; six commits, four paths with a text, a binary, a link that becomes a file and a submodule; one move of a branch, one fault | 162,257 | `SnapshotIsOfItsRange`, `PinnedIsWhole`, `PinnedStaysReadable` |
| `writes` | one slot, two heads, two verdicts, one inline comment, two drafts | 841,032 | `PostedOncePerHead`, `ConfirmedIsJournalled`, `DraftGoesWithItsReview` |
| `drafts` | two edits, one press of Submit, one hide, close, discard or deletion, one sync, fairness | 180,145 | `TextSurvives`, `BehindIsTold`, `SaveSettles` |
| `poll` | one pull, two ticks that could overlap, three moves, two failures, one restart, `MAX_STALE_TICKS` 2, fairness | 708,401 | `SameTagSameMeta`, `OutageIsTold`, `KeyFitsPull`, `ListMovesOn`, `PendingIsNotForever` |
| `collector` | two workspaces, four events in all | 1,807,604 | `RowsBelongToTheirHuman`, `AttributionStays`, `BypassIsFound`, `LandedIsCleared` |
| `reconcile` | one comment, five heads and four bases of up to four lines over two texts, two moves | 1,965,978 | `ReconciledCommentsLand`, `UntouchedIsClean`, `LostMeansGone`, `AppliedDraftIsCoherent` |
| `client` | two replies, two files, three writes, one sync | 1,916,588 | `SettledShowsGithub`, `TypedTextIsKept`, `SettledShowsMarks` |
| `files` | every file of up to five lines, alone; six histories of two snapshots, two of them commented on, one of these with two texts (symmetry) | 615,680 | `EachLineOnce`, `NothingWrittenIsHidden`, `CapturedAsShown`, `TextIsKept` |

**Why the bounds are enough.** In general a bound is the least at which the hazard it is there for
can occur, and the bounds are guards of the actions they limit, named `Max...`.

- *Cache.* Two slots make every pair of requests overlap, and a slot is reused, so a third request
  may follow either. Two compare keys are what it takes for a push to move a review away from a
  shared half. Two blobs are one that both comparisons name and one only the tail past the cap names.
- *Local reviews.* `MaxReviews = 2` lets an id be deleted and the next one issued; `MaxEntities = 3`
  is a submit (a summary and a comment) and a reply to it. Two pull requests are the least that race
  two archive checks to different numbers. With three slots and one pair the properties of
  `local_threads`, and `ShownIsOnDisk` with a pull request, were also found to hold. `ShownIsOnDisk`
  is stated for live reviews: with three requests a catch-up that fails can leave an archived review
  showing a comment its rows have lost, a longer form of the `MCLocalCatchUp` counterexample.
- *Clone.* Two syncs of one review overlap in any of their ten commands, and a third commit on a
  branch makes tip, merge base and diff disagree if they are read apart. One sync with two moves
  (`Syncs = {s1}`, `MaxMoves = 2`, no symmetry: 300,146 states) passes as well.
- *Writes.* Two heads are one push; two drafts let a retry meet a draft it does not match.
- *Drafts.* Two edits are one overtaken by the next. `MaxHides = 2` passes too (1,996,752 states).
- *Poll.* Two failures with a stale threshold of two reach the outage; one restart is what makes the
  same tag come from two processes.
- *Reconcile.* The radii are 2 and 1 instead of 400 and 40; the files are longer than a window, so
  lines lie outside it. The theorems hold for all.
- *Files.* `Around = 1` and `Step = 1` instead of 3 and 20; five lines then hold two hunks with a gap
  on every side. `MaxTurns` bounds how often a reader who is writing changes the view; who only
  reads is not bounded. In both commented histories the sync gives every number another line; in
  the second it leaves no change to draw, so that threads, comments and an open composer meet a file
  with no row until its blob arrives, and two texts let two closed composers keep one each.
  `Around = 0` (347,228 states) passes as well.

**Deadlock** is checked where the system always has something to do: in the runs of `SnapshotCache`,
`LocalReview`, `GithubWrites` and `PollLoop`. The others stop when their bounds are used up and
everything has settled (`CHECK_DEADLOCK FALSE`).

**Fairness.** `LocalReview`: a request already started goes on when it can: the event loop runs
continuations, timers fire, and local `git` exits. The last is an assumption: the command runner
sets no timeout. Nothing is assumed of GitHub there: `ServeListing` and `RejectListing` are not fair,
and `EveryRequestEnds` rests on `Deadline` alone. `DraftPersistence`: timers fire, and requests are
answered or fail, which the browser sees to. `PollLoop`: the interval ticks, a tick's calls settle,
clients poll. A listing that never settles (`poll-loop.ts:666`) would hold every later tick off: the
code sets no deadline, and nothing here covers it.

**Restrictions of the passing runs.** Each names a constant, and each excludes a behaviour a
counterexample of section 4 includes.

| Constant | Excludes |
|---|---|
| `PushMidFetch = FALSE` | a push between a pull sync's detail and its file listing |
| `HeadsOf`, `Pulls = {}`, `EditsMidSubmit = FALSE` | a local review of a capped comparison; an archive under a write; text saved into a draft being submitted |
| `SerialSubmits = TRUE` | two submits of one draft at once: the client disables its button only once the request is out |
| `InOrder = TRUE`, `AnsweredInOrder = TRUE` | requests of one page about one draft, or one thread, served in another order than sent |
| `EditsMidWrite = FALSE`, `SyncsMidEdit = FALSE` | an edit while a submit, discard or deletion is out (`drafts.ts:345` drops it); a sync that re-reads the draft under an unsaved edit |
| `Retypes = FALSE`, `EarlyToggles = FALSE` | a composer reopened while its reply is out; a file marked before the marks have loaded |
| `Reopens = FALSE` | a composer opened where it is already open |

## 4. Findings

No listed run ends in a counterexample. While modelling, these statements of the repository turned
out not to hold; each can be had with `tlc -config X.cfg M`, or from a listed configuration with one
constant changed.

| Reproduce | Statement refuted | What the code does |
|---|---|---|
| `MCCacheTornHalf`, `MCSnapshotCache`: `HalfIsItsComparison` | the half is "a pure function of the compare" (`revud/src/direct/sync.ts:33-34`) | the key comes from the pull's detail, the files from a later listing by pull number (`sync.ts:170`); a push in between stores one head's files under another's key |
| `MCCacheSharedCap`, `MCSnapshotCache`: `SnapshotsAreHonest` | a capped half "must keep saying so" (`sync.ts:432-433`) | a pull sync holding a capped half writes it over the whole one a local review's envelope describes |
| `MCCacheDeleteRace`, `MCSnapshotCache`: `DeletedLeavesNoEnvelope` | deleting "leaves no orphan rows" (`src/docs/agent/MILESTONES.md:515`) | a sync in flight lands its envelope after the deletion |
| `MCLocalClonePins`, `MCLocalClone`: `PinsHaveAReview` | "and no pinned refs" (same line) | a sync in flight pins the review again after the deletion listed its refs, for good |
| `MCLocalFrozen`, `MCLocalReview`: `FrozenStays` | "the review freezes at the sync that found the PR" (`src/docs/agent/LOCAL_REVIEWS.md:330-331`) | a sync that entered before the archive mark rewrites the frozen snapshot, as open |
| `MCLocalReadOnly`, `MCLocalReview`: `ArchivedIsReadOnly` | "read-only whatever the caller aimed at" (`local-writes.ts:314-316`) | submit and reply ask before their await and not after it |
| `MCLocalCatchUp`, `MCLocalReview`: `AcknowledgedStays` | a write that landed while git was read "is not republished away" (`local-surface.ts:753-754`) | a failed catch-up writes back the snapshot it read before its await |
| `MCLocalDraft`, `MCLocalReview`: `TextLeavesByHandOrLands` | "The draft survives everything until it lands" (`src/README.md:92`) | text saved while a submit is in flight goes with the draft the submit deletes |
| `MCWrites`, `GithubWrites`, with `PostedOnce` for `PostedOncePerHead` | "Submit is idempotent under a retry-after-timeout" (`writes.ts:36-39`) | the retry only recognises a review of the head it sees; after a push the draft is posted again |
| `MCDraftsDeleted`, `DraftPersistence`: `DeletedStaysDeleted` | a stale timer "cannot resurrect a deleted draft" (`app/src/state/drafts.ts:111-113`) | a retried save already sent lands after the submit deleted the row |
| `MCDrafts` with `SyncsMidEdit = TRUE`: `TextSurvives` | "The editable text itself is never at risk" (`drafts.ts:17-19`) | a sync re-reads the draft, and the older row replaces an edit that waits for its save |
| `MCCollector` with the property `OnlyInFlightIsAccused` | "GitHub is fetched BEFORE the journal is read" (`broker/out-of-band-writes.ts:60-68`) | the collector pulls the journals first, and accuses a write journalled between the pull and the listing |
| `MCReconcileBypassed`, `MCReconcile`: `MovedHeadsAreReconciled` | "Submitting against a moved head routes through reconcile" (`src/README.md:92`) | the bar expects the tab's head, which a plain re-sync moves under the draft |
| `MCReconcileRecaptured`, `MCReconcile`: `RecapturedFromTheReport` | an anchor re-captured reads what the report classified against (`reconcile-plan.ts:113-114`) | it is captured from the compare the tab shows; only the head is compared with the report's |
| `MCClient` with `Retypes = TRUE`: `TypedTextIsKept` | "user-typed text is never lost" (`threads.ts:15-16`, `thread-card.tsx:162`) | it overwrites what was typed meanwhile, or is not put back |
| `MCClientRefused`, `ClientCache`: `RefusedMarksGo` | rolls back "to the pre-toggle state" (`viewed.ts:33-34`) | the second of two overlapping rollbacks restores the first refused mark |
| `MCClientRewinds`, `ClientCache`: `SnapshotNeverGoesBack` | "a snapshot changes only when the user syncs" (`queries.ts:92-93`) | a write begun before a sync and refused after it restores the snapshot of before |
| `MCFiles` with `Reopens = TRUE`: `TextIsKept` | "Text of canceled composers, restored when the same anchor reopens" (`files.tsx:317`) | shift-click on the open composer's own line puts the kept text over the typed one |
| `MCFiles` with the invariant `CapturedAsChosen` | none; see hazard `files.tsx:502` | the anchor is a number: after a sync the text captured is another line's |
| `MCFilesHead`, `MCFilesView`: `HeadIsOfItsComments` | "`headSha` is the commit every pending comment's anchor was captured against" (`state/drafts.ts:156`) | a comment made after a re-sync joins a draft that names the earlier head |

That two daemons' gates do not see each other is stated in `retention.ts:247-256` and is not a
finding; it is why `FoundBytesStay` is checked with one daemon. `MCClient` with
`EarlyToggles = TRUE` refutes `SettledShowsMarks`, of which the code says nothing.

## 5. What is proved

All theorems hold for every value of the constants that satisfies the assumptions of the module, which
TLC evaluates on its instances. These say that the constants are sets, functions and numbers of the
right kind (`CacheAssumption`, `LocalAssumption`, `WritesAssumption`, `RadiusAssumption`,
`FilesAssumption`); that request slots, texts and pull requests are finitely many (`LocalAssumption`,
`CacheAssumption`, `PollAssumption`); that no two owners are bound to one human
(`BindingAssumption`) and no owner has the name the detector's histories give to the bot's own work
and to people (`CollectorAssumption`); that a history's ancestry is reflexive and transitive
(`CloneAssumption`); and that git prints each changed path once and in the order of its records
(`QueueAssumption`, `SectionsAssumption`). The numbers bounding a run (`Max...`) are any naturals.

A theorem that needs more says so in its statement, as `ASSUME ... PROVE`. Each such assumption is a
row of the restrictions in section 3 (or the single daemon of `cache_bytes`), and each is needed: TLC
finds a counterexample when any one of them is dropped.

| Theorem | Statement | Argument |
|---|---|---|
| `SnapshotCacheProofs!TypeCorrect` | `Spec => []TypeOK` | `TInv` strengthens `TypeOK` by `Ready`: a request past a step holds what that step reads. Without it the key a sync writes under could be `None`. |
| `SnapshotCacheProofs!GateCorrect` | `Spec => []GateCountsSyncs` | the set of a daemon's syncs grows or shrinks by exactly the request that enters or leaves; `Crash` empties it. Finite cardinalities. |
| `SnapshotCacheProofs!EnvelopesKeepTheirHalves` | `Spec => []NoDanglingEnvelope` | `PutSnapshot` writes both rows at once and `DisposeHalves` recomputes what is live, so nothing about the gate is needed, which is why it survives several daemons. |
| `SnapshotCacheProofs!HalvesKeepTheirPartial`, `FoundBytesAreKept`, `SnapshotsSayWhatIsMissing` | `Restricted` implies `Spec => []HalvesSayWhatTheyAre`, `[]FoundBytesStay`, `[]SnapshotsAreHonest` | `HonestInv`, see below |
| `SnapshotCacheProofs!CacheKeepsItsPromise` | `Restricted` implies `Spec => PromiseSpec` | the refinement, see below |
| `LocalReviewProofs!SnapshotsBelong` | `Spec => []EnvelopeBelongs` | `IInv`: every id named by a row, an envelope or a request is one the mark has passed, so a fresh id is named by nothing; and what a sync in flight will write names the pair of its review. |
| `LocalReviewProofs!ArchiveNumberIsKept` | `Spec => ArchiveNumberStays` | from `IInv`: only `MarkArchived` writes the number, where there is none, and no deleted id comes back. |
| `LocalReviewProofs!SnapshotsAreOnDisk` | `Spec => []ShownIsOnDisk` | `DInv`: thread ids lie below the mark, so a submit replaces no thread; a reply writes the snapshot's copy to both tables, or to the rows alone; a request that carries a snapshot serves an archived review, which the property leaves out. |
| `LocalReviewProofs!LiveReviewsKeepTheirWrites`, `AcknowledgedStaysTheorem` | `Spec => []LiveKept`; `Pulls = {}` implies `Spec => []AcknowledgedStays` | `AckInv` on top of `DInv`: a sync rebuilds the envelope from the rows after its last await and merges the authors of the envelope it replaces. `LiveKept` is the property for reviews nothing has archived, and holds with any pull requests. |
| `LocalReviewProofs!TextLeavesByHandOrLandsTheorem` | `~EditsMidSubmit` implies `Spec => TextLeavesByHandOrLands` | what a submit in flight sends is the draft's row (`SentIsDraft`), and its last write, the only one to take the row, follows those that open its threads |
| `GithubWritesProofs!TypeCorrect`, `DraftIsNotLost`, `WritesAreJournalled` | `Spec => []TypeOK`, `Spec => DraftGoesWithItsReview`, `Spec => []ConfirmedIsJournalled` | a request past the point where GitHub answered it names a review of the list, and that review says what its draft says; the list only grows |
| `GithubWritesProofs!PostedOnceTheorem` | `SerialSubmits` implies `Spec => []PostedOncePerHead` | `OnceInv`, see below |
| `ClientProofs!TextIsNeverAtRisk`, `BehindIsNeverSilent` | `Orderly` implies `DraftSpec => []TextSurvives`, `DraftSpec => []BehindIsTold` | `DInv`, see below |
| `ClientProofs!TypedTextStays` | `~Retypes` implies `CacheSpec => []TypedTextIsKept` | `TextInv`, see below |
| `ClientProofs!ThreadIsShown` | `AnsweredInOrder` implies `CacheSpec => []SettledShowsGithub` | `ThreadInv`, see below |
| `ClientProofs!MarksAreShown` | `AnsweredInOrder` and `~EarlyToggles` imply `CacheSpec => []SettledShowsMarks` | `MarksInv`, see below |
| `ClientProofs!CommentTextIsKept` | `~Reopens` implies `FilesSpec => []TextIsKept` | `FilesInv`: a text kept for the anchor of the open composer, if it still counts, is the one in it (`KeptIsOpen`); so displacing or closing a composer writes over nothing, and a submit forgets nothing but what it sends. Without it, a composer closed twice at one anchor could lose the first text. |
| `PollLoopProofs!TypeCorrect`, `SameTagIsSameMeta`, `OutagesAreTold`, `KeysFitTheirPulls`, `TheListMovesOn` | `Spec => []TypeOK`, `[]SameTagSameMeta`, `[]OutageIsTold`, `[]KeyFitsPull`, `ListMovesOn` | one tick at a time: the list a tick read lies between the one served and GitHub's, and what it carries over fits the revisions it carries. A tag holds the annotations of the items it goes out with; the failure streak is the number of ticks since a good one. |
| `CollectorProofs!TypeCorrect`, `RowsAreTheirHumans`, `TheJournalOnlyGrows`, `BypassesAreFound`, `LandedAreCleared` | `Spec => []TypeOK`, `[]RowsBelongToTheirHuman`, `AttributionStays`, `BypassIsFound`, `LandedIsCleared` | `CInv`, see below |
| `ReconcileProofs!BestCandidateRanks`, `ClassificationIsSound` | what the drift search picks is outranked by no line of the window; each verdict says what it claims | the ranking is a total preorder on a finite, non-empty set; then by cases on the verdict |
| `ReconcileProofs!PositionsAreLines`, `ReconciledLand`, `UntouchedStaysClean`, `LostIsGone`, `AppliedDraftCoheres` | `Spec => []TypeOK`, `[]ReconciledCommentsLand`, `[]UntouchedIsClean`, `[]LostMeansGone`, `AppliedDraftIsCoherent` | see below |
| `LocalCloneProofs!PinnedSyncIsWhole`, `PinnedSnapshotStaysReadable` | `Spec => []PinnedIsWhole`, `Spec => []PinnedStaysReadable` | see below |
| `LocalCloneProofs!SnapshotsAreOfTheirRange` | `Spec => []SnapshotIsOfItsRange` | see below |

*Honest snapshots.* `Restricted` is one daemon, no push between a pull sync's detail and its listing,
and no local review of a comparison GitHub caps. Then every half is what its key names, whoever wrote
it (`HalvesTrue`), so that the snapshot transaction writes back what is there. `SweepsAlone` says
that while a sweep is between its propose and its dispose no sync of that daemon is in flight: the
gate, for one daemon. With it, what a sync has stored or found is still there when its envelope names
it (`JobsTrue`: at each step, the index of the comparison is covered by what is to do, fetched,
missing or stored), and `EnvelopesTrue` follows when the envelope lands.

*The promise.* Only four actions move what a reader sees, and `PutSnapshot` is the hard one: it
rewrites a half other reviews may show. By `HonestInv` it rewrites it as it was
(`HalvesReadTheSame`), so the step is a publication of its own review and of no other. A deletion is
a removal of a local review; a sweep removes no half an envelope names, and everything else stutters.

*Posted once.* GitHub's list of reviews only grows, so what a request knows of a review stays true.
`OnceInv` says that a request past the retry check has every review equal to its own among its
candidates, rejects only those that differ, and so posts when there is none; submits served one at a
time keep the list free of it until the post lands. A head that moves gives the retry another commit,
which is why the property is per head.

*Drafts.* `Orderly` is requests served in the order sent, no edit while a submit, discard or deletion
is out, and no sync under an unsaved edit. Versions only grow, so among saves in order a later one
carries no less and is served no earlier (`SavesAreInOrder`). What is pending is the newest version:
it is what the page shows, it is on its way, about to be, or reported, and if a save of it was served
the row has it (`PendingIsNewest`). With nothing pending the row has what the page shows, and no save
still to be served carries anything else (`CleanIsStored`, `ClosedIsStored` once the page is gone);
without the second half a late save could take the row back. `OneWrite` and `ReadIsQuiet` keep
submits, discards, deletions and re-reads apart. TLC checked the invariant on the instance of the run
and on a larger one (11.8 million states) before it was proved.

*The query cache.* The difficulty is that every write writes the entry, and a rollback knows only the
copy it took. `TextInv`: no text is both in the composer and in a request, or in two requests, and it
is posted by the time GitHub has taken its request (`TextInOnePlace`); while a reply is out no second
one is, and the composer is empty (`OneReplyOut`), so a refusal can give the text back without writing
over another. `ThreadInv` says at every moment, not only when all is quiet, what the entry shows
(`ShownIsThread`): each reply as often as GitHub has it, one less while its answer is out; as pending
exactly those that are out; the resolution and the hearts once none is out that changes them.
`ResolvesInOrder` and `LastResolveStands` say that of the resolutions GitHub has taken and that are
not settled the youngest is the one that stands, so the last answer confirms the right one.
`LoneWrite` says that a write nothing crossed is alone and its copy is the thread GitHub has, so
putting it back is right, and `LoneSync` the same of what a sync no write crossed has read. Where a
rollback, a sync or a reload crosses another write, `tangled` is set and nothing is claimed until an
uncrossed sync. `MarksInv` does the same for the marks, whose answers carry the whole map:
`LastAnswerIsMarks` for the answer that comes last, `LoneToggle` for the copy of a toggle that is
alone, `ReadIsLast` because a read out of turn would bring an older map. TLC checked the three
invariants on the instance of the run before they were proved.

*The collector.* GitHub numbers what it makes once per space, so a journalled id names one artifact,
and `JournalsNameTheirWrites` that it is the one its workspace made. `KeptIsInTheJournal` and
`PulledIsJournalled` tie the host's journal and a payload under way to the workspace's journal,
`TickShape` and `Listed` tie what a tick has read to what was there when it began. What the journal
vouches for was then made through revu (`VouchedIsMediated`), and a bypass is vouched for by nothing.

*Reconcile.* Commits and bases are never rewritten, so what a report says of a compare stays true of
it. `ReportIsTrue` says so of every row; it holds when the report is made because the pre-flight
refuses a snapshot with a missing blob. `ReportCoversDraft` ties the rows to the draft while a dialog
is open, and needs `DialogsHaveADraft`. `RequestReads` carries what Apply promised to the moment
GitHub answers, which accepts the review only if the head the request names is still the branch's;
that gives `ReconciledCommentsLand`. The other properties follow from the conjunction with
`ClassificationIsSound`.

*Clone.* `OdbIsClosed` (a collection keeps whatever the commits it keeps reach) and `PinsHold` (no
ref dangles) make a pin worth the whole closure of its commit. `SyncsArePinned` and
`EnvelopesArePinned` say that a sync, then an envelope, marked pinned has both its refs as long as
its review has a row; `DoomedAreRemoved` is why a deletion in progress cannot take them; and
`RangesAreKnown` that the reads are of the range that was pinned. The join is a theorem about the
three streams: the span that is counted off the records before a path is the place at which git
printed that path's sections (`StreamsAtPlace`), so `JoinIsTheChangeSet` for queues of any length,
and `RangeInv` carries it through the commands of a sync.

Only model-checked: `EachLineOnce`, `NothingWrittenIsHidden` and `CapturedAsShown` of `FilesView`, which
say what the folds of `DiffRows` compute over patches and ranges: that needs induction over data,
which the proof system does not reach. `EveryRequestEnds`, `SaveSettles` and `PendingIsNotForever` are
liveness properties under fairness, out of its reach as well. Every module defines a `TypeOK`; those
of `DraftPersistence`, `ClientCache`, `FilesView` and `LocalReview` were checked on their instances
once and are in no listed run (`DInv`, `CacheTyped`, `FilesInv` and `IInv` carry what typing their
proofs need), the others are proved.

## 6. Not modelled

- *Wholly.* The in-browser mock and its fixtures, the documentation site, scripts and end-to-end
  tests: not part of the running system.
- *Presentation.* Highlighting, word-level emphasis, scrolling and virtualisation, focus, the file
  tree, the palette, the author's queue. Seen in passing and not modelled: the text of a comment
  being edited (`pending-card.tsx`) and of a reply (`thread-card.tsx`) lives in components the
  virtualised list unmounts when they are scrolled away.
- *Pull requests.* Pagination and rate accounting; two open questions the models leave out with a
  comment: a LEFT comment when the base moves under the same head (`writes.ts:319` compares heads
  only), and a base tree GitHub lists only in part (`sync.ts:196`), which makes LEFT comments read as
  deleted.
- *Local reviews.* Renames, a dirty worktree, the default branch, the order of the log, git's grace
  period, malformed streams, two daemons on one clone; viewed marks, summaries' text.
  Seen in passing, since the router is not modelled: `direct-router.ts:85-88` says that deleting an
  id with no review answers `{ ok: true }` so that a lost answer can be repeated, while
  `direct-api.ts:970-975` refuses it as not found, as `direct-router.ts:698-703` says.
- *Reconcile.* One file and one comment; binary blobs; documents saved before the first line's text
  was kept; a clean verdict's start line, which the code does not check either.
- *Client.* One card, one sync at a time; failing reads of the marks; other people's comments; other
  tabs, except as they sync.
- *Collector.* One pull request; rows of one write are recorded together; malformed payloads; edits
  as a signal; the CSV export.
- *Files tab.* One file; each text is typed afresh; leaving the page drops what a composer held, by
  the component's design.
- *Store.* Preferences and migrations.

## 7. Plan

Done, in the order built: `SnapshotCache`, `SnapshotPromise`, `LocalReview` and their first proofs;
`GithubWrites`, `DraftPersistence`, `PollLoop`, `HostStore`, `OutOfBandWrites`, `Collector`;
`Anchor`, `Reconcile` and their proofs; `ClientCache`; `LocalDiff`, `LocalClone` and their proofs;
`DiffRows`, `FilesView`; then the proofs of `GithubWrites`, `DraftPersistence`, `PollLoop` and `Collector`, the rest of
those of `SnapshotCache`, `LocalReview` and `LocalClone`, and the refinement of `SnapshotPromise`; and
those of `ClientCache` and of the texts of `FilesView`, in `ClientProofs` with the draft's.

Left, in order of worth: the gapless covering of a file by `BuildRows` for files of any length, and
with it `NothingWrittenIsHidden` and `CapturedAsShown`; two daemons on one clone; the deletion of a
local review as the router and `direct-api.ts` answer it.
