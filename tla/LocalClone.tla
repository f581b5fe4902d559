----------------------------- MODULE LocalClone -----------------------------
(*****************************************************************************)
(* Local reviews over the one git clone they are read from.  People commit,  *)
(* amend, rebase and delete branches; git collects what no ref reaches; and  *)
(* a sync reads a pair of branches in ten commands, any of which may come    *)
(* after any of that.  The pins a sync writes are what keeps the objects it  *)
(* reads, and the removal of the review takes them away.                     *)
(*                                                                           *)
(* A collection takes everything unreachable at once: git's grace period and *)
(* its reflogs only make it keep more.  What the store does with a half, an  *)
(* envelope and a blob is SnapshotCache's subject, and threads and archives  *)
(* are LocalReview's: here a review has its row, its envelope and its pins.  *)
(*****************************************************************************)
EXTENDS FiniteSets, LocalDiff

CONSTANTS Ancestors,  \* commit -> the commits it reaches, itself included
          Branches,
          Goes,       \* branch -> the commits it may be moved to
          Beginnings, \* where the branches may be at first
          NoRef,      \* where a branch that does not exist is
          Reviews,
          BaseOf, HeadOf,  \* review -> its two branches
          Syncs,      \* the syncs that may run at once
          ReviewOf,   \* sync -> the review it is of
          MaxMoves,   \* bound: times a branch is moved or deleted
          MaxSyncs,   \* bound: syncs started
          MaxFaults   \* bound: pins and drops that fail, and crashes

ASSUME CloneAssumption ==
  /\ Ancestors \in [Commits -> SUBSET Commits]
  /\ \A c \in Commits : c \in Ancestors[c]
  /\ \A c \in Commits : \A a \in Ancestors[c] : Ancestors[a] \subseteq Ancestors[c]
  /\ Goes \in [Branches -> SUBSET Commits]
  /\ Beginnings \subseteq [Branches -> Commits]
  /\ NoRef \notin Commits
  /\ BaseOf \in [Reviews -> Branches] /\ HeadOf \in [Reviews -> Branches]
  /\ ReviewOf \in [Syncs -> Reviews]
  /\ MaxMoves \in Nat /\ MaxSyncs \in Nat /\ MaxFaults \in Nat

VARIABLES tip,      \* branch -> the commit it is at
          odb,      \* the commits and blobs in the clone
          pins,     \* the refs under refs/revu/reviews
          live,     \* the reviews that have a row
          envelope, \* review -> its stored snapshot
          held,     \* the blobs the store has
          sync,     \* where each sync is: [step, tips, range, pinned]
          reads,    \* what it has read: [records, counts, files, commits, missing]
          deletion, \* review -> how far its removal has come
          spent     \* [moves, syncs, faults] so far

clone == <<tip, odb>>
store == <<live, envelope, held>>
syncing == <<sync, reads>>
vars == <<clone, pins, store, syncing, deletion, spent>>

\* What is reachable from a commit: its history, and every blob in it.
BlobsIn == [c \in Commits |->
  {entry.object : entry \in {e \in {Tree[c][p] : p \in Paths} : e.mode \in {"file", "link"}}}]
Closure == [c \in Commits |-> Ancestors[c] \cup UNION {BlobsIn[a] : a \in Ancestors[c]}]

\* A pin is named after its review and compare, and holds one side of it.
Pin(r, pair, side) == [review |-> r, key |-> pair, side |-> side]
PinnedCommit(pin) == IF pin.side = "base" THEN pin.key.base ELSE pin.key.head
PinBaseAlone(r, pair) == {Pin(r, pair, "base")}
PinRefsFor(r, pair) == {Pin(r, pair, "base"), Pin(r, pair, "head")}

NoCommits == [base |-> NoRef, head |-> NoRef]
NoEnvelope == [synced |-> FALSE]
Idle == [step |-> "idle", tips |-> NoCommits, range |-> NoCommits, pinned |-> FALSE]
NothingRead == [records |-> NoCommits, counts |-> NoCommits, files |-> <<>>,
                commits |-> {}, missing |-> {}]
NoDeletion == [step |-> "none", doomed |-> {}]

Init ==
  /\ tip \in Beginnings
  /\ odb = UNION {Closure[tip[b]] : b \in Branches}
  /\ pins = {}
  /\ live = Reviews
  /\ envelope = [r \in Reviews |-> NoEnvelope]
  /\ held = {}
  /\ sync = [s \in Syncs |-> Idle]
  /\ reads = [s \in Syncs |-> NothingRead]
  /\ deletion = [r \in Reviews |-> NoDeletion]
  /\ spent = [moves |-> 0, syncs |-> 0, faults |-> 0]

-----------------------------------------------------------------------------
(* The clone, in the hands of its owner and of git *)

MoveBranch(b, c) ==
  /\ spent.moves < MaxMoves
  /\ c \in Goes[b] \ {tip[b]}
  /\ tip' = [tip EXCEPT ![b] = c]
  /\ odb' = odb \cup Closure[c]
  /\ spent' = [spent EXCEPT !.moves = @ + 1]
  /\ UNCHANGED <<pins, store, syncing, deletion>>

DeleteBranch(b) ==
  /\ spent.moves < MaxMoves
  /\ tip[b] # NoRef
  /\ tip' = [tip EXCEPT ![b] = NoRef]
  /\ spent' = [spent EXCEPT !.moves = @ + 1]
  /\ UNCHANGED <<odb, pins, store, syncing, deletion>>

Roots == {tip[b] : b \in {a \in Branches : tip[a] # NoRef}} \cup {PinnedCommit(pin) : pin \in pins}

Collect ==
  /\ odb' = odb \cap UNION {Closure[c] : c \in Roots}
  /\ odb' # odb
  /\ UNCHANGED <<tip, pins, store, syncing, deletion, spent>>

-----------------------------------------------------------------------------
(* A sync: each step is one command, or the writes that follow the last *)

StepAfter == [base |-> "head", head |-> "mergeBase", mergeBase |-> "pin", pin |-> "records",
              records |-> "counts", counts |-> "patch", patch |-> "log",
              log |-> "blobs", blobs |-> "store"]
Refusals == {"ref_not_found", "same_ref", "unrelated_histories",
             "diff_failed", "malformed_diff", "commit_log_failed"}

At(s, step) == sync[s].step = step
Advanced(s) == [sync[s] EXCEPT !.step = StepAfter[@]]
Refused(s, reason) == [sync[s] EXCEPT !.step = reason]
Become(s, state) == sync' = [sync EXCEPT ![s] = state]

Start(s) ==
  /\ sync[s].step \in Refusals \cup {"idle"}
  /\ ReviewOf[s] \in live
  /\ spent.syncs < MaxSyncs
  /\ spent' = [spent EXCEPT !.syncs = @ + 1]
  /\ Become(s, [Idle EXCEPT !.step = "base"])
  /\ reads' = [reads EXCEPT ![s] = NothingRead]
  /\ UNCHANGED <<clone, pins, store, deletion>>

\* `git rev-parse --verify` of a branch: the base first, then the head.
ResolveBase(s) ==
  LET base == tip[BaseOf[ReviewOf[s]]]
  IN  /\ At(s, "base")
      /\ Become(s, IF base = NoRef THEN Refused(s, "ref_not_found")
                   ELSE [Advanced(s) EXCEPT !.tips = [base |-> base, head |-> base]])
      /\ UNCHANGED <<clone, pins, store, reads, deletion, spent>>

ResolveHead(s) ==
  LET head == tip[HeadOf[ReviewOf[s]]]
      base == sync[s].tips.base
  IN  /\ At(s, "head")
      /\ Become(s, IF head = NoRef THEN Refused(s, "ref_not_found")
                   ELSE IF head = base THEN Refused(s, "same_ref")
                   ELSE [Advanced(s) EXCEPT !.tips = [base |-> base, head |-> head]])
      /\ UNCHANGED <<clone, pins, store, reads, deletion, spent>>

Common(tips) == Ancestors[tips.base] \cap Ancestors[tips.head]
BestCommon(tips) ==
  {c \in Common(tips) : \A d \in Common(tips) : c \in Ancestors[d] => d = c}

\* Of the two commits that were resolved, not of the branches.  Where nothing
\* is in common, a clone that is shallow is told from unrelated histories.
MergeBase(s) ==
  LET tips == sync[s].tips
  IN  /\ At(s, "mergeBase")
      /\ IF ~({tips.base, tips.head} \subseteq odb)
           THEN Become(s, Refused(s, "ref_not_found"))
         ELSE IF Common(tips) = {}
           THEN Become(s, Refused(s, "unrelated_histories"))
         ELSE \E c \in BestCommon(tips) :
                Become(s, [Advanced(s) EXCEPT !.range = [base |-> c, head |-> tips.head]])
      /\ UNCHANGED <<clone, pins, store, reads, deletion, spent>>

\* Both refs are one transaction.  Its outcome is carried, never raised.
PinSnapshotObjects(s) ==
  LET range == sync[s].range
  IN  /\ At(s, "pin")
      /\ {range.base, range.head} \subseteq odb
      /\ pins' = pins \cup PinRefsFor(ReviewOf[s], range)
      /\ Become(s, [Advanced(s) EXCEPT !.pinned = TRUE])
      /\ UNCHANGED <<clone, store, reads, deletion, spent>>

PinFails(s) ==
  LET range == sync[s].range
      gone == ~({range.base, range.head} \subseteq odb)
  IN  /\ At(s, "pin")
      /\ gone \/ spent.faults < MaxFaults
      /\ spent' = IF gone THEN spent ELSE [spent EXCEPT !.faults = @ + 1]
      /\ Become(s, Advanced(s))
      /\ UNCHANGED <<clone, pins, store, reads, deletion>>

\* What a command given two commits opens; the records need their trees alone.
OpensTrees(pair) == {pair.base, pair.head}
OpensBlobs(pair) == OpensTrees(pair) \cup BlobsIn[pair.base] \cup BlobsIn[pair.head]

ReadLocalDiffFiles(s) ==
  LET range == sync[s].range
  IN  /\ At(s, "records")
      /\ Become(s, IF OpensTrees(range) \subseteq odb THEN Advanced(s) ELSE Refused(s, "diff_failed"))
      /\ reads' = [reads EXCEPT ![s].records = range]
      /\ UNCHANGED <<clone, pins, store, deletion, spent>>

ReadLocalNumstat(s) ==
  LET range == sync[s].range
  IN  /\ At(s, "counts")
      /\ Become(s, IF OpensBlobs(range) \subseteq odb THEN Advanced(s) ELSE Refused(s, "diff_failed"))
      /\ reads' = [reads EXCEPT ![s].counts = range]
      /\ UNCHANGED <<clone, pins, store, deletion, spent>>

\* The last of the three; the join is in the same step.
ReadLocalPatchSections(s) ==
  LET range == sync[s].range
      records == Records[reads[s].records]
      counts == Counts[reads[s].counts]
      joins == JoinsUp(records, counts, Sections[range])
  IN  /\ At(s, "patch")
      /\ Become(s, IF ~(OpensBlobs(range) \subseteq odb) THEN Refused(s, "diff_failed")
                   ELSE IF ~joins THEN Refused(s, "malformed_diff")
                   ELSE Advanced(s))
      /\ reads' = IF joins
                    THEN [reads EXCEPT ![s].files = LocalChangeSet(records, counts, Sections[range])]
                    ELSE reads
      /\ UNCHANGED <<clone, pins, store, deletion, spent>>

Log(range) == Ancestors[range.head] \ Ancestors[range.base]

ReadLocalCommits(s) ==
  LET log == Log(sync[s].range)
  IN  /\ At(s, "log")
      /\ Become(s, IF log \cup OpensTrees(sync[s].range) \subseteq odb
                     THEN Advanced(s) ELSE Refused(s, "commit_log_failed"))
      /\ reads' = [reads EXCEPT ![s].commits = log]
      /\ UNCHANGED <<clone, pins, store, deletion, spent>>

\* A blob the store lacks is read out of the clone, or is missing.
ProvisionBlobs(s) ==
  LET wanted == Indexed(Records[reads[s].records])
  IN  /\ At(s, "blobs")
      /\ Become(s, Advanced(s))
      /\ held' = held \cup (wanted \cap odb)
      /\ reads' = [reads EXCEPT ![s].missing = wanted \ (held \cup odb)]
      /\ UNCHANGED <<clone, pins, live, envelope, deletion, spent>>

\* The envelope is written and the row stamped with nothing in between.  A
\* review that was removed meanwhile gets its envelope all the same.
PutLocalSnapshot(s) ==
  /\ At(s, "store")
  /\ envelope' = [envelope EXCEPT ![ReviewOf[s]] =
       [synced |-> TRUE, tips |-> sync[s].tips, range |-> sync[s].range,
        pinned |-> sync[s].pinned, files |-> reads[s].files,
        commits |-> reads[s].commits, missing |-> reads[s].missing]]
  /\ Become(s, Idle)
  /\ reads' = [reads EXCEPT ![s] = NothingRead]
  /\ UNCHANGED <<clone, pins, live, held, deletion, spent>>

-----------------------------------------------------------------------------
(* The removal of a review: its rows, then its refs.  The sweep that ends it *)
(* takes halves alone, which are not kept here.                              *)

DeleteLocalReview(r) ==
  /\ r \in live
  /\ live' = live \ {r}
  /\ envelope' = [envelope EXCEPT ![r] = NoEnvelope]
  /\ deletion' = [deletion EXCEPT ![r] = [step |-> "list", doomed |-> {}]]
  /\ UNCHANGED <<clone, pins, held, syncing, spent>>

\* Refs are discovered by the review's own prefix.
PinsOfEveryReview(r) == pins
PinsOf(r) == {pin \in pins : pin.review = r}

ListPins(r) ==
  /\ deletion[r].step = "list"
  /\ deletion' = [deletion EXCEPT ![r] = [step |-> "drop", doomed |-> PinsOf(r)]]
  /\ UNCHANGED <<clone, pins, store, syncing, spent>>

\* One command per ref.
DropPin(r) ==
  /\ deletion[r].step = "drop"
  /\ \E pin \in deletion[r].doomed :
       /\ pins' = pins \ {pin}
       /\ deletion' = [deletion EXCEPT ![r].doomed = @ \ {pin}]
  /\ UNCHANGED <<clone, store, syncing, spent>>

\* The listing, or one of the drops: what is left stays, with a warning.
DropFails(r) ==
  /\ deletion[r].step = "list" \/ deletion[r].doomed # {}
  /\ spent.faults < MaxFaults
  /\ spent' = [spent EXCEPT !.faults = @ + 1]
  /\ deletion' = [deletion EXCEPT ![r] = [step |-> "drop", doomed |-> {}]]
  /\ UNCHANGED <<clone, pins, store, syncing>>

\* The daemon ends; rows and refs are what the next one finds.
Crash ==
  /\ spent.faults < MaxFaults
  /\ spent' = [spent EXCEPT !.faults = @ + 1]
  /\ sync' = [s \in Syncs |-> Idle]
  /\ reads' = [s \in Syncs |-> NothingRead]
  /\ deletion' = [r \in Reviews |-> NoDeletion]
  /\ UNCHANGED <<clone, pins, store>>

SyncStep(s) ==
  \/ Start(s)
  \/ ResolveBase(s)
  \/ ResolveHead(s)
  \/ MergeBase(s)
  \/ PinSnapshotObjects(s)
  \/ PinFails(s)
  \/ ReadLocalDiffFiles(s)
  \/ ReadLocalNumstat(s)
  \/ ReadLocalPatchSections(s)
  \/ ReadLocalCommits(s)
  \/ ProvisionBlobs(s)
  \/ PutLocalSnapshot(s)

DeletionStep(r) ==
  \/ DeleteLocalReview(r)
  \/ ListPins(r)
  \/ DropPin(r)
  \/ DropFails(r)

Next ==
  \/ \E b \in Branches, c \in Commits : MoveBranch(b, c)
  \/ \E b \in Branches : DeleteBranch(b)
  \/ Collect
  \/ \E s \in Syncs : SyncStep(s)
  \/ \E r \in Reviews : DeletionStep(r)
  \/ Crash

Spec == Init /\ [][Next]_vars

-----------------------------------------------------------------------------
(* What must hold *)

Steps == {"idle", "base", "head", "mergeBase", "pin", "records", "counts", "patch",
          "log", "blobs", "store"} \cup Refusals
CommitsOrNone == [base : Commits \cup {NoRef}, head : Commits \cup {NoRef}]
PinNames == [review : Reviews, key : Pairs, side : {"base", "head"}]

TypeOK ==
  /\ tip \in [Branches -> Commits \cup {NoRef}]
  /\ odb \subseteq Commits \cup Blobs
  /\ pins \subseteq PinNames
  /\ live \subseteq Reviews
  /\ DOMAIN envelope = Reviews
  /\ sync \in [Syncs -> [step : Steps, tips : CommitsOrNone, range : CommitsOrNone,
                         pinned : BOOLEAN]]
  /\ DOMAIN reads = Syncs
  /\ \A s \in Syncs : DOMAIN reads[s] = DOMAIN NothingRead
  /\ deletion \in [Reviews -> [step : {"none", "list", "drop"}, doomed : SUBSET PinNames]]

\* A stored snapshot is of one range throughout: a best common ancestor of the
\* two tips that were resolved, every path that differs with its own counts and
\* its own patch, and the commits that lead from one to the other.  And a clone
\* that answers every read is never called malformed.
SnapshotIsOfItsRange ==
  /\ \A r \in Reviews : envelope[r] # NoEnvelope =>
       LET snapshot == envelope[r]
       IN  /\ snapshot.range.base \in BestCommon(snapshot.tips)
           /\ snapshot.range.head = snapshot.tips.head
           /\ IsChangeSetOf(snapshot.files, snapshot.range)
           /\ snapshot.commits = Log(snapshot.range)
  /\ \A s \in Syncs : ~At(s, "malformed_diff")

\* The sync of a review that was pinned reads it whole, whatever happens to the
\* branches: no read fails on it, and no blob is missing.
PinnedIsWhole ==
  /\ \A s \in Syncs : sync[s].pinned /\ ReviewOf[s] \in live =>
       sync[s].step \notin {"diff_failed", "commit_log_failed"}
  /\ \A r \in live : envelope[r] # NoEnvelope =>
       (envelope[r].pinned => envelope[r].missing = {})

\* And as long as the review is not removed, its snapshot can be read again.
PinnedStaysReadable ==
  \A r \in live : envelope[r] # NoEnvelope =>
    (envelope[r].pinned =>
       Closure[envelope[r].range.base] \cup Closure[envelope[r].range.head] \subseteq odb)

\* "deleting a local review leaves ... no pinned refs" (MILESTONES.md:515).
PinsHaveAReview ==
  \A pin \in pins :
    pin.review \in live \/ deletion[pin.review].step = "list" \/ deletion[pin.review].doomed # {}
=============================================================================
