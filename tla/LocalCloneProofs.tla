-------------------------- MODULE LocalCloneProofs --------------------------
(***************************************************************************)
(* What a pin is worth, for any history, any branches and any number of    *)
(* syncs: the sync of a review that was pinned fails no read and misses no *)
(* blob, and its snapshot stays readable until the review is removed.      *)
(***************************************************************************)
EXTENDS LocalClone, TLAPS

\* Whatever is in the clone is there with everything it reaches.
OdbIsClosed == \A c \in Commits : c \in odb => Closure[c] \subseteq odb

\* A ref never dangles.
PinsHold == \A pin \in pins : PinnedCommit(pin) \in odb

\* Each read is given the range that was resolved before it.
RangesAreKnown ==
  \A s \in Syncs :
    /\ sync[s].step \in {"head", "mergeBase"} => sync[s].tips \in Pairs
    /\ sync[s].step \in {"pin", "records", "counts", "patch", "log", "blobs", "store"} =>
         sync[s].range \in Pairs
    /\ sync[s].step \in {"counts", "patch", "log", "blobs"} =>
         reads[s].records = sync[s].range
    /\ sync[s].step \in {"idle", "base", "head", "mergeBase", "pin"} => ~sync[s].pinned

\* A sync that says it is pinned has its pins, unless its review is removed.
SyncsArePinned ==
  \A s \in Syncs : sync[s].pinned /\ ReviewOf[s] \in live =>
    /\ sync[s].range \in Pairs
    /\ PinRefsFor(ReviewOf[s], sync[s].range) \subseteq pins
    /\ sync[s].step \notin {"diff_failed", "commit_log_failed"}
    /\ sync[s].step = "store" => reads[s].missing = {}

EnvelopesArePinned ==
  \A r \in live : envelope[r] # NoEnvelope =>
    (envelope[r].pinned =>
       /\ envelope[r].range \in Pairs
       /\ PinRefsFor(r, envelope[r].range) \subseteq pins
       /\ envelope[r].missing = {})

\* Only the pins of a review that has no row are being dropped.
DoomedAreRemoved ==
  /\ \A r \in live : deletion[r] = NoDeletion
  /\ \A r \in Reviews : \A pin \in deletion[r].doomed : pin.review = r

Inv ==
  /\ TypeOK
  /\ OdbIsClosed
  /\ PinsHold
  /\ RangesAreKnown
  /\ SyncsArePinned
  /\ EnvelopesArePinned
  /\ DoomedAreRemoved

-----------------------------------------------------------------------------
(* The objects of a history *)

\* A commit reaches itself, its own blobs, and whatever its ancestors reach.
LEMMA ClosureFacts ==
  ASSUME NEW c \in Commits
  PROVE  /\ c \in Closure[c]
         /\ BlobsIn[c] \subseteq Closure[c]
         /\ Ancestors[c] \subseteq Closure[c]
         /\ BlobsIn[c] \subseteq Blobs
         /\ Closure[c] \subseteq Commits \cup Blobs
         /\ \A a \in Ancestors[c] : Closure[a] \subseteq Closure[c]
         /\ \A a \in Commits : a \in Closure[c] => a \in Ancestors[c]
<1>1. Ancestors[c] \subseteq Commits /\ c \in Ancestors[c]
  BY CloneAssumption
<1>2. \A a \in Commits : BlobsIn[a] \subseteq Blobs
  BY QueueAssumption DEF BlobsIn, Entries, Nothing
<1>3. \A a \in Commits : Closure[a] = Ancestors[a] \cup UNION {BlobsIn[b] : b \in Ancestors[a]}
  BY DEF Closure
<1>4. \A a \in Commits : a \in Closure[c] => a \in Ancestors[c]
  <2>1. SUFFICES ASSUME NEW a \in Commits, NEW b \in Ancestors[c], a \in BlobsIn[b]
                 PROVE  FALSE
    BY <1>3
  <2>2. a \in Blobs
    BY <1>1, <1>2, <2>1
  <2>3. QED
    BY <2>2, QueueAssumption
<1>5. \A a \in Ancestors[c] : Ancestors[a] \subseteq Ancestors[c] /\ a \in Commits
  BY <1>1, CloneAssumption
<1>6. \A a \in Ancestors[c] : Closure[a] \subseteq Closure[c]
  BY <1>3, <1>5
<1>7. QED
  BY <1>1, <1>2, <1>3, <1>4, <1>6

\* The objects the blob index names are blobs of the two commits compared.
LEMMA IndexedAreTheirs ==
  ASSUME NEW pair \in Pairs
  PROVE  Indexed(Records[pair]) \subseteq BlobsIn[pair.base] \cup BlobsIn[pair.head]
<1>1. pair.base \in Commits /\ pair.head \in Commits
  BY DEF Pairs
<1>2. Changed[pair] \in Seq(Paths)
  BY QueueAssumption
<1>3. SUFFICES ASSUME NEW i \in DOMAIN Records[pair], ~Skipped(Records[pair][i]),
                      NEW o \in {Records[pair][i].src.object, Records[pair][i].dst.object} \ {"none"}
               PROVE  o \in BlobsIn[pair.base] \cup BlobsIn[pair.head]
  BY DEF Indexed
<1> DEFINE path == Changed[pair][i]
           before == Tree[pair.base][path]
           after == Tree[pair.head][path]
<1>4. i \in DOMAIN Changed[pair] /\ path \in Paths
  BY <1>2 DEF Records
<1>5. Records[pair][i].src = before /\ Records[pair][i].dst = after
  BY <1>4 DEF Records, Before, After
<1>6. before \in Entries /\ after \in Entries
  BY <1>1, <1>4, QueueAssumption
<1>7. before.mode \notin {"gitlink", "link"} /\ after.mode \notin {"gitlink", "link"}
  BY <1>3, <1>5 DEF Skipped
<1>8. CASE o = before.object
  <2>1. before.mode = "file"
    BY <1>3, <1>6, <1>7, <1>8 DEF Entries, Nothing
  <2>2. QED
    BY <1>1, <1>4, <1>8, <2>1 DEF BlobsIn
<1>9. CASE o = after.object
  <2>1. after.mode = "file"
    BY <1>3, <1>6, <1>7, <1>9 DEF Entries, Nothing
  <2>2. QED
    BY <1>1, <1>4, <1>9, <2>1 DEF BlobsIn
<1>10. QED
  BY <1>3, <1>5, <1>8, <1>9

\* What is pinned is there: the range of a pinned compare, with all it reaches.
LEMMA PinnedIsThere ==
  ASSUME OdbIsClosed, PinsHold, NEW r \in Reviews, NEW pair \in Pairs,
         PinRefsFor(r, pair) \subseteq pins
  PROVE  Closure[pair.base] \cup Closure[pair.head] \subseteq odb
<1>1. pair.base \in Commits /\ pair.head \in Commits
  BY DEF Pairs
<1>2. PinnedCommit(Pin(r, pair, "base")) = pair.base /\ PinnedCommit(Pin(r, pair, "head")) = pair.head
  BY DEF PinnedCommit, Pin
<1>3. pair.base \in odb /\ pair.head \in odb
  BY <1>2 DEF PinRefsFor, PinsHold
<1>4. QED
  BY <1>1, <1>3 DEF OdbIsClosed

\* So no command given that range lacks anything.
LEMMA PinnedIsRead ==
  ASSUME OdbIsClosed, PinsHold, NEW r \in Reviews, NEW pair \in Pairs,
         PinRefsFor(r, pair) \subseteq pins
  PROVE  /\ OpensTrees(pair) \subseteq odb
         /\ OpensBlobs(pair) \subseteq odb
         /\ Log(pair) \subseteq odb
         /\ Indexed(Records[pair]) \subseteq odb
<1>1. pair.base \in Commits /\ pair.head \in Commits
  BY DEF Pairs
<1>2. Closure[pair.base] \cup Closure[pair.head] \subseteq odb
  BY PinnedIsThere
<1>3. BlobsIn[pair.base] \cup BlobsIn[pair.head] \subseteq odb
  BY <1>1, <1>2, ClosureFacts
<1>4. {pair.base, pair.head} \cup Ancestors[pair.head] \subseteq odb
  BY <1>1, <1>2, ClosureFacts
<1>5. QED
  BY <1>3, <1>4, IndexedAreTheirs DEF OpensTrees, OpensBlobs, Log

-----------------------------------------------------------------------------
(* The invariant *)

LEMMA InitInv == Init => Inv
<1> SUFFICES ASSUME Init PROVE Inv
  OBVIOUS
<1>1. NoCommits \in CommitsOrNone
  BY DEF NoCommits, CommitsOrNone
<1>2. odb \subseteq Commits \cup Blobs /\ OdbIsClosed
  <2>1. \A b \in Branches : tip[b] \in Commits
    BY CloneAssumption DEF Init
  <2>2. \A b \in Branches : Closure[tip[b]] \subseteq Commits \cup Blobs
    BY <2>1, ClosureFacts
  <2>3. ASSUME NEW c \in Commits, NEW b \in Branches, c \in Closure[tip[b]]
        PROVE  Closure[c] \subseteq Closure[tip[b]]
    BY <2>1, <2>3, ClosureFacts
  <2>4. QED
    BY <2>2, <2>3 DEF Init, OdbIsClosed
<1>3. tip \in [Branches -> Commits \cup {NoRef}]
  BY CloneAssumption DEF Init
<1>4. TypeOK
  BY <1>1, <1>2, <1>3 DEF TypeOK, Init, Idle, Steps, NoDeletion, NothingRead
<1>5. RangesAreKnown /\ SyncsArePinned
  BY DEF Init, Idle, RangesAreKnown, SyncsArePinned
<1>6. PinsHold /\ EnvelopesArePinned /\ DoomedAreRemoved
  BY DEF Init, PinsHold, EnvelopesArePinned, DoomedAreRemoved, NoDeletion
<1>7. QED
  BY <1>2, <1>4, <1>5, <1>6 DEF Inv

\* People move branches: nothing leaves the clone.
LEMMA BranchStepInv ==
  ASSUME Inv, NEW b \in Branches, NEW c \in Commits, MoveBranch(b, c) \/ DeleteBranch(b)
  PROVE  Inv'
<1>1. UNCHANGED <<pins, live, envelope, held, sync, reads, deletion>>
  BY DEF MoveBranch, DeleteBranch, store, syncing
<1>2. tip' \in [Branches -> Commits \cup {NoRef}]
  BY DEF Inv, TypeOK, MoveBranch, DeleteBranch
<1>3. odb \subseteq odb' /\ odb' \subseteq odb \cup Closure[c]
  BY DEF MoveBranch, DeleteBranch
<1>4. TypeOK'
  BY <1>1, <1>2, <1>3, ClosureFacts DEF Inv, TypeOK
<1>5. OdbIsClosed'
  <2>1. CASE MoveBranch(b, c)
    BY <2>1, ClosureFacts DEF Inv, OdbIsClosed, MoveBranch
  <2>2. CASE DeleteBranch(b)
    BY <2>2 DEF Inv, OdbIsClosed, DeleteBranch
  <2>3. QED
    BY <2>1, <2>2
<1>6. PinsHold'
  BY <1>1, <1>3 DEF Inv, PinsHold
<1>7. (RangesAreKnown /\ SyncsArePinned /\ EnvelopesArePinned /\ DoomedAreRemoved)'
  BY <1>1 DEF Inv, RangesAreKnown, SyncsArePinned, EnvelopesArePinned, DoomedAreRemoved
<1>8. QED
  BY <1>4, <1>5, <1>6, <1>7 DEF Inv

\* A collection keeps what the pins reach.
LEMMA CollectInv == ASSUME Inv, Collect PROVE Inv'
<1>1. UNCHANGED <<tip, pins, live, envelope, held, sync, reads, deletion>>
  BY DEF Collect, store, syncing
<1>2. Roots \subseteq Commits
  BY DEF Inv, TypeOK, Roots, PinNames, Pairs, PinnedCommit
<1>3. TypeOK'
  BY <1>1 DEF Inv, TypeOK, Collect
<1>4. OdbIsClosed'
  <2>1. SUFFICES ASSUME NEW c \in Commits, c \in odb, NEW root \in Roots, c \in Closure[root]
                 PROVE  Closure[c] \subseteq odb'
    BY DEF OdbIsClosed, Collect
  <2>2. Closure[c] \subseteq Closure[root]
    BY <1>2, <2>1, ClosureFacts
  <2>3. Closure[c] \subseteq odb
    BY <2>1 DEF Inv, OdbIsClosed
  <2>4. QED
    BY <2>2, <2>3 DEF Collect
<1>5. PinsHold'
  <2>1. SUFFICES ASSUME NEW pin \in pins
                 PROVE  PinnedCommit(pin) \in odb'
    BY <1>1 DEF PinsHold
  <2>2. PinnedCommit(pin) \in odb /\ PinnedCommit(pin) \in Roots
    BY DEF Inv, PinsHold, Roots
  <2>3. PinnedCommit(pin) \in Closure[PinnedCommit(pin)]
    BY <1>2, <2>2, ClosureFacts
  <2>4. QED
    BY <2>2, <2>3 DEF Collect
<1>6. (RangesAreKnown /\ SyncsArePinned /\ EnvelopesArePinned /\ DoomedAreRemoved)'
  BY <1>1 DEF Inv, RangesAreKnown, SyncsArePinned, EnvelopesArePinned, DoomedAreRemoved
<1>7. QED
  BY <1>3, <1>4, <1>5, <1>6 DEF Inv

\* A sync leaves the branches, the clone, the rows and the removals alone, and
\* takes no pin away: what is left to show is said of that sync only.
LEMMA SyncFrame ==
  ASSUME Inv, NEW s \in Syncs, SyncStep(s)
  PROVE  /\ UNCHANGED <<tip, odb, live, deletion>>
         /\ pins \subseteq pins'
         /\ \A t \in Syncs \ {s} : sync'[t] = sync[t] /\ reads'[t] = reads[t]
<1> USE DEF Inv, TypeOK
<1>1. CASE PinSnapshotObjects(s)
  BY <1>1 DEF PinSnapshotObjects, Become, clone, store
<1>2. CASE Start(s) \/ ResolveBase(s) \/ ResolveHead(s) \/ MergeBase(s) \/ PinFails(s)
  BY <1>2 DEF Start, ResolveBase, ResolveHead, MergeBase, PinFails, Become, clone, store
<1>3. CASE ReadLocalDiffFiles(s) \/ ReadLocalNumstat(s) \/ ReadLocalCommits(s)
  BY <1>3 DEF ReadLocalDiffFiles, ReadLocalNumstat, ReadLocalCommits, Become, clone, store
<1>4. CASE ReadLocalPatchSections(s)
  BY <1>4 DEF ReadLocalPatchSections, Become, clone, store
<1>5. CASE ProvisionBlobs(s) \/ PutLocalSnapshot(s)
  BY <1>5 DEF ProvisionBlobs, PutLocalSnapshot, Become, clone, store
<1>6. QED
  BY <1>1, <1>2, <1>3, <1>4, <1>5 DEF SyncStep

\* What one sync's step must leave of itself for the invariant to go on.
SyncTyped(s) ==
  /\ sync[s] \in [step : Steps, tips : CommitsOrNone, range : CommitsOrNone, pinned : BOOLEAN]
  /\ DOMAIN reads[s] = DOMAIN NothingRead
RangeIsKnown(s) ==
  /\ sync[s].step \in {"head", "mergeBase"} => sync[s].tips \in Pairs
  /\ sync[s].step \in {"pin", "records", "counts", "patch", "log", "blobs", "store"} =>
       sync[s].range \in Pairs
  /\ sync[s].step \in {"counts", "patch", "log", "blobs"} => reads[s].records = sync[s].range
  /\ sync[s].step \in {"idle", "base", "head", "mergeBase", "pin"} => ~sync[s].pinned
SyncIsPinned(s) ==
  sync[s].pinned /\ ReviewOf[s] \in live =>
    /\ sync[s].range \in Pairs
    /\ PinRefsFor(ReviewOf[s], sync[s].range) \subseteq pins
    /\ sync[s].step \notin {"diff_failed", "commit_log_failed"}
    /\ sync[s].step = "store" => reads[s].missing = {}

\* A step that stores no snapshot keeps the invariant if it keeps its own sync's.
LEMMA SyncFrameInv ==
  ASSUME Inv, NEW s \in Syncs, SyncStep(s), UNCHANGED <<pins, envelope>>,
         DOMAIN sync' = Syncs, sync' = [t \in Syncs |-> sync'[t]], DOMAIN reads' = Syncs,
         SyncTyped(s)', RangeIsKnown(s)', SyncIsPinned(s)'
  PROVE  Inv'
<1>1. /\ UNCHANGED <<tip, odb, live, deletion>>
      /\ \A t \in Syncs \ {s} : sync'[t] = sync[t] /\ reads'[t] = reads[t]
  BY SyncFrame
<1>2. TypeOK'
  BY <1>1 DEF Inv, TypeOK, SyncTyped
<1>3. RangesAreKnown' /\ SyncsArePinned'
  BY <1>1 DEF Inv, RangesAreKnown, SyncsArePinned, RangeIsKnown, SyncIsPinned
<1>4. OdbIsClosed' /\ PinsHold' /\ EnvelopesArePinned' /\ DoomedAreRemoved'
  BY <1>1 DEF Inv, OdbIsClosed, PinsHold, EnvelopesArePinned, DoomedAreRemoved
<1>5. QED
  BY <1>2, <1>3, <1>4 DEF Inv

\* The record a step of a sync leaves.
SyncOf(step, tips, range, pinned) ==
  [step |-> step, tips |-> tips, range |-> range, pinned |-> pinned]

LEMMA Shapes ==
  ASSUME Inv, NEW s \in Syncs
  PROVE  LET step == StepAfter[sync[s].step]
             tips == sync[s].tips
             range == sync[s].range
             pinned == sync[s].pinned
         IN  /\ Advanced(s) = SyncOf(step, tips, range, pinned)
             /\ \A x : Refused(s, x) = SyncOf(x, tips, range, pinned)
             /\ \A x : [Advanced(s) EXCEPT !.tips = x] = SyncOf(step, x, range, pinned)
             /\ \A x : [Advanced(s) EXCEPT !.range = x] = SyncOf(step, tips, x, pinned)
             /\ \A x : [Advanced(s) EXCEPT !.pinned = x] = SyncOf(step, tips, range, x)
<1> DEFINE now == sync[s]
           step == StepAfter[now.step]
<1>1. now = [step |-> now.step, tips |-> now.tips, range |-> now.range, pinned |-> now.pinned]
  BY DEF Inv, TypeOK
<1>2. ASSUME NEW x PROVE Refused(s, x) = SyncOf(x, now.tips, now.range, now.pinned)
  BY <1>1 DEF Refused, SyncOf
<1>3. Advanced(s) = [step |-> step, tips |-> now.tips, range |-> now.range, pinned |-> now.pinned]
  BY <1>1 DEF Advanced
<1>4. ASSUME NEW x
      PROVE  [Advanced(s) EXCEPT !.tips = x] = SyncOf(step, x, now.range, now.pinned)
  BY <1>3 DEF SyncOf
<1>5. ASSUME NEW x
      PROVE  [Advanced(s) EXCEPT !.range = x] = SyncOf(step, now.tips, x, now.pinned)
  BY <1>3 DEF SyncOf
<1>6. ASSUME NEW x
      PROVE  [Advanced(s) EXCEPT !.pinned = x] = SyncOf(step, now.tips, now.range, x)
  BY <1>3 DEF SyncOf
<1>7. QED
  BY <1>2, <1>3, <1>4, <1>5, <1>6 DEF SyncOf

\* The steps before the pin: nothing is claimed yet.
LEMMA ResolveInv ==
  ASSUME Inv, NEW s \in Syncs,
         Start(s) \/ ResolveBase(s) \/ ResolveHead(s) \/ MergeBase(s) \/ PinFails(s)
  PROVE  Inv'
<1> USE DEF Become, At
<1> DEFINE now == sync[s]
<1>1. /\ NoCommits \in CommitsOrNone /\ Pairs \subseteq CommitsOrNone
      /\ now.pinned \in BOOLEAN
      /\ now.tips \in CommitsOrNone /\ now.range \in CommitsOrNone
  BY DEF NoCommits, CommitsOrNone, Pairs, Inv, TypeOK
<1>2. CASE Start(s)
  <2>1. sync'[s] = [Idle EXCEPT !.step = "base"] /\ reads'[s] = NothingRead
    BY <1>2 DEF Start, Inv, TypeOK
  <2>2. SyncTyped(s)' /\ RangeIsKnown(s)' /\ SyncIsPinned(s)'
    BY <1>1, <2>1 DEF SyncTyped, RangeIsKnown, SyncIsPinned, Idle, Steps
  <2>3. QED
    BY <1>2, <2>2, SyncFrameInv DEF Start, SyncStep, store, Inv, TypeOK
<1>3. CASE ResolveBase(s)
  <2> DEFINE base == tip[BaseOf[ReviewOf[s]]]
             tips == [base |-> base, head |-> base]
  <2>1. base \in Commits \cup {NoRef}
    BY CloneAssumption DEF Inv, TypeOK
  <2>2. ~now.pinned /\ now.step = "base"
    BY <1>3 DEF ResolveBase, Inv, RangesAreKnown
  <2>3. sync'[s] = IF base = NoRef THEN Refused(s, "ref_not_found")
                   ELSE [Advanced(s) EXCEPT !.tips = tips]
    BY <1>3 DEF ResolveBase, Inv, TypeOK
  <2>4. \/ sync'[s] = SyncOf("ref_not_found", now.tips, now.range, now.pinned)
        \/ tips \in Pairs /\ sync'[s] = SyncOf("head", tips, now.range, now.pinned)
    <3>1. CASE base = NoRef
      BY <2>2, <2>3, <3>1, Shapes
    <3>2. CASE base # NoRef
      <4>1. tips \in Pairs
        BY <2>1, <3>2 DEF Pairs
      <4>2. [Advanced(s) EXCEPT !.tips = tips] =
              SyncOf(StepAfter[now.step], tips, now.range, now.pinned)
        BY Shapes
      <4>3. QED
        BY <2>2, <2>3, <3>2, <4>1, <4>2 DEF StepAfter
    <3>3. QED
      BY <3>1, <3>2
  <2>5. reads'[s] = reads[s]
    BY <1>3 DEF ResolveBase
  <2>6. SyncTyped(s)' /\ RangeIsKnown(s)' /\ SyncIsPinned(s)'
    BY <1>1, <2>2, <2>4, <2>5 DEF SyncTyped, SyncOf, RangeIsKnown, SyncIsPinned, Steps, Refusals, Inv, TypeOK
  <2>7. QED
    BY <1>3, <2>6, SyncFrameInv DEF ResolveBase, SyncStep, store, Inv, TypeOK
<1>4. CASE ResolveHead(s)
  <2> DEFINE head == tip[HeadOf[ReviewOf[s]]]
             base == now.tips.base
             tips == [base |-> base, head |-> head]
  <2>1. head \in Commits \cup {NoRef}
    BY CloneAssumption DEF Inv, TypeOK
  <2>2. ~now.pinned /\ base \in Commits /\ now.step = "head"
    BY <1>4 DEF ResolveHead, Inv, RangesAreKnown, Pairs
  <2>3. sync'[s] = IF head = NoRef THEN Refused(s, "ref_not_found")
                   ELSE IF head = base THEN Refused(s, "same_ref")
                   ELSE [Advanced(s) EXCEPT !.tips = tips]
    BY <1>4 DEF ResolveHead, Inv, TypeOK
  <2>4. \/ sync'[s] = SyncOf("ref_not_found", now.tips, now.range, now.pinned)
        \/ sync'[s] = SyncOf("same_ref", now.tips, now.range, now.pinned)
        \/ tips \in Pairs /\ sync'[s] = SyncOf("mergeBase", tips, now.range, now.pinned)
    <3>1. CASE head = NoRef
      BY <2>2, <2>3, <3>1, Shapes
    <3>2. CASE head # NoRef /\ head = base
      BY <2>2, <2>3, <3>2, Shapes
    <3>3. CASE head # NoRef /\ head # base
      <4>1. tips \in Pairs
        BY <2>1, <2>2, <3>3 DEF Pairs
      <4>2. [Advanced(s) EXCEPT !.tips = tips] =
              SyncOf(StepAfter[now.step], tips, now.range, now.pinned)
        BY Shapes
      <4>3. QED
        BY <2>2, <2>3, <3>3, <4>1, <4>2 DEF StepAfter
    <3>4. QED
      BY <3>1, <3>2, <3>3
  <2>5. reads'[s] = reads[s]
    BY <1>4 DEF ResolveHead
  <2>6. SyncTyped(s)' /\ RangeIsKnown(s)' /\ SyncIsPinned(s)'
    BY <1>1, <2>2, <2>4, <2>5 DEF SyncTyped, SyncOf, RangeIsKnown, SyncIsPinned, Steps, Refusals, Inv, TypeOK
  <2>7. QED
    BY <1>4, <2>6, SyncFrameInv DEF ResolveHead, SyncStep, store, Inv, TypeOK
<1>5. CASE MergeBase(s)
  <2>1. ~now.pinned /\ now.tips \in Pairs /\ now.step = "mergeBase"
    BY <1>5 DEF MergeBase, Inv, RangesAreKnown
  <2>2. \/ sync'[s] = SyncOf("ref_not_found", now.tips, now.range, now.pinned)
        \/ sync'[s] = SyncOf("unrelated_histories", now.tips, now.range, now.pinned)
        \/ \E range \in Pairs : sync'[s] = SyncOf("pin", now.tips, range, now.pinned)
    <3>1. CASE sync' = [sync EXCEPT ![s] = Refused(s, "ref_not_found")]
      BY <2>1, <3>1, Shapes DEF Inv, TypeOK
    <3>2. CASE sync' = [sync EXCEPT ![s] = Refused(s, "unrelated_histories")]
      BY <2>1, <3>2, Shapes DEF Inv, TypeOK
    <3>3. CASE \E c \in BestCommon(now.tips) :
                 sync' = [sync EXCEPT ![s] =
                   [Advanced(s) EXCEPT !.range = [base |-> c, head |-> now.tips.head]]]
      <4>1. PICK c \in BestCommon(now.tips) :
                 sync' = [sync EXCEPT ![s] =
                   [Advanced(s) EXCEPT !.range = [base |-> c, head |-> now.tips.head]]]
        BY <3>3
      <4> DEFINE range == [base |-> c, head |-> now.tips.head]
      <4>2. range \in Pairs
        BY <2>1, CloneAssumption DEF BestCommon, Common, Pairs
      <4>3. sync'[s] = [Advanced(s) EXCEPT !.range = range]
        BY <4>1 DEF Inv, TypeOK
      <4>4. [Advanced(s) EXCEPT !.range = range] =
              SyncOf(StepAfter[now.step], now.tips, range, now.pinned)
        BY Shapes
      <4>5. sync'[s] = SyncOf("pin", now.tips, range, now.pinned)
        BY <2>1, <4>3, <4>4 DEF StepAfter
      <4>6. QED
        BY <4>2, <4>5
    <3>4. QED
      BY <1>5, <3>1, <3>2, <3>3 DEF MergeBase
  <2>3. reads'[s] = reads[s]
    BY <1>5 DEF MergeBase
  <2>4. SyncTyped(s)' /\ RangeIsKnown(s)' /\ SyncIsPinned(s)'
    <3> USE DEF SyncTyped, SyncOf, RangeIsKnown, SyncIsPinned, Steps, Refusals, Inv, TypeOK
    <3>1. CASE sync'[s] = SyncOf("ref_not_found", now.tips, now.range, now.pinned)
      BY <1>1, <2>1, <2>3, <3>1
    <3>2. CASE sync'[s] = SyncOf("unrelated_histories", now.tips, now.range, now.pinned)
      BY <1>1, <2>1, <2>3, <3>2
    <3>3. CASE \E range \in Pairs : sync'[s] = SyncOf("pin", now.tips, range, now.pinned)
      BY <1>1, <2>1, <2>3, <3>3
    <3>4. QED
      BY <2>2, <3>1, <3>2, <3>3
  <2>5. DOMAIN sync' = Syncs /\ sync' = [t \in Syncs |-> sync'[t]]
    BY <1>5 DEF MergeBase, Inv, TypeOK
  <2>6. QED
    BY <1>5, <2>4, <2>5, SyncFrameInv DEF MergeBase, SyncStep, store, Inv, TypeOK
<1>6. CASE PinFails(s)
  <2>1. ~now.pinned /\ now.range \in Pairs /\ now.step = "pin"
    BY <1>6 DEF PinFails, Inv, RangesAreKnown
  <2>2. sync'[s] = Advanced(s) /\ reads'[s] = reads[s]
    BY <1>6 DEF PinFails, Inv, TypeOK
  <2>3. sync'[s] = SyncOf("records", now.tips, now.range, now.pinned)
    BY <2>1, <2>2, Shapes DEF StepAfter
  <2>4. SyncTyped(s)' /\ RangeIsKnown(s)' /\ SyncIsPinned(s)'
    BY <1>1, <2>1, <2>2, <2>3 DEF SyncTyped, SyncOf, RangeIsKnown, SyncIsPinned, Steps, Inv, TypeOK
  <2>5. QED
    BY <1>6, <2>4, SyncFrameInv DEF PinFails, SyncStep, store, Inv, TypeOK
<1>7. QED
  BY <1>2, <1>3, <1>4, <1>5, <1>6

\* The pin itself: the two commits are there when the refs are written.
LEMMA PinInv ==
  ASSUME Inv, NEW s \in Syncs, PinSnapshotObjects(s)
  PROVE  Inv'
<1> DEFINE now == sync[s]
           added == PinRefsFor(ReviewOf[s], now.range)
<1>1. /\ now.step = "pin" /\ now.range \in Pairs /\ ReviewOf[s] \in Reviews
      /\ {now.range.base, now.range.head} \subseteq odb
      /\ pins' = pins \cup added
  BY CloneAssumption DEF PinSnapshotObjects, At, Inv, RangesAreKnown
<1>2. /\ UNCHANGED <<tip, odb, live, deletion, envelope, reads>>
      /\ \A t \in Syncs \ {s} : sync'[t] = sync[t]
  BY SyncFrame DEF SyncStep, PinSnapshotObjects, clone, store
<1>3. sync'[s] = SyncOf("records", now.tips, now.range, TRUE)
  <2>1. sync'[s] = [Advanced(s) EXCEPT !.pinned = TRUE]
    BY DEF PinSnapshotObjects, Become, Inv, TypeOK
  <2>2. [Advanced(s) EXCEPT !.pinned = TRUE] = SyncOf(StepAfter[now.step], now.tips, now.range, TRUE)
    BY Shapes
  <2>3. QED
    BY <1>1, <2>1, <2>2 DEF StepAfter
<1>4. added \subseteq PinNames /\ \A pin \in added : PinnedCommit(pin) \in odb
  BY <1>1 DEF PinRefsFor, Pin, PinNames, PinnedCommit
<1>5. TypeOK'
  <2>1. DOMAIN sync' = Syncs /\ sync' = [t \in Syncs |-> sync'[t]]
    BY DEF PinSnapshotObjects, Become, Inv, TypeOK
  <2>2. now.tips \in CommitsOrNone /\ now.range \in CommitsOrNone
    BY DEF Inv, TypeOK
  <2>3. sync'[s] \in [step : Steps, tips : CommitsOrNone, range : CommitsOrNone, pinned : BOOLEAN]
    BY <1>3, <2>2 DEF SyncOf, Steps
  <2>4. QED
    BY <1>1, <1>2, <1>4, <2>1, <2>3 DEF Inv, TypeOK
<1>6. PinsHold'
  <2>1. ASSUME NEW pin \in pins' PROVE PinnedCommit(pin) \in odb
    BY <1>1, <1>4 DEF Inv, PinsHold
  <2>2. QED
    BY <1>2, <2>1 DEF PinsHold
<1>7. RangesAreKnown'
  <2>1. ASSUME NEW t \in Syncs \ {s} PROVE RangeIsKnown(t)'
    <3>1. RangeIsKnown(t)
      BY DEF Inv, RangesAreKnown, RangeIsKnown
    <3>2. QED
      BY <1>2, <3>1 DEF RangeIsKnown
  <2>2. RangeIsKnown(s)'
    BY <1>1, <1>3 DEF RangeIsKnown, SyncOf
  <2>3. QED
    BY <2>1, <2>2 DEF RangesAreKnown, RangeIsKnown
<1>8. SyncsArePinned'
  <2>1. ASSUME NEW t \in Syncs \ {s} PROVE SyncIsPinned(t)'
    <3>1. SyncIsPinned(t)
      BY DEF Inv, SyncsArePinned, SyncIsPinned
    <3>2. QED
      BY <1>1, <1>2, <3>1 DEF SyncIsPinned
  <2>2. SyncIsPinned(s)'
    BY <1>1, <1>3 DEF SyncIsPinned, SyncOf
  <2>3. QED
    BY <2>1, <2>2 DEF SyncsArePinned, SyncIsPinned
<1>9. OdbIsClosed' /\ EnvelopesArePinned' /\ DoomedAreRemoved'
  BY <1>1, <1>2 DEF Inv, OdbIsClosed, EnvelopesArePinned, DoomedAreRemoved
<1>10. QED
  BY <1>5, <1>6, <1>7, <1>8, <1>9 DEF Inv

\* A read that lacks nothing leaves the sync one step on; one that does is
\* refused, and then the range was not pinned.
LEMMA ReadInv ==
  ASSUME Inv, NEW s \in Syncs,
         ReadLocalDiffFiles(s) \/ ReadLocalNumstat(s) \/ ReadLocalPatchSections(s)
           \/ ReadLocalCommits(s)
  PROVE  Inv'
<1> USE DEF Become, At
<1> DEFINE now == sync[s]
<1>1. /\ now.range \in Pairs /\ ReviewOf[s] \in Reviews
      /\ now.step \in {"records", "counts", "patch", "log"}
      /\ now.step # "records" => reads[s].records = now.range
      /\ now.tips \in CommitsOrNone /\ now.range \in CommitsOrNone /\ now.pinned \in BOOLEAN
  BY CloneAssumption DEF ReadLocalDiffFiles, ReadLocalNumstat, ReadLocalPatchSections,
     ReadLocalCommits, Inv, TypeOK, RangesAreKnown
<1>2. now.pinned /\ ReviewOf[s] \in live =>
        /\ PinRefsFor(ReviewOf[s], now.range) \subseteq pins
        /\ OpensTrees(now.range) \subseteq odb
        /\ OpensBlobs(now.range) \subseteq odb
        /\ Log(now.range) \subseteq odb
  BY <1>1, PinnedIsRead DEF Inv, SyncsArePinned
<1>3. /\ UNCHANGED <<live, pins, envelope>>
      /\ DOMAIN sync' = Syncs /\ sync' = [t \in Syncs |-> sync'[t]] /\ DOMAIN reads' = Syncs
  <2>1. UNCHANGED <<live, pins, envelope>>
    BY DEF ReadLocalDiffFiles, ReadLocalNumstat, ReadLocalPatchSections, ReadLocalCommits, store
  <2>2. \E after : sync' = [sync EXCEPT ![s] = after]
    BY DEF ReadLocalDiffFiles, ReadLocalNumstat, ReadLocalPatchSections, ReadLocalCommits
  <2>3. DOMAIN reads' = Syncs
    BY DEF ReadLocalDiffFiles, ReadLocalNumstat, ReadLocalPatchSections, ReadLocalCommits,
       Inv, TypeOK
  <2>4. QED
    BY <2>1, <2>2, <2>3 DEF Inv, TypeOK
<1>4. /\ DOMAIN reads'[s] = DOMAIN NothingRead
      /\ reads'[s].records = now.range
  <2>1. DOMAIN reads = Syncs /\ DOMAIN reads[s] = DOMAIN NothingRead /\ "records" \in DOMAIN NothingRead
    BY DEF Inv, TypeOK, NothingRead
  <2>2. CASE ReadLocalDiffFiles(s)
    BY <1>1, <2>1, <2>2 DEF ReadLocalDiffFiles
  <2>3. CASE ReadLocalNumstat(s)
    BY <1>1, <2>1, <2>3 DEF ReadLocalNumstat
  <2>4. CASE ReadLocalPatchSections(s)
    BY <1>1, <2>1, <2>4 DEF ReadLocalPatchSections
  <2>5. CASE ReadLocalCommits(s)
    BY <1>1, <2>1, <2>5 DEF ReadLocalCommits
  <2>6. QED
    BY <2>2, <2>3, <2>4, <2>5
<1>5. \/ sync'[s] = Advanced(s)
      \/ sync'[s] = Refused(s, "malformed_diff")
      \/ /\ sync'[s] = Refused(s, "diff_failed") \/ sync'[s] = Refused(s, "commit_log_failed")
         /\ ~(now.pinned /\ ReviewOf[s] \in live)
  <2>1. CASE ReadLocalDiffFiles(s)
    BY <1>2, <2>1 DEF ReadLocalDiffFiles, Inv, TypeOK
  <2>2. CASE ReadLocalNumstat(s)
    BY <1>2, <2>2 DEF ReadLocalNumstat, Inv, TypeOK
  <2>3. CASE ReadLocalPatchSections(s)
    BY <1>2, <2>3 DEF ReadLocalPatchSections, Inv, TypeOK
  <2>4. CASE ReadLocalCommits(s)
    BY <1>2, <2>4 DEF ReadLocalCommits, Inv, TypeOK
  <2>5. QED
    BY <2>1, <2>2, <2>3, <2>4
<1>6. SyncTyped(s)' /\ RangeIsKnown(s)' /\ SyncIsPinned(s)'
  <2> USE DEF SyncTyped, RangeIsKnown, SyncIsPinned, SyncOf, Steps, Refusals
  <2>1. CASE sync'[s] = Advanced(s)
    <3>1. sync'[s] = SyncOf(StepAfter[now.step], now.tips, now.range, now.pinned)
      BY <2>1, Shapes
    <3>2. StepAfter[now.step] \in {"counts", "patch", "log", "blobs"}
      BY <1>1 DEF StepAfter
    <3>3. QED
      BY <1>1, <1>2, <1>3, <1>4, <3>1, <3>2
  <2>2. CASE sync'[s] = Refused(s, "malformed_diff")
    <3>1. sync'[s] = SyncOf("malformed_diff", now.tips, now.range, now.pinned)
      BY <2>2, Shapes
    <3>2. QED
      BY <1>1, <1>2, <1>3, <1>4, <3>1
  <2>3. CASE sync'[s] = Refused(s, "diff_failed") /\ ~(now.pinned /\ ReviewOf[s] \in live)
    <3>1. sync'[s] = SyncOf("diff_failed", now.tips, now.range, now.pinned)
      BY <2>3, Shapes
    <3>2. QED
      BY <1>1, <1>3, <1>4, <2>3, <3>1
  <2>4. CASE sync'[s] = Refused(s, "commit_log_failed") /\ ~(now.pinned /\ ReviewOf[s] \in live)
    <3>1. sync'[s] = SyncOf("commit_log_failed", now.tips, now.range, now.pinned)
      BY <2>4, Shapes
    <3>2. QED
      BY <1>1, <1>3, <1>4, <2>4, <3>1
  <2>5. QED
    BY <1>5, <2>1, <2>2, <2>3, <2>4
<1>7. QED
  BY <1>3, <1>6, SyncFrameInv DEF SyncStep

\* What was pinned misses no blob.
LEMMA ProvisionInv ==
  ASSUME Inv, NEW s \in Syncs, ProvisionBlobs(s)
  PROVE  Inv'
<1> USE DEF Become, At
<1> DEFINE now == sync[s]
<1>1. /\ now.range \in Pairs /\ ReviewOf[s] \in Reviews
      /\ now.step = "blobs" /\ reads[s].records = now.range
      /\ now.tips \in CommitsOrNone /\ now.range \in CommitsOrNone /\ now.pinned \in BOOLEAN
  BY CloneAssumption DEF ProvisionBlobs, Inv, TypeOK, RangesAreKnown
<1>2. now.pinned /\ ReviewOf[s] \in live =>
        /\ PinRefsFor(ReviewOf[s], now.range) \subseteq pins
        /\ Indexed(Records[reads[s].records]) \subseteq odb
  BY <1>1, PinnedIsRead DEF Inv, SyncsArePinned
<1>3. /\ UNCHANGED <<live, pins, envelope>>
      /\ DOMAIN sync' = Syncs /\ sync' = [t \in Syncs |-> sync'[t]] /\ DOMAIN reads' = Syncs
  BY DEF ProvisionBlobs, Inv, TypeOK
<1>4. /\ DOMAIN reads'[s] = DOMAIN NothingRead
      /\ reads'[s].missing = Indexed(Records[reads[s].records]) \ (held \cup odb)
  BY DEF ProvisionBlobs, Inv, TypeOK, NothingRead
<1>5. sync'[s] = SyncOf("store", now.tips, now.range, now.pinned)
  <2>1. sync'[s] = Advanced(s)
    BY DEF ProvisionBlobs, Inv, TypeOK
  <2>2. QED
    BY <1>1, <2>1, Shapes DEF StepAfter
<1>6. SyncTyped(s)' /\ RangeIsKnown(s)' /\ SyncIsPinned(s)'
  BY <1>1, <1>2, <1>3, <1>4, <1>5
  DEF SyncTyped, RangeIsKnown, SyncIsPinned, SyncOf, Steps
<1>7. QED
  BY <1>3, <1>6, SyncFrameInv DEF SyncStep

\* What is stored is as pinned as the sync that stores it.
LEMMA PutInv ==
  ASSUME Inv, NEW s \in Syncs, PutLocalSnapshot(s)
  PROVE  Inv'
<1> USE DEF Become, At
<1> DEFINE review == ReviewOf[s]
           now == sync[s]
<1>1. /\ UNCHANGED <<tip, odb, live, deletion, pins>>
      /\ \A t \in Syncs \ {s} : sync'[t] = sync[t] /\ reads'[t] = reads[t]
  BY SyncFrame DEF SyncStep, PutLocalSnapshot
<1>2. sync'[s] = Idle /\ reads'[s] = NothingRead
  BY DEF PutLocalSnapshot, Inv, TypeOK
<1>3. NoCommits \in CommitsOrNone
  BY DEF NoCommits, CommitsOrNone
<1>4. DOMAIN sync' = Syncs /\ sync' = [t \in Syncs |-> sync'[t]] /\ DOMAIN reads' = Syncs
  BY DEF PutLocalSnapshot, Inv, TypeOK
<1>5. SyncTyped(s)' /\ RangeIsKnown(s)' /\ SyncIsPinned(s)'
  BY <1>2, <1>3 DEF SyncTyped, RangeIsKnown, SyncIsPinned, Idle, Steps
<1>6. DOMAIN envelope' = Reviews
  BY DEF PutLocalSnapshot, Inv, TypeOK
<1>7. TypeOK'
  BY <1>1, <1>4, <1>5, <1>6 DEF Inv, TypeOK, SyncTyped
<1>8. RangesAreKnown' /\ SyncsArePinned'
  BY <1>1, <1>5 DEF Inv, RangesAreKnown, SyncsArePinned, RangeIsKnown, SyncIsPinned
<1>9. EnvelopesArePinned'
  <2>1. SUFFICES ASSUME NEW r \in live, envelope'[r] # NoEnvelope, envelope'[r].pinned
                 PROVE  /\ envelope'[r].range \in Pairs
                        /\ PinRefsFor(r, envelope'[r].range) \subseteq pins
                        /\ envelope'[r].missing = {}
    BY <1>1 DEF EnvelopesArePinned
  <2>2. r \in Reviews
    BY DEF Inv, TypeOK
  <2>3. CASE r = review
    <3>1. /\ envelope'[r].pinned = now.pinned /\ envelope'[r].range = now.range
          /\ envelope'[r].missing = reads[s].missing
      BY <2>2, <2>3 DEF PutLocalSnapshot, Inv, TypeOK
    <3>2. QED
      BY <2>1, <2>3, <3>1 DEF PutLocalSnapshot, Inv, SyncsArePinned
  <2>4. CASE r # review
    <3>1. envelope'[r] = envelope[r]
      BY <2>2, <2>4 DEF PutLocalSnapshot, Inv, TypeOK
    <3>2. QED
      BY <2>1, <3>1 DEF Inv, EnvelopesArePinned
  <2>5. QED
    BY <2>3, <2>4
<1>10. OdbIsClosed' /\ PinsHold' /\ DoomedAreRemoved'
  BY <1>1 DEF Inv, OdbIsClosed, PinsHold, DoomedAreRemoved
<1>11. QED
  BY <1>7, <1>8, <1>9, <1>10 DEF Inv

\* A removal drops the pins of a review that has no row, and no others.
LEMMA DeletionInv ==
  ASSUME Inv, NEW r \in Reviews, DeletionStep(r)
  PROVE  Inv'
<1>1. /\ UNCHANGED <<tip, odb, sync, reads, held>>
      /\ live' \subseteq live
  BY DEF DeletionStep, DeleteLocalReview, ListPins, DropPin, DropFails, clone, store, syncing
<1>2. CASE DeleteLocalReview(r)
  <2>1. /\ live' = live \ {r} /\ pins' = pins
        /\ envelope' = [envelope EXCEPT ![r] = NoEnvelope]
        /\ deletion' = [deletion EXCEPT ![r] = [step |-> "list", doomed |-> {}]]
    BY <1>2 DEF DeleteLocalReview
  <2>2. TypeOK'
    BY <1>1, <2>1 DEF Inv, TypeOK
  <2>3. EnvelopesArePinned'
    BY <2>1 DEF Inv, TypeOK, EnvelopesArePinned
  <2>4. DoomedAreRemoved'
    BY <2>1 DEF Inv, TypeOK, DoomedAreRemoved
  <2>5. (OdbIsClosed /\ PinsHold /\ RangesAreKnown /\ SyncsArePinned)'
    BY <1>1, <2>1 DEF Inv, OdbIsClosed, PinsHold, RangesAreKnown, SyncsArePinned
  <2>6. QED
    BY <2>2, <2>3, <2>4, <2>5 DEF Inv
<1>3. CASE ListPins(r) \/ DropFails(r)
  <2>1. UNCHANGED <<pins, live, envelope>>
    BY <1>3 DEF ListPins, DropFails, store
  <2>2. PICK doomed \in {PinsOf(r), {}} :
          deletion' = [deletion EXCEPT ![r] = [step |-> "drop", doomed |-> doomed]]
    BY <1>3 DEF ListPins, DropFails
  <2>3. doomed \subseteq PinNames /\ \A pin \in doomed : pin.review = r
    BY DEF PinsOf, Inv, TypeOK
  <2>4. r \notin live
    BY <1>3 DEF ListPins, DropFails, Inv, DoomedAreRemoved, NoDeletion
  <2>5. TypeOK'
    BY <1>1, <2>1, <2>2, <2>3 DEF Inv, TypeOK
  <2>6. DoomedAreRemoved'
    BY <2>1, <2>2, <2>3, <2>4 DEF Inv, TypeOK, DoomedAreRemoved
  <2>7. (OdbIsClosed /\ PinsHold /\ RangesAreKnown /\ SyncsArePinned /\ EnvelopesArePinned)'
    BY <1>1, <2>1
    DEF Inv, OdbIsClosed, PinsHold, RangesAreKnown, SyncsArePinned, EnvelopesArePinned
  <2>8. QED
    BY <2>5, <2>6, <2>7 DEF Inv
<1>4. CASE DropPin(r)
  <2>1. PICK pin \in deletion[r].doomed :
          /\ pins' = pins \ {pin}
          /\ deletion' = [deletion EXCEPT ![r].doomed = @ \ {pin}]
    BY <1>4 DEF DropPin
  <2>2. UNCHANGED <<live, envelope>>
    BY <1>4 DEF DropPin, store
  <2>3. r \notin live /\ pin.review = r
    BY <1>4 DEF DropPin, Inv, DoomedAreRemoved, NoDeletion
  <2>4. /\ deletion'[r].doomed = deletion[r].doomed \ {pin}
        /\ deletion'[r] \in [step : {"none", "list", "drop"}, doomed : SUBSET PinNames]
        /\ \A q \in Reviews \ {r} : deletion'[q] = deletion[q]
        /\ deletion' = [q \in Reviews |-> deletion'[q]]
    BY <2>1 DEF Inv, TypeOK
  <2>5. TypeOK'
    BY <1>1, <2>1, <2>2, <2>4 DEF Inv, TypeOK
  <2>6. DoomedAreRemoved'
    BY <2>2, <2>3, <2>4 DEF Inv, TypeOK, DoomedAreRemoved
  <2>7. \A q \in live, pair \in Pairs : PinRefsFor(q, pair) \subseteq pins =>
          PinRefsFor(q, pair) \subseteq pins'
    BY <2>1, <2>3 DEF PinRefsFor, Pin
  <2>8. SyncsArePinned' /\ EnvelopesArePinned'
    BY <1>1, <2>2, <2>7 DEF Inv, SyncsArePinned, EnvelopesArePinned
  <2>9. (OdbIsClosed /\ PinsHold /\ RangesAreKnown)'
    BY <1>1, <2>1 DEF Inv, OdbIsClosed, PinsHold, RangesAreKnown
  <2>10. QED
    BY <2>5, <2>6, <2>8, <2>9 DEF Inv
<1>5. QED
  BY <1>2, <1>3, <1>4 DEF DeletionStep

\* The daemon that ends forgets its syncs and its removals, and no more.
LEMMA CrashInv == ASSUME Inv, Crash PROVE Inv'
<1>1. /\ UNCHANGED <<tip, odb, pins, live, envelope>>
      /\ sync' = [s \in Syncs |-> Idle] /\ reads' = [s \in Syncs |-> NothingRead]
      /\ deletion' = [r \in Reviews |-> NoDeletion]
  BY DEF Crash, clone, store
<1>2. NoCommits \in CommitsOrNone
  BY DEF NoCommits, CommitsOrNone
<1>3. TypeOK'
  BY <1>1, <1>2 DEF Inv, TypeOK, Idle, Steps, NoDeletion, NothingRead
<1>4. RangesAreKnown' /\ SyncsArePinned' /\ DoomedAreRemoved'
  BY <1>1 DEF Inv, TypeOK, RangesAreKnown, SyncsArePinned, DoomedAreRemoved, Idle, NoDeletion
<1>5. OdbIsClosed' /\ PinsHold' /\ EnvelopesArePinned'
  BY <1>1 DEF Inv, OdbIsClosed, PinsHold, EnvelopesArePinned
<1>6. QED
  BY <1>3, <1>4, <1>5 DEF Inv

LEMMA NextInv == Inv /\ [Next]_vars => Inv'
<1> SUFFICES ASSUME Inv, [Next]_vars PROVE Inv'
  OBVIOUS
<1>1. CASE UNCHANGED vars
  BY <1>1 DEF vars, clone, store, syncing, Inv, TypeOK, OdbIsClosed, PinsHold, RangesAreKnown,
     SyncsArePinned, EnvelopesArePinned, DoomedAreRemoved
<1>2. CASE \E b \in Branches, c \in Commits : MoveBranch(b, c)
  BY <1>2, BranchStepInv
<1>3. CASE \E b \in Branches : DeleteBranch(b)
  <2>1. PICK b \in Branches : DeleteBranch(b)
    BY <1>3
  <2>2. tip[b] \in Commits
    BY <2>1 DEF DeleteBranch, Inv, TypeOK
  <2>3. QED
    BY <2>1, <2>2, BranchStepInv
<1>4. CASE Collect
  BY <1>4, CollectInv
<1>5. CASE \E s \in Syncs : SyncStep(s)
  BY <1>5, ResolveInv, PinInv, ReadInv, ProvisionInv, PutInv DEF SyncStep
<1>6. CASE \E r \in Reviews : DeletionStep(r)
  BY <1>6, DeletionInv
<1>7. CASE Crash
  BY <1>7, CrashInv
<1>8. QED
  BY <1>1, <1>2, <1>3, <1>4, <1>5, <1>6, <1>7 DEF Next

-----------------------------------------------------------------------------
(* What a pin is worth *)

LEMMA InvHolds == Spec => []Inv
BY InitInv, NextInv, PTL DEF Spec

\* Every variable keeps its type: the state of a sync of a local review, the
\* refs that pin one and the removal under way (local-sync.ts, local-pins.ts).
THEOREM TypeIsInvariant == Spec => []TypeOK
<1>1. Inv => TypeOK
  BY DEF Inv
<1>2. QED
  BY <1>1, InvHolds, PTL

\* The sync of a review whose pins were written fails no read and misses no
\* blob, whatever is done to the branches and whenever git collects
\* (local-pins.ts before readLocalChangeSet in local-surface.ts).
THEOREM PinnedSyncIsWhole == Spec => []PinnedIsWhole
<1>1. Inv => PinnedIsWhole
  BY DEF Inv, SyncsArePinned, EnvelopesArePinned, PinnedIsWhole
<1>2. QED
  BY <1>1, InvHolds, PTL

\* Every object of a stored snapshot that was pinned stays in the clone until
\* its review is removed, and the removal of another review takes none away
\* (local-pins.ts, dropPinnedRefs in retention.ts).
THEOREM PinnedSnapshotStaysReadable == Spec => []PinnedStaysReadable
<1>1. Inv => PinnedStaysReadable
  <2>1. SUFFICES ASSUME Inv, NEW r \in live, envelope[r] # NoEnvelope, envelope[r].pinned
                 PROVE  Closure[envelope[r].range.base] \cup Closure[envelope[r].range.head] \subseteq odb
    BY DEF PinnedStaysReadable
  <2>2. /\ r \in Reviews /\ envelope[r].range \in Pairs
        /\ PinRefsFor(r, envelope[r].range) \subseteq pins
    BY <2>1 DEF Inv, TypeOK, EnvelopesArePinned
  <2>3. QED
    BY <2>1, <2>2, PinnedIsThere DEF Inv
<1>2. QED
  BY <1>1, InvHolds, PTL

-----------------------------------------------------------------------------
(* The join by position.  The spans that are counted off the records are the *)
(* ones git printed the sections in, so what is joined is of one path.       *)

\* What a span makes of a path is what the trees say of it.
LEMMA SpanOfPath ==
  ASSUME NEW before \in Entries, NEW after \in Entries, before # after
  PROVE  LET status == RawDiffStatus(before, after)
             span == SectionsOfPath(before, after)
             turned == before # Nothing /\ after # Nothing /\ before.mode # after.mode
             text == {before.object, after.object} \cap Binary = {}
         IN  /\ status = "T" <=> turned
             /\ status = "T" => span[1].to = Nothing /\ span[2].from = Nothing
             /\ Wire[status] = IF before = Nothing THEN "added"
                               ELSE IF after = Nothing THEN "removed" ELSE "modified"
             /\ Patch(span) = IF ~text THEN NoPatch ELSE span
<1> DEFINE status == RawDiffStatus(before, after)
           span == SectionsOfPath(before, after)
           turned == before # Nothing /\ after # Nothing /\ before.mode # after.mode
           text == {before.object, after.object} \cap Binary = {}
<1>1. status = "T" <=> turned
  BY DEF RawDiffStatus
<1>2. Wire[status] = IF before = Nothing THEN "added"
                     ELSE IF after = Nothing THEN "removed" ELSE "modified"
  BY DEF RawDiffStatus, Wire
<1>3. "none" \notin Binary /\ Nothing.object = "none"
  BY QueueAssumption DEF Nothing
<1>4. CASE status = "T"
  <2> DEFINE out == [from |-> before, to |-> Nothing]
             in == [from |-> Nothing, to |-> after]
  <2>1. span = <<out, in>>
    BY <1>4 DEF SectionsOfPath
  <2>2. DOMAIN span = {1, 2} /\ span[1] = out /\ span[2] = in
    BY <2>1
  <2>3. HasHunks(out) <=> before.object \notin Binary
    BY <1>3 DEF HasHunks
  <2>4. HasHunks(in) <=> after.object \notin Binary
    BY <1>3 DEF HasHunks
  <2>5. (\A i \in DOMAIN span : HasHunks(span[i])) <=> text
    BY <2>2, <2>3, <2>4
  <2>6. Patch(span) = IF ~text THEN NoPatch ELSE span
    BY <2>5 DEF Patch
  <2>7. QED
    BY <1>1, <1>2, <2>2, <2>6
<1>5. CASE status # "T"
  <2> DEFINE section == [from |-> before, to |-> after]
  <2>1. span = <<section>>
    BY <1>5 DEF SectionsOfPath
  <2>2. DOMAIN span = {1} /\ span[1] = section
    BY <2>1
  <2>3. HasHunks(section) <=> text
    BY DEF HasHunks
  <2>4. Patch(span) = IF ~text THEN NoPatch ELSE span
    BY <2>2, <2>3 DEF Patch
  <2>5. QED
    BY <1>1, <1>2, <1>5, <2>4
<1>6. QED
  BY <1>4, <1>5

\* The streams of a pair, at one place of its queue.
LEMMA StreamsAtPlace ==
  ASSUME NEW pair \in Pairs, NEW i \in DOMAIN Changed[pair]
  PROVE  LET path == Changed[pair][i]
             before == Before(pair, path)
             after == After(pair, path)
         IN  /\ path \in Paths /\ before \in Entries /\ after \in Entries /\ before # after
             /\ Records[pair][i].path = path
             /\ Records[pair][i].status = RawDiffStatus(before, after)
             /\ Counts[pair][i].path = path
             /\ Counts[pair][i].count = <<before.object, after.object>>
             /\ Span(Records[pair], Sections[pair], i) = SectionsOfPath(before, after)
<1> DEFINE path == Changed[pair][i]
           before == Before(pair, path)
           after == After(pair, path)
<1>0. {Changed[pair][j] : j \in DOMAIN Changed[pair]} =
        {p \in Paths : Before(pair, p) # After(pair, p)}
  BY QueueAssumption
<1>1. /\ Changed[pair] \in Seq(Paths) /\ pair.base \in Commits /\ pair.head \in Commits
      /\ path \in {p \in Paths : Before(pair, p) # After(pair, p)}
  BY <1>0, QueueAssumption DEF Pairs
<1>2. path \in Paths /\ before \in Entries /\ after \in Entries /\ before # after
  BY <1>1, QueueAssumption DEF Before, After
<1>3. /\ Records[pair][i].path = path /\ Records[pair][i].status = RawDiffStatus(before, after)
      /\ Counts[pair][i].path = path
      /\ Counts[pair][i].count = <<before.object, after.object>>
  BY DEF Records, Counts, Count, StatusAt
<1>4. Span(Records[pair], Sections[pair], i) = SectionsOfPath(before, after)
  <2>1. i \in Nat /\ i <= Len(Changed[pair]) /\ Len(Changed[pair]) \in Nat
    BY <1>1
  <2>2. ASSUME NEW n \in 0..Len(Changed[pair])
        PROVE  Spanned(Records[pair], n) = Printed(pair, n)
    <3>1. \A j \in 1..n : Records[pair][j].status = StatusAt(pair, j)
      BY <1>1 DEF Records
    <3>2. {j \in 1..n : PatchSectionCount(Records[pair][j].status) = 2} =
            {j \in 1..n : StatusAt(pair, j) = "T"}
      BY <3>1 DEF PatchSectionCount
    <3>3. QED
      BY <3>2 DEF Spanned, Printed
  <2>3. /\ Spanned(Records[pair], i - 1) = Printed(pair, i - 1)
        /\ Spanned(Records[pair], i) = Printed(pair, i)
    BY <1>1, <2>1, <2>2
  <2>4. SubSeq(Sections[pair], Printed(pair, i - 1) + 1, Printed(pair, i)) =
          SectionsOfPath(before, after)
    BY SectionsAssumption DEF PrintedInOrder
  <2>5. QED
    BY <2>3, <2>4 DEF Span
<1>5. QED
  BY <1>2, <1>3, <1>4

\* The three streams have an entry for each path of the queue.
LEMMA StreamsAreAsLong ==
  ASSUME NEW pair \in Pairs
  PROVE  /\ DOMAIN Records[pair] = DOMAIN Changed[pair]
         /\ Len(Records[pair]) = Len(Changed[pair])
         /\ Len(Counts[pair]) = Len(Changed[pair])
         /\ Len(Sections[pair]) = Spanned(Records[pair], Len(Records[pair]))
<1>1. /\ Changed[pair] \in Seq(Paths) /\ Len(Changed[pair]) \in Nat
      /\ DOMAIN Changed[pair] = 1..Len(Changed[pair])
  BY QueueAssumption
<1>2. /\ DOMAIN Records[pair] = DOMAIN Changed[pair]
      /\ DOMAIN Counts[pair] = DOMAIN Changed[pair]
      /\ Records[pair] = [j \in DOMAIN Changed[pair] |-> Records[pair][j]]
      /\ Counts[pair] = [j \in DOMAIN Changed[pair] |-> Counts[pair][j]]
  BY DEF Records, Counts
<1>3. Len(Records[pair]) = Len(Changed[pair]) /\ Len(Counts[pair]) = Len(Changed[pair])
  BY <1>1, <1>2
<1>4. Spanned(Records[pair], Len(Changed[pair])) = Printed(pair, Len(Changed[pair]))
  <2>1. \A j \in 1..Len(Changed[pair]) : Records[pair][j].status = StatusAt(pair, j)
    BY <1>1 DEF Records
  <2>2. {j \in 1..Len(Changed[pair]) : PatchSectionCount(Records[pair][j].status) = 2} =
          {j \in 1..Len(Changed[pair]) : StatusAt(pair, j) = "T"}
    BY <2>1 DEF PatchSectionCount
  <2>3. QED
    BY <2>2 DEF Spanned, Printed
<1>5. Len(Sections[pair]) = Printed(pair, Len(Changed[pair]))
  BY SectionsAssumption DEF PrintedInOrder
<1>6. QED
  BY <1>2, <1>3, <1>4, <1>5

\* What the join makes of the streams of one pair is its change set.
LEMMA JoinIsTheChangeSet ==
  ASSUME NEW pair \in Pairs
  PROVE  /\ JoinsUp(Records[pair], Counts[pair], Sections[pair])
         /\ IsChangeSetOf(LocalChangeSet(Records[pair], Counts[pair], Sections[pair]), pair)
<1> DEFINE queue == Changed[pair]
           files == LocalChangeSet(Records[pair], Counts[pair], Sections[pair])
<1>1. DOMAIN Records[pair] = DOMAIN queue /\ DOMAIN files = DOMAIN queue
  BY StreamsAreAsLong DEF LocalChangeSet
<1>2. JoinsUp(Records[pair], Counts[pair], Sections[pair])
  <2>1. ASSUME NEW i \in DOMAIN queue
        PROVE  /\ Counts[pair][i].path = Records[pair][i].path
               /\ PatchSectionCount(Records[pair][i].status) = 2 =>
                    LET span == Span(Records[pair], Sections[pair], i)
                    IN  span[1].to = Nothing /\ span[2].from = Nothing
    BY <2>1, StreamsAtPlace, SpanOfPath DEF PatchSectionCount
  <2>2. QED
    BY <1>1, <2>1, StreamsAreAsLong DEF JoinsUp
<1>3. ASSUME NEW i \in DOMAIN queue PROVE files[i] = FileOf(pair, queue[i])
  <2> DEFINE before == Before(pair, queue[i])
             after == After(pair, queue[i])
             span == SectionsOfPath(before, after)
  <2>1. files[i] = [filename |-> queue[i], status |-> Wire[RawDiffStatus(before, after)],
                    count |-> <<before.object, after.object>>, patch |-> Patch(span)]
    BY <1>1, StreamsAtPlace DEF LocalChangeSet
  <2>2. /\ before \in Entries /\ after \in Entries /\ before # after
    BY StreamsAtPlace
  <2>3. span = IF before # Nothing /\ after # Nothing /\ before.mode # after.mode
                 THEN <<[from |-> before, to |-> Nothing], [from |-> Nothing, to |-> after]>>
               ELSE <<[from |-> before, to |-> after]>>
    BY DEF SectionsOfPath, RawDiffStatus
  <2>4. QED
    BY <2>1, <2>2, <2>3, SpanOfPath DEF FileOf
<1>4. {queue[i] : i \in DOMAIN queue} = {p \in Paths : Before(pair, p) # After(pair, p)}
  BY QueueAssumption
<1>5. {files[i] : i \in DOMAIN files} = FilesOf[pair]
  <2>1. {files[i] : i \in DOMAIN files} = {FileOf(pair, path) : path \in {queue[i] : i \in DOMAIN queue}}
    BY <1>1, <1>3
  <2>2. QED
    BY <1>4, <2>1 DEF FilesOf
<1>6. \A i, j \in DOMAIN files : i < j => files[i].filename # files[j].filename
  <2>1. \A i \in DOMAIN queue : files[i].filename = queue[i]
    <3>1. \A path : FileOf(pair, path).filename = path
      BY DEF FileOf
    <3>2. QED
      BY <1>3, <3>1
  <2>2. \A i, j \in DOMAIN queue : i # j => queue[i] # queue[j]
    BY QueueAssumption
  <2>3. DOMAIN queue \subseteq Nat
    BY QueueAssumption
  <2>4. QED
    BY <1>1, <2>1, <2>2, <2>3
<1>7. QED
  BY <1>2, <1>5, <1>6 DEF IsChangeSetOf

-----------------------------------------------------------------------------
(* One range throughout *)

\* What a sync has read so far is of the range it resolved.
Gathered(s) ==
  LET now == sync[s] IN
  /\ now.step \in {"pin", "records", "counts", "patch", "log", "blobs", "store"} =>
       now.range.base \in BestCommon(now.tips) /\ now.range.head = now.tips.head
  /\ now.step = "patch" => reads[s].counts = now.range
  /\ now.step \in {"log", "blobs", "store"} => IsChangeSetOf(reads[s].files, now.range)
  /\ now.step \in {"blobs", "store"} => reads[s].commits = Log(now.range)
  /\ now.step # "malformed_diff"

Coherent(snapshot) ==
  /\ snapshot.range.base \in BestCommon(snapshot.tips)
  /\ snapshot.range.head = snapshot.tips.head
  /\ IsChangeSetOf(snapshot.files, snapshot.range)
  /\ snapshot.commits = Log(snapshot.range)

RangeInv ==
  /\ \A s \in Syncs : Gathered(s)
  /\ \A r \in Reviews : envelope[r] # NoEnvelope => Coherent(envelope[r])

\* A step of one sync, before it stores.
LEMMA GatherFrame ==
  ASSUME Inv, RangeInv, NEW s \in Syncs, SyncStep(s), UNCHANGED envelope, Gathered(s)'
  PROVE  RangeInv'
<1>1. \A t \in Syncs \ {s} : sync'[t] = sync[t] /\ reads'[t] = reads[t]
  BY SyncFrame
<1>2. \A t \in Syncs \ {s} : Gathered(t)'
  BY <1>1 DEF RangeInv, Gathered
<1>3. QED
  BY <1>2 DEF RangeInv

LEMMA ResolveGathers ==
  ASSUME Inv, RangeInv, NEW s \in Syncs,
         Start(s) \/ ResolveBase(s) \/ ResolveHead(s) \/ MergeBase(s)
           \/ PinSnapshotObjects(s) \/ PinFails(s)
  PROVE  RangeInv'
<1> USE DEF Become, At
<1> DEFINE now == sync[s]
<1>1. UNCHANGED envelope
  BY DEF Start, ResolveBase, ResolveHead, MergeBase, PinSnapshotObjects, PinFails, store
<1>2. DOMAIN sync = Syncs
  BY DEF Inv, TypeOK
<1>3. CASE Start(s)
  <2>1. sync'[s].step = "base"
    BY <1>2, <1>3 DEF Start, Idle
  <2>2. QED
    BY <1>1, <1>3, <2>1, GatherFrame DEF Gathered, SyncStep
<1>4. CASE ResolveBase(s) \/ ResolveHead(s)
  <2>1. sync'[s].step \in {"ref_not_found", "same_ref", "head", "mergeBase"}
    <3>1. now.step \in {"base", "head"}
      BY <1>4 DEF ResolveBase, ResolveHead
    <3>2. \/ sync'[s] = Refused(s, "ref_not_found") \/ sync'[s] = Refused(s, "same_ref")
          \/ \E tips : sync'[s] = [Advanced(s) EXCEPT !.tips = tips]
      BY <1>2, <1>4 DEF ResolveBase, ResolveHead
    <3>3. /\ \A x : Refused(s, x).step = x
          /\ \A tips : [Advanced(s) EXCEPT !.tips = tips].step = StepAfter[now.step]
      BY Shapes DEF SyncOf
    <3>4. StepAfter[now.step] \in {"head", "mergeBase"}
      BY <3>1 DEF StepAfter
    <3>5. QED
      BY <3>2, <3>3, <3>4
  <2>2. QED
    BY <1>1, <1>4, <2>1, GatherFrame DEF Gathered, SyncStep
<1>5. CASE MergeBase(s)
  <2>1. now.step = "mergeBase"
    BY <1>5 DEF MergeBase
  <2>2. CASE sync'[s] = Refused(s, "ref_not_found") \/ sync'[s] = Refused(s, "unrelated_histories")
    <3>1. sync'[s].step \in {"ref_not_found", "unrelated_histories"}
      BY <2>2, Shapes DEF SyncOf
    <3>2. QED
      BY <1>1, <1>5, <3>1, GatherFrame DEF Gathered, SyncStep
  <2>3. ASSUME NEW c \in BestCommon(now.tips),
               sync'[s] = [Advanced(s) EXCEPT !.range = [base |-> c, head |-> now.tips.head]]
        PROVE  RangeInv'
    <3>1. sync'[s] = SyncOf(StepAfter[now.step], now.tips, [base |-> c, head |-> now.tips.head],
                            now.pinned)
      BY <2>3, Shapes
    <3>2. sync'[s] = SyncOf("pin", now.tips, [base |-> c, head |-> now.tips.head], now.pinned)
      BY <2>1, <3>1 DEF StepAfter
    <3>3. Gathered(s)'
      BY <3>2 DEF Gathered, SyncOf
    <3>4. QED
      BY <1>1, <1>5, <3>3, GatherFrame DEF SyncStep
  <2>4. QED
    BY <1>2, <1>5, <2>2, <2>3 DEF MergeBase
<1>6. CASE PinSnapshotObjects(s) \/ PinFails(s)
  <2>1. now.step = "pin" /\ StepAfter[now.step] = "records"
    BY <1>6 DEF PinSnapshotObjects, PinFails, StepAfter
  <2>2. sync'[s] = Advanced(s) \/ sync'[s] = [Advanced(s) EXCEPT !.pinned = TRUE]
    BY <1>2, <1>6 DEF PinSnapshotObjects, PinFails
  <2>3. PICK pinned : sync'[s] = SyncOf("records", now.tips, now.range, pinned)
    BY <2>1, <2>2, Shapes
  <2>4. Gathered(s)'
    BY <2>1, <2>3 DEF RangeInv, Gathered, SyncOf
  <2>5. QED
    BY <1>1, <1>6, <2>4, GatherFrame DEF SyncStep
<1>7. QED
  BY <1>3, <1>4, <1>5, <1>6

\* Each read adds what it read of the range, and the join never goes wrong.
LEMMA ReadGathers ==
  ASSUME Inv, RangeInv, NEW s \in Syncs,
         ReadLocalDiffFiles(s) \/ ReadLocalNumstat(s) \/ ReadLocalPatchSections(s)
           \/ ReadLocalCommits(s) \/ ProvisionBlobs(s)
  PROVE  RangeInv'
<1> USE DEF Become, At
<1> DEFINE now == sync[s]
           range == now.range
<1>1. UNCHANGED envelope
  BY DEF ReadLocalDiffFiles, ReadLocalNumstat, ReadLocalPatchSections, ReadLocalCommits,
     ProvisionBlobs, store
<1>2. /\ DOMAIN sync = Syncs /\ DOMAIN reads = Syncs
      /\ DOMAIN reads[s] = {"records", "counts", "files", "commits", "missing"}
      /\ range \in Pairs
      /\ now.step \in {"counts", "patch"} => reads[s].records = range
      /\ range.base \in BestCommon(now.tips) /\ range.head = now.tips.head
      /\ now.step \in {"records", "counts", "patch", "log", "blobs"}
      /\ Gathered(s)
  <2>1. now.step \in {"records", "counts", "patch", "log", "blobs"}
    BY DEF ReadLocalDiffFiles, ReadLocalNumstat, ReadLocalPatchSections, ReadLocalCommits,
       ProvisionBlobs
  <2>2. Gathered(s)
    BY DEF RangeInv
  <2>3. QED
    BY <2>1, <2>2 DEF Gathered, Inv, TypeOK, RangesAreKnown, NothingRead
<1>3. \A x : Refused(s, x) = SyncOf(x, now.tips, range, now.pinned)
  BY Shapes
<1>4. Advanced(s) = SyncOf(StepAfter[now.step], now.tips, range, now.pinned)
  BY Shapes
<1>5. CASE sync'[s] = Refused(s, "diff_failed") \/ sync'[s] = Refused(s, "commit_log_failed")
  <2>1. sync'[s].step \in {"diff_failed", "commit_log_failed"}
    BY <1>3, <1>5 DEF SyncOf
  <2>2. QED
    BY <1>1, <2>1, GatherFrame DEF Gathered, SyncStep
<1>6. CASE sync'[s] = Advanced(s)
  <2>1. CASE ReadLocalDiffFiles(s)
    <3>1. sync'[s] = SyncOf("counts", now.tips, range, now.pinned)
      BY <1>4, <1>6, <2>1 DEF ReadLocalDiffFiles, StepAfter
    <3>2. Gathered(s)'
      BY <1>2, <3>1 DEF Gathered, SyncOf
    <3>3. QED
      BY <1>1, <2>1, <3>2, GatherFrame DEF SyncStep
  <2>2. CASE ReadLocalNumstat(s)
    <3>1. sync'[s] = SyncOf("patch", now.tips, range, now.pinned)
      BY <1>4, <1>6, <2>2 DEF ReadLocalNumstat, StepAfter
    <3>2. reads'[s].counts = range
      BY <1>2, <2>2 DEF ReadLocalNumstat
    <3>3. Gathered(s)'
      BY <1>2, <3>1, <3>2 DEF Gathered, SyncOf
    <3>4. QED
      BY <1>1, <2>2, <3>3, GatherFrame DEF SyncStep
  <2>3. CASE ReadLocalPatchSections(s)
    <3>1. sync'[s] = SyncOf("log", now.tips, range, now.pinned)
      BY <1>4, <1>6, <2>3 DEF ReadLocalPatchSections, StepAfter
    <3>2. reads[s].records = range /\ reads[s].counts = range
      BY <1>2, <2>3 DEF ReadLocalPatchSections, Gathered
    <3>3. reads' = [reads EXCEPT ![s].files =
                      LocalChangeSet(Records[range], Counts[range], Sections[range])]
      BY <1>2, <2>3, <3>2, JoinIsTheChangeSet DEF ReadLocalPatchSections
    <3>4. IsChangeSetOf(reads'[s].files, range)
      BY <1>2, <3>3, JoinIsTheChangeSet
    <3>5. Gathered(s)'
      BY <1>2, <3>1, <3>4 DEF Gathered, SyncOf
    <3>6. QED
      BY <1>1, <2>3, <3>5, GatherFrame DEF SyncStep
  <2>4. CASE ReadLocalCommits(s)
    <3>1. sync'[s] = SyncOf("blobs", now.tips, range, now.pinned)
      BY <1>4, <1>6, <2>4 DEF ReadLocalCommits, StepAfter
    <3>2. reads'[s].commits = Log(range) /\ reads'[s].files = reads[s].files
      BY <1>2, <2>4 DEF ReadLocalCommits
    <3>3. IsChangeSetOf(reads[s].files, range)
      BY <1>2, <2>4 DEF ReadLocalCommits, Gathered
    <3>4. Gathered(s)'
      BY <1>2, <3>1, <3>2, <3>3 DEF Gathered, SyncOf
    <3>5. QED
      BY <1>1, <2>4, <3>4, GatherFrame DEF SyncStep
  <2>5. CASE ProvisionBlobs(s)
    <3>1. sync'[s] = SyncOf("store", now.tips, range, now.pinned)
      BY <1>4, <1>6, <2>5 DEF ProvisionBlobs, StepAfter
    <3>2. reads'[s].commits = reads[s].commits /\ reads'[s].files = reads[s].files
      BY <1>2, <2>5 DEF ProvisionBlobs
    <3>3. IsChangeSetOf(reads[s].files, range) /\ reads[s].commits = Log(range)
      BY <1>2, <2>5 DEF ProvisionBlobs, Gathered
    <3>4. Gathered(s)'
      BY <1>2, <3>1, <3>2, <3>3 DEF Gathered, SyncOf
    <3>5. QED
      BY <1>1, <2>5, <3>4, GatherFrame DEF SyncStep
  <2>6. QED
    BY <2>1, <2>2, <2>3, <2>4, <2>5
<1>7. \/ sync'[s] = Advanced(s)
      \/ sync'[s] = Refused(s, "diff_failed") \/ sync'[s] = Refused(s, "commit_log_failed")
  <2>1. CASE ReadLocalPatchSections(s)
    <3>1. JoinsUp(Records[reads[s].records], Counts[reads[s].counts], Sections[range])
      BY <1>2, <2>1, JoinIsTheChangeSet DEF ReadLocalPatchSections, Gathered
    <3>2. QED
      BY <1>2, <2>1, <3>1 DEF ReadLocalPatchSections
  <2>2. CASE ReadLocalDiffFiles(s) \/ ReadLocalNumstat(s)
    BY <1>2, <2>2 DEF ReadLocalDiffFiles, ReadLocalNumstat
  <2>3. CASE ReadLocalCommits(s) \/ ProvisionBlobs(s)
    BY <1>2, <2>3 DEF ReadLocalCommits, ProvisionBlobs
  <2>4. QED
    BY <2>1, <2>2, <2>3
<1>8. QED
  BY <1>5, <1>6, <1>7

\* What is stored is what was gathered.
LEMMA PutGathers ==
  ASSUME Inv, RangeInv, NEW s \in Syncs, PutLocalSnapshot(s)
  PROVE  RangeInv'
<1>1. \A t \in Syncs \ {s} : sync'[t] = sync[t] /\ reads'[t] = reads[t]
  BY SyncFrame DEF SyncStep
<1>2. \A t \in Syncs \ {s} : Gathered(t)'
  BY <1>1 DEF RangeInv, Gathered
<1>3. sync'[s].step = "idle"
  BY DEF PutLocalSnapshot, Become, Idle, Inv, TypeOK
<1>4. Gathered(s)'
  BY <1>3 DEF Gathered
<1> PICK snapshot : snapshot =
       [synced |-> TRUE, tips |-> sync[s].tips, range |-> sync[s].range,
        pinned |-> sync[s].pinned, files |-> reads[s].files,
        commits |-> reads[s].commits, missing |-> reads[s].missing]
  OBVIOUS
<1>5. sync[s].step = "store" /\ Gathered(s)
  BY DEF PutLocalSnapshot, At, RangeInv
<1>6. Coherent(snapshot)
  BY <1>5 DEF Gathered, Coherent
<1>7. envelope' = [envelope EXCEPT ![ReviewOf[s]] = snapshot]
  BY DEF PutLocalSnapshot
<1>8. \A r \in Reviews : envelope'[r] # NoEnvelope => Coherent(envelope'[r])
  BY <1>6, <1>7 DEF RangeInv, Inv, TypeOK
<1>9. QED
  BY <1>2, <1>4, <1>8 DEF RangeInv

LEMMA NextGathers == Inv /\ RangeInv /\ [Next]_vars => RangeInv'
<1> SUFFICES ASSUME Inv, RangeInv, [Next]_vars PROVE RangeInv'
  OBVIOUS
<1>1. CASE UNCHANGED <<sync, reads, envelope>>
  BY <1>1 DEF RangeInv, Gathered
<1>2. CASE \E s \in Syncs : SyncStep(s)
  BY <1>2, ResolveGathers, ReadGathers, PutGathers DEF SyncStep
<1>3. CASE \E r \in Reviews : DeleteLocalReview(r)
  <2>1. PICK r \in Reviews : DeleteLocalReview(r)
    BY <1>3
  <2>2. UNCHANGED <<sync, reads>> /\ envelope' = [envelope EXCEPT ![r] = NoEnvelope]
    BY <2>1 DEF DeleteLocalReview, syncing
  <2>3. \A q \in Reviews : envelope'[q] # NoEnvelope => Coherent(envelope'[q])
    BY <2>2 DEF RangeInv, Inv, TypeOK
  <2>4. QED
    BY <2>2, <2>3 DEF RangeInv, Gathered
<1>4. CASE Crash
  <2>1. UNCHANGED envelope /\ \A s \in Syncs : sync'[s].step = "idle"
    BY <1>4 DEF Crash, store, Idle
  <2>2. QED
    BY <2>1 DEF RangeInv, Gathered
<1>5. QED
  BY <1>1, <1>2, <1>3, <1>4
  DEF Next, DeletionStep, ListPins, DropPin, DropFails, MoveBranch, DeleteBranch, Collect,
      vars, store, syncing

\* A stored snapshot is of one range throughout, for any history and any diff:
\* the join by position gives each path its own counts and its own patch
\* (buildLocalChangeSet), and no clone is called malformed.
THEOREM SnapshotsAreOfTheirRange == Spec => []SnapshotIsOfItsRange
<1>1. Init => RangeInv
  BY DEF Init, Idle, RangeInv, Gathered
<1>2. Spec => []RangeInv
  BY <1>1, InvHolds, NextGathers, PTL DEF Spec
<1>3. RangeInv => SnapshotIsOfItsRange
  BY DEF RangeInv, Gathered, Coherent, SnapshotIsOfItsRange, At
<1>4. QED
  BY <1>2, <1>3, PTL
=============================================================================
