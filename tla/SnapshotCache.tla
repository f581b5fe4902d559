--------------------------- MODULE SnapshotCache ---------------------------
(***************************************************************************)
(* The two-half snapshot cache of revud and everything that writes it:     *)
(* pull-request syncs, local-review syncs, the deletion of a local review, *)
(* and the sweeps that reclaim rows nothing references.                    *)
(*                                                                         *)
(* A stored snapshot is an ENVELOPE (the mutable half, one row per review) *)
(* that names by compare key a shared, cached-forever IMMUTABLE half.  A   *)
(* sync lands half, bytes and envelope at separate moments with awaits in  *)
(* between; a request is therefore one process here, and one step of it is *)
(* what the daemon's single thread runs between two awaits.  The sweep is  *)
(* two reads and a transaction with no await between them: while it runs,  *)
(* its own daemon (and only its own) is held in `sweeps`.                  *)
(*                                                                         *)
(* Tables are functions whose domain is the set of keys with a row (see    *)
(* Tables).                                                                *)
(***************************************************************************)
EXTENDS Integers, FiniteSets, Tables

CONSTANTS
  Daemons,      \* revud processes opened on one data directory
  Requests,     \* request slots: the syncs and deletions that can overlap
  DaemonOf,     \* the daemon that serves each request slot
  Pulls,        \* pull-request numbers
  Locals,       \* local-review ids (never reissued)
  CompareKeys,  \* comparisons, `merge_base...head`
  HeadsOf,      \* the comparisons a review's branch pair may show
  Capped,       \* comparisons GitHub lists only in part
  Blobs,        \* blob SHAs
  BlobsOf,      \* the SHAs a whole comparison's index names
  BeyondCap,    \* the SHAs that only files past the cap name
  ReclaimBlobs, \* BlobRetentionPolicy.reclaimBlobs
  PushMidFetch, \* may a push land between a sync's detail read and its file list?
  None

Reviews == Pulls \cup Locals

ASSUME CacheAssumption ==
  /\ DaemonOf \in [Requests -> Daemons]
  /\ Pulls \cap Locals = {}
  /\ HeadsOf \in [Reviews -> SUBSET CompareKeys]
  /\ Capped \subseteq CompareKeys
  /\ BlobsOf \in [CompareKeys -> SUBSET Blobs]
  /\ BeyondCap \subseteq Blobs
  /\ ReclaimBlobs \in BOOLEAN /\ PushMidFetch \in BOOLEAN
  /\ IsFiniteSet(Requests)

VARIABLES
  immutables, \* table: compare key -> the half and the half's own `partial`
  envelopes,  \* tables snapshots and local_snapshots: review -> envelope
  blobs,      \* table blobs: the SHAs with a row
  status,     \* table local_reviews: has a local review a row, did it ever?
  gate,       \* SyncGate.inFlight of each daemon, in its memory
  jobs,       \* request slot -> the request it is serving, in memory
  sweeps,     \* daemon -> the sweep its thread is inside
  head        \* the comparison each branch pair shows right now (git, GitHub)

store == <<immutables, envelopes, blobs, status>>
vars  == <<immutables, envelopes, blobs, status, gate, jobs, sweeps, head>>

(* What one comparison is recorded as.  `files` is the comparison its file *)
(* list was really read from; `capped` says that the list stops short.     *)
Half     == [files: CompareKeys, capped: BOOLEAN]
Stored   == [files: CompareKeys, capped: BOOLEAN, partial: BOOLEAN]
Envelope == [key: CompareKeys, partial: BOOLEAN, missing: SUBSET Blobs]

SyncSteps == {"detail", "lookup", "fetch", "store", "build", "provision", "land", "leave"}
Job == [review: Reviews, step: SyncSteps \cup {"unpin", "reclaim"},
        key: CompareKeys \cup {None}, half: Half \cup {None}, partial: BOOLEAN,
        todo: SUBSET Blobs, fresh: SUBSET Blobs, missing: SUBSET Blobs,
        landed: BOOLEAN]
Sweep == [phase: {"halves", "between", "blobs"},
          halves: SUBSET CompareKeys, blobs: SUBSET Blobs]

HalfOf(row) == [files |-> row.files, capped |-> row.capped]

(* Both sides of every path a half lists: what provisioning must produce   *)
(* and what keeps a blob row referenced.                                   *)
BlobIndex(half) ==
  BlobsOf[half.files] \ (IF half.capped THEN BeyondCap ELSE {})

(* The reference sets a sweep and its transaction compute.                 *)
LiveCompareKeys == {envelopes[r].key : r \in DOMAIN envelopes}
(* Fault: only what pull requests name counts as referenced.               *)
PullsAloneReferToBlobs ==
  UNION {BlobIndex(immutables[envelopes[r].key]) : r \in DOMAIN envelopes \cap Pulls}
ReferencedBlobShas == UNION {BlobIndex(immutables[k]) : k \in DOMAIN immutables}

(* The row's own `partial`, read inside the snapshot transaction: an       *)
(* absent row reads as a complete half.                                    *)
OwnImmutablePartial(k) == k \in DOMAIN immutables /\ immutables[k].partial

(* The daemon's thread is not inside a sweep, so it can run a request.     *)
Free(d) == d \notin DOMAIN sweeps
At(q, step) == q \in DOMAIN jobs /\ jobs[q].step = step /\ Free(DaemonOf[q])
GateOf(q) == gate[DaemonOf[q]]

SyncsOf(d) == {q \in DOMAIN jobs : DaemonOf[q] = d /\ jobs[q].step \in SyncSteps}

----------------------------------------------------------------------------

Init ==
  /\ immutables = EmptyTable /\ envelopes = EmptyTable /\ blobs = {}
  /\ status = [l \in Locals |-> "unborn"]
  /\ gate = [d \in Daemons |-> 0]
  /\ jobs = EmptyTable /\ sweeps = EmptyTable
  /\ head \in {h \in [Reviews -> CompareKeys] : \A r \in Reviews : h[r] \in HeadsOf[r]}

NewJob(r, step) ==
  [review |-> r, step |-> step, key |-> None, half |-> None, partial |-> FALSE,
   todo |-> {}, fresh |-> {}, missing |-> {}, landed |-> FALSE]

(* POST /local-reviews for a branch pair that has no review yet.           *)
CreateLocalReview(l) ==
  /\ status[l] = "unborn"
  /\ status' = [status EXCEPT ![l] = "live"]
  /\ UNCHANGED <<immutables, envelopes, blobs, gate, jobs, sweeps, head>>

(* syncPull on either kind of review enters the gate and then starts.  A   *)
(* local review must have its row; a pull request need not be known.       *)
EnterSync(q, r) ==
  /\ q \notin DOMAIN jobs /\ Free(DaemonOf[q])
  /\ r \in Locals => status[r] = "live"
  /\ gate' = [gate EXCEPT ![DaemonOf[q]] = @ + 1]
  /\ jobs' = Upsert(jobs, q, NewJob(r, "detail"))
  /\ UNCHANGED <<immutables, envelopes, blobs, status, sweeps, head>>

(* The pull detail (or resolveLocalRange) answers with what the branch     *)
(* pair shows at that moment, and the compare key is fixed for this sync.  *)
ReadDetail(q) ==
  /\ At(q, "detail")
  /\ LET r == jobs[q].review
     IN  jobs' = [jobs EXCEPT ![q].key = head[r],
                              ![q].step = IF r \in Pulls THEN "lookup" ELSE "build"]
  /\ UNCHANGED <<immutables, envelopes, blobs, status, gate, sweeps, head>>

(* Fault: a hit reuses the half without reattaching its `partial`.         *)
LookUpWithoutPartial(q) ==
  /\ At(q, "lookup")
  /\ LET k == jobs[q].key
     IN  jobs' = IF k \in DOMAIN immutables
                   THEN [jobs EXCEPT ![q].half = HalfOf(immutables[k]),
                                     ![q].todo = BlobIndex(immutables[k]),
                                     ![q].step = "provision"]
                   ELSE [jobs EXCEPT ![q].step = "fetch"]
  /\ UNCHANGED <<immutables, envelopes, blobs, status, gate, sweeps, head>>

(* syncPull step 1: a hit reuses the half and its own `partial`; a miss    *)
(* goes to GitHub for the half.                                            *)
LookUpHalf(q) ==
  /\ At(q, "lookup")
  /\ LET k == jobs[q].key IN
       \/ /\ k \in DOMAIN immutables
          /\ jobs' = [jobs EXCEPT ![q].half = HalfOf(immutables[k]),
                                  ![q].partial = immutables[k].partial,
                                  ![q].todo = BlobIndex(immutables[k]),
                                  ![q].step = "provision"]
       \/ /\ k \notin DOMAIN immutables
          /\ jobs' = [jobs EXCEPT ![q].step = "fetch"]
  /\ UNCHANGED <<immutables, envelopes, blobs, status, gate, sweeps, head>>

(* fetchImmutable lists the files of the PULL REQUEST, by number: what it  *)
(* gets belongs to the head the request shows when the listing is served.  *)
FetchHalf(q) ==
  /\ At(q, "fetch")
  /\ LET now == head[jobs[q].review]
     IN  jobs' = [jobs EXCEPT ![q].half = [files |-> now, capped |-> now \in Capped],
                              ![q].partial = now \in Capped,
                              ![q].step = "store"]
  /\ UNCHANGED <<immutables, envelopes, blobs, status, gate, sweeps, head>>

(* putImmutable: the cold path records the half with its own `partial`.    *)
PutImmutable(q) ==
  /\ At(q, "store")
  /\ LET j == jobs[q] IN
       /\ immutables' = Upsert(immutables, j.key,
            [files |-> j.half.files, capped |-> j.half.capped, partial |-> j.partial])
       /\ jobs' = [jobs EXCEPT ![q].todo = BlobIndex(j.half), ![q].step = "provision"]
  /\ UNCHANGED <<envelopes, blobs, status, gate, sweeps, head>>

(* readLocalSnapshotImmutable: the whole comparison, read from the clone   *)
(* by commit SHA.  The cache is not consulted and not yet written.         *)
BuildHalf(q) ==
  /\ At(q, "build")
  /\ LET built == [files |-> jobs[q].key, capped |-> FALSE]
     IN  jobs' = [jobs EXCEPT ![q].half = built, ![q].todo = BlobIndex(built),
                              ![q].step = "provision"]
  /\ UNCHANGED <<immutables, envelopes, blobs, status, gate, sweeps, head>>

(* provisionBlobs, one SHA: reused when the store holds it; otherwise the  *)
(* clone or the API produces the bytes, or nothing does.                   *)
ProvisionBlob(q, b) ==
  /\ At(q, "provision") /\ b \in jobs[q].todo
  /\ \/ /\ b \in blobs
        /\ jobs' = [jobs EXCEPT ![q].todo = @ \ {b}]
     \/ /\ b \notin blobs
        /\ jobs' = [jobs EXCEPT ![q].todo = @ \ {b}, ![q].fresh = @ \cup {b}]
     \/ /\ b \notin blobs
        /\ jobs' = [jobs EXCEPT ![q].todo = @ \ {b}, ![q].missing = @ \cup {b}]
  /\ UNCHANGED <<immutables, envelopes, blobs, status, gate, sweeps, head>>

(* The bytes collected are written in one putBlobs, after the last probe.  *)
PutBlobs(q) ==
  /\ At(q, "provision") /\ jobs[q].todo = {}
  /\ blobs' = blobs \cup jobs[q].fresh
  /\ jobs' = [jobs EXCEPT ![q].fresh = {}, ![q].step = "land"]
  /\ UNCHANGED <<immutables, envelopes, status, gate, sweeps, head>>

(* Fault: the half takes the snapshot's merged `partial`.                  *)
PutMergedPartial(q) ==
  /\ At(q, "land")
  /\ LET j == jobs[q] IN
       /\ immutables' = Upsert(immutables, j.key,
            [files |-> j.half.files, capped |-> j.half.capped,
             partial |-> j.partial \/ j.missing # {}])
       /\ envelopes' = Upsert(envelopes, j.review,
            [key |-> j.key, partial |-> j.partial, missing |-> j.missing])
       /\ jobs' = [jobs EXCEPT ![q].landed = TRUE, ![q].step = "leave"]
  /\ UNCHANGED <<blobs, status, gate, sweeps, head>>

(* writeSnapshotRows, one immediate transaction: the half goes back under  *)
(* its key with whatever `partial` the row has now, and the envelope takes *)
(* the merged one.  Nothing asks whether the review still exists.          *)
PutSnapshot(q) ==
  /\ At(q, "land")
  /\ LET j == jobs[q] IN
       /\ immutables' = Upsert(immutables, j.key,
            [files |-> j.half.files, capped |-> j.half.capped,
             partial |-> OwnImmutablePartial(j.key)])
       /\ envelopes' = Upsert(envelopes, j.review,
            [key |-> j.key, partial |-> j.partial, missing |-> j.missing])
       /\ jobs' = [jobs EXCEPT ![q].landed = TRUE, ![q].step = "leave"]
  /\ UNCHANGED <<blobs, status, gate, sweeps, head>>

(* A request to GitHub or git, or a store write, fails: the sync rejects.  *)
FailSync(q) ==
  /\ q \in DOMAIN jobs /\ Free(DaemonOf[q])
  /\ jobs[q].step \in SyncSteps \ {"leave"}
  /\ jobs' = [jobs EXCEPT ![q].step = "leave"]
  /\ UNCHANGED <<immutables, envelopes, blobs, status, gate, sweeps, head>>

(* The `finally` of withSyncInFlight.  A local sync that produced a        *)
(* snapshot goes on to reclaim; a pull-request sync never does.            *)
LeaveGate(q) ==
  /\ At(q, "leave")
  /\ gate' = [gate EXCEPT ![DaemonOf[q]] = @ - 1]
  /\ jobs' = IF jobs[q].landed /\ jobs[q].review \in Locals
               THEN [jobs EXCEPT ![q] = NewJob(jobs[q].review, "reclaim")]
               ELSE Without(jobs, {q})
  /\ UNCHANGED <<immutables, envelopes, blobs, status, sweeps, head>>

(* DELETE /local-reviews/:id: the rows of the review go in one             *)
(* transaction, before anything is awaited.                                *)
DeleteLocalReview(q, l) ==
  /\ q \notin DOMAIN jobs /\ Free(DaemonOf[q])
  /\ status[l] = "live"
  /\ status' = [status EXCEPT ![l] = "deleted"]
  /\ envelopes' = Without(envelopes, {l})
  /\ jobs' = Upsert(jobs, q, NewJob(l, "unpin"))
  /\ UNCHANGED <<immutables, blobs, gate, sweeps, head>>

(* dropPinnedRefs returned, with every ref gone or not: reclaim next.      *)
DropPins(q) ==
  /\ At(q, "unpin")
  /\ jobs' = [jobs EXCEPT ![q].step = "reclaim"]
  /\ UNCHANGED <<immutables, envelopes, blobs, status, gate, sweeps, head>>

(* reclaimUnreferenced with a sync in flight on this daemon: both prunes   *)
(* stand aside.                                                            *)
SweepHeldOff(q) ==
  /\ At(q, "reclaim") /\ GateOf(q) > 0
  /\ jobs' = Without(jobs, {q})
  /\ UNCHANGED <<immutables, envelopes, blobs, status, gate, sweeps, head>>

(* Fault: the sweep does not ask the gate.                                 *)
ProposeUngated(q) ==
  /\ At(q, "reclaim")
  /\ sweeps' = Upsert(sweeps, DaemonOf[q],
       [phase |-> "halves", halves |-> DOMAIN immutables \ LiveCompareKeys, blobs |-> {}])
  /\ jobs' = Without(jobs, {q})
  /\ UNCHANGED <<immutables, envelopes, blobs, status, gate, head>>

(* pruneImmutables proposes the stored keys that no envelope names.        *)
ProposeHalves(q) ==
  /\ At(q, "reclaim") /\ GateOf(q) = 0
  /\ sweeps' = Upsert(sweeps, DaemonOf[q],
       [phase |-> "halves", halves |-> DOMAIN immutables \ LiveCompareKeys, blobs |-> {}])
  /\ jobs' = Without(jobs, {q})
  /\ UNCHANGED <<immutables, envelopes, blobs, status, gate, head>>

(* Fault: the transaction trusts the keys it was handed.                   *)
DisposeUnchecked(d) ==
  /\ d \in DOMAIN sweeps /\ sweeps[d].phase = "halves"
  /\ immutables' = Without(immutables, sweeps[d].halves)
  /\ sweeps' = [sweeps EXCEPT ![d].phase = "between", ![d].halves = {}]
  /\ UNCHANGED <<envelopes, blobs, status, gate, jobs, head>>

(* deleteImmutables recomputes the live keys inside its transaction.       *)
DisposeHalves(d) ==
  /\ d \in DOMAIN sweeps /\ sweeps[d].phase = "halves"
  /\ immutables' = Without(immutables, sweeps[d].halves \ LiveCompareKeys)
  /\ sweeps' = [sweeps EXCEPT ![d].phase = "between", ![d].halves = {}]
  /\ UNCHANGED <<envelopes, blobs, status, gate, jobs, head>>

(* pruneBlobs: withheld by the default policy, else it proposes the stored *)
(* SHAs that no surviving half names.                                      *)
ProposeBlobs(d) ==
  /\ d \in DOMAIN sweeps /\ sweeps[d].phase = "between"
  /\ sweeps' = IF ReclaimBlobs
                 THEN [sweeps EXCEPT ![d].phase = "blobs",
                                     ![d].blobs = blobs \ ReferencedBlobShas]
                 ELSE Without(sweeps, {d})
  /\ UNCHANGED <<immutables, envelopes, blobs, status, gate, jobs, head>>

(* deleteBlobs recomputes the referenced SHAs inside its transaction.      *)
DisposeBlobs(d) ==
  /\ d \in DOMAIN sweeps /\ sweeps[d].phase = "blobs"
  /\ blobs' = blobs \ (sweeps[d].blobs \ ReferencedBlobShas)
  /\ sweeps' = Without(sweeps, {d})
  /\ UNCHANGED <<immutables, envelopes, status, gate, jobs, head>>

(* A daemon dies and is started again: its memory is lost, the file stays. *)
Crash(d) ==
  /\ gate' = [gate EXCEPT ![d] = 0]
  /\ jobs' = Without(jobs, {q \in Requests : DaemonOf[q] = d})
  /\ sweeps' = Without(sweeps, {d})
  /\ UNCHANGED <<immutables, envelopes, blobs, status, head>>

(* A push, a rebase or a base advance moves what a branch pair shows.      *)
Push(r) ==
  /\ \/ PushMidFetch
     \/ \A q \in DOMAIN jobs :
          ~ (jobs[q].review = r /\ jobs[q].step \in {"lookup", "fetch"})
  /\ \E k \in HeadsOf[r] \ {head[r]} : head' = [head EXCEPT ![r] = k]
  /\ UNCHANGED <<immutables, envelopes, blobs, status, gate, jobs, sweeps>>

----------------------------------------------------------------------------

SyncStep(q) ==
  \/ ReadDetail(q) \/ LookUpHalf(q) \/ FetchHalf(q) \/ PutImmutable(q)
  \/ BuildHalf(q) \/ (\E b \in Blobs : ProvisionBlob(q, b)) \/ PutBlobs(q)
  \/ PutSnapshot(q) \/ LeaveGate(q)

SweepStep(d) == DisposeHalves(d) \/ ProposeBlobs(d) \/ DisposeBlobs(d)

Next ==
  \/ \E q \in Requests :
       \/ \E r \in Reviews : EnterSync(q, r)
       \/ SyncStep(q) \/ FailSync(q)
       \/ \E l \in Locals : DeleteLocalReview(q, l)
       \/ DropPins(q) \/ SweepHeldOff(q) \/ ProposeHalves(q)
  \/ \E l \in Locals : CreateLocalReview(l)
  \/ \E d \in Daemons : SweepStep(d) \/ Crash(d)
  \/ \E r \in Reviews : Push(r)

Spec == Init /\ [][Next]_vars

----------------------------------------------------------------------------

(* Types: every table holds rows of its shape under keys of its kind, and  *)
(* no request runs past the step that reads its key without having one.    *)
TypeOK ==
  /\ IsTable(immutables, CompareKeys, Stored)
  /\ IsTable(envelopes, Reviews, Envelope)
  /\ blobs \subseteq Blobs
  /\ status \in [Locals -> {"unborn", "live", "deleted"}]
  /\ gate \in [Daemons -> Nat]
  /\ IsTable(jobs, Requests, Job)
  /\ IsTable(sweeps, Daemons, Sweep)
  /\ head \in [Reviews -> CompareKeys]

(* A stored envelope never names an immutable half that is not on disk, so *)
(* getSnapshot never answers StoreUnreadable: the sweeps of any daemon     *)
(* recompute what is live in the transaction that deletes.                 *)
NoDanglingEnvelope ==
  \A r \in DOMAIN envelopes : envelopes[r].key \in DOMAIN immutables

(* The gate counts exactly the syncs of its daemon that have not left,     *)
(* whether they landed or rejected: a sweep is held off while one runs and *)
(* no longer (withSyncInFlight's try / finally).                           *)
GateCountsSyncs == \A d \in Daemons : gate[d] = Cardinality(SyncsOf(d))

(* A cached half says it is incomplete exactly when it is: a sweep between *)
(* putImmutable and putSnapshot cannot turn a capped half into a whole     *)
(* one, and a missing blob is never pinned to the half as a truncation.    *)
HalvesSayWhatTheyAre ==
  \A k \in DOMAIN immutables : immutables[k].partial = immutables[k].capped

(* The bytes a sync has found in the store stay there until its envelope   *)
(* names them: hasBlob is asked long before anything references the SHA.   *)
FoundBytesStay ==
  \A q \in DOMAIN jobs :
    jobs[q].step \in {"provision", "land"} =>
      BlobIndex(jobs[q].half) \ (jobs[q].todo \cup jobs[q].fresh \cup jobs[q].missing)
        \subseteq blobs

(* What getSnapshot would answer for a review with an envelope.            *)
Shown(r) ==
  [key |-> envelopes[r].key, partial |-> envelopes[r].partial,
   missing |-> envelopes[r].missing, half |-> HalfOf(immutables[envelopes[r].key])]

(* A snapshot that stops short says so: capped files never come without    *)
(* the envelope's `partial`, and bytes that are not in the store are named *)
(* as missing.                                                             *)
SnapshotsAreHonest ==
  \A r \in DOMAIN envelopes :
    /\ Shown(r).half.capped => Shown(r).partial
    /\ BlobIndex(Shown(r).half) \ blobs \subseteq Shown(r).missing

(* The immutable half stored under a key is the comparison the key names   *)
(* (sync.ts: "a pure function of the compare").                            *)
HalfIsItsComparison ==
  \A k \in DOMAIN immutables : immutables[k].files = k

(* Deleting a local review leaves no row of it behind, a sync of it that   *)
(* was in flight included (MILESTONES.md, M8.10).                          *)
DeletedLeavesNoEnvelope ==
  \A l \in Locals : status[l] = "deleted" => l \notin DOMAIN envelopes

(* What each review shows, for the abstract promise.                       *)
ShownNow == [r \in DOMAIN envelopes |-> Shown(r)]
Promise == INSTANCE SnapshotPromise WITH shown <- ShownNow
PromiseSpec == Promise!Spec

=============================================================================
