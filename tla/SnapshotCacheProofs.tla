------------------------ MODULE SnapshotCacheProofs ------------------------
(***************************************************************************)
(* Proofs about SnapshotCache, for any number of daemons, request slots,   *)
(* reviews, comparisons and blobs.                                         *)
(***************************************************************************)
EXTENDS SnapshotCache, FiniteSetTheorems, TLAPS

-----------------------------------------------------------------------------
(* Writing and deleting rows keeps a table a table of its type.            *)
LEMMA UpsertTable ==
  ASSUME NEW K, NEW V, NEW t, IsTable(t, K, V), NEW k \in K, NEW v \in V
  PROVE  /\ IsTable(Upsert(t, k, v), K, V)
         /\ DOMAIN Upsert(t, k, v) = DOMAIN t \cup {k}
         /\ Upsert(t, k, v)[k] = v
         /\ \A x \in DOMAIN t : x # k => Upsert(t, k, v)[x] = t[x]
BY DEF IsTable, Upsert

LEMMA WithoutTable ==
  ASSUME NEW K, NEW V, NEW t, IsTable(t, K, V), NEW S
  PROVE  /\ IsTable(Without(t, S), K, V)
         /\ DOMAIN Without(t, S) = DOMAIN t \ S
         /\ \A x \in DOMAIN t \ S : Without(t, S)[x] = t[x]
BY DEF IsTable, Without, Restrict

LEMMA EmptyTableIsTable ==
  ASSUME NEW K, NEW V
  PROVE  IsTable(EmptyTable, K, V) /\ DOMAIN EmptyTable = {}
BY DEF IsTable, EmptyTable

LEMMA ExceptTable ==
  ASSUME NEW K, NEW V, NEW t, IsTable(t, K, V), NEW k \in DOMAIN t, NEW v \in V
  PROVE  /\ IsTable([t EXCEPT ![k] = v], K, V)
         /\ DOMAIN [t EXCEPT ![k] = v] = DOMAIN t
         /\ [t EXCEPT ![k] = v][k] = v
         /\ \A x \in DOMAIN t : x # k => [t EXCEPT ![k] = v][x] = t[x]
BY DEF IsTable

-----------------------------------------------------------------------------

(* A request that has read its key, or its half, holds one.                *)
Ready(j) ==
  /\ j.step \in SyncSteps \ {"detail", "leave"} => j.key \in CompareKeys
  /\ j.step \in {"store", "provision", "land"} => j.half \in Half

ReadyJob == {j \in Job : Ready(j)}

TInv ==
  /\ IsTable(immutables, CompareKeys, Stored)
  /\ IsTable(envelopes, Reviews, Envelope)
  /\ blobs \subseteq Blobs
  /\ status \in [Locals -> {"unborn", "live", "deleted"}]
  /\ gate \in [Daemons -> Int]
  /\ IsTable(jobs, Requests, ReadyJob)
  /\ IsTable(sweeps, Daemons, Sweep)
  /\ head \in [Reviews -> CompareKeys]

LEMMA NewJobType ==
  ASSUME NEW r \in Reviews, NEW step \in {"detail", "unpin", "reclaim"}
  PROVE  NewJob(r, step) \in ReadyJob
BY DEF NewJob, Job, ReadyJob, Ready, SyncSteps

LEMMA BlobIndexType ==
  ASSUME CacheAssumption, NEW h, h.files \in CompareKeys
  PROVE  BlobIndex(h) \subseteq Blobs
BY DEF CacheAssumption, BlobIndex

LEMMA TablesInit == Init => TInv
BY EmptyTableIsTable DEF Init, TInv

(* Advancing one request: what each step leaves in its job.                *)
LEMMA JobAt ==
  ASSUME TInv, NEW q, NEW step, At(q, step)
  PROVE  /\ q \in DOMAIN jobs /\ q \in Requests
         /\ jobs[q] \in Job /\ Ready(jobs[q]) /\ jobs[q].step = step
BY DEF TInv, At, IsTable, ReadyJob

LEMMA TablesStep == CacheAssumption /\ TInv /\ [Next]_vars => TInv'
<1> SUFFICES ASSUME CacheAssumption, TInv, [Next]_vars PROVE TInv'
  OBVIOUS
<1>0. /\ IsTable(immutables, CompareKeys, Stored)
      /\ IsTable(envelopes, Reviews, Envelope)
      /\ IsTable(jobs, Requests, ReadyJob)
      /\ IsTable(sweeps, Daemons, Sweep)
  BY DEF TInv
<1>1. ASSUME NEW q \in Requests, NEW r \in Reviews, EnterSync(q, r) PROVE TInv'
  <2>1. NewJob(r, "detail") \in ReadyJob
    BY NewJobType
  <2>2. IsTable(jobs', Requests, ReadyJob)
    BY <1>0, <1>1, <2>1, UpsertTable DEF EnterSync
  <2>3. gate' \in [Daemons -> Int]
    BY <1>1 DEF EnterSync, TInv
  <2> QED BY <1>1, <2>2, <2>3 DEF EnterSync, TInv
<1>2. ASSUME NEW q \in Requests, ReadDetail(q) PROVE TInv'
  <2>1. /\ q \in DOMAIN jobs /\ jobs[q] \in Job
        /\ head[jobs[q].review] \in CompareKeys
    BY <1>2, JobAt DEF ReadDetail, TInv, Job
  <2> DEFINE k == head[jobs[q].review]
             step == IF jobs[q].review \in Pulls THEN "lookup" ELSE "build"
             j == [jobs[q] EXCEPT !.key = k, !.step = step]
  <2>2. j \in ReadyJob
    BY <2>1 DEF ReadyJob, Ready, Job, SyncSteps
  <2>3. jobs' = [jobs EXCEPT ![q] = j]
    BY <1>2, <2>1 DEF ReadDetail
  <2> HIDE DEF j
  <2>4. IsTable(jobs', Requests, ReadyJob)
    BY <1>0, <2>1, <2>2, <2>3, ExceptTable
  <2> QED BY <1>2, <2>4 DEF ReadDetail, TInv
<1>3. ASSUME NEW q \in Requests, LookUpHalf(q) PROVE TInv'
  <2>1. q \in DOMAIN jobs /\ jobs[q] \in Job /\ jobs[q].key \in CompareKeys
    BY <1>3, JobAt DEF LookUpHalf, Ready, SyncSteps
  <2> DEFINE row == immutables[jobs[q].key]
             hit == [jobs[q] EXCEPT !.half = HalfOf(row), !.partial = row.partial,
                                    !.todo = BlobIndex(row), !.step = "provision"]
             miss == [jobs[q] EXCEPT !.step = "fetch"]
  <2>2. CASE jobs[q].key \in DOMAIN immutables
    <3>1. row \in Stored
      BY <1>0, <2>2 DEF IsTable
    <3>2. BlobIndex(row) \subseteq Blobs
      BY <3>1, BlobIndexType DEF Stored
    <3>3. hit \in ReadyJob
      BY <2>1, <3>1, <3>2 DEF ReadyJob, Ready, Job, SyncSteps, HalfOf, Stored, Half
    <3>4. jobs' = [jobs EXCEPT ![q] = hit]
      BY <1>3, <2>1, <2>2 DEF LookUpHalf
    <3> HIDE DEF hit
    <3>5. IsTable(jobs', Requests, ReadyJob)
      BY <1>0, <2>1, <3>3, <3>4, ExceptTable
    <3> QED BY <1>3, <3>5 DEF LookUpHalf, TInv
  <2>3. CASE jobs[q].key \notin DOMAIN immutables
    <3>1. miss \in ReadyJob
      BY <2>1 DEF ReadyJob, Ready, Job, SyncSteps
    <3>2. jobs' = [jobs EXCEPT ![q] = miss]
      BY <1>3, <2>1, <2>3 DEF LookUpHalf
    <3> HIDE DEF miss
    <3>3. IsTable(jobs', Requests, ReadyJob)
      BY <1>0, <2>1, <3>1, <3>2, ExceptTable
    <3> QED BY <1>3, <3>3 DEF LookUpHalf, TInv
  <2> QED BY <2>2, <2>3
<1>4. ASSUME NEW q \in Requests, FetchHalf(q) PROVE TInv'
  <2>1. /\ q \in DOMAIN jobs /\ jobs[q] \in Job /\ jobs[q].key \in CompareKeys
        /\ head[jobs[q].review] \in CompareKeys
    BY <1>4, JobAt DEF FetchHalf, Ready, SyncSteps, TInv, Job
  <2> DEFINE now == head[jobs[q].review]
             c == now \in Capped
             j == [jobs[q] EXCEPT !.half = [files |-> now, capped |-> c],
                                  !.partial = c, !.step = "store"]
  <2>3. jobs' = [jobs EXCEPT ![q] = j]
    BY <1>4, <2>1 DEF FetchHalf
  <2>5. c \in BOOLEAN
    OBVIOUS
  <2> HIDE DEF c
  <2>2. j \in ReadyJob
    BY <2>1, <2>5 DEF ReadyJob, Ready, Job, SyncSteps, Half
  <2> HIDE DEF j
  <2>4. IsTable(jobs', Requests, ReadyJob)
    BY <1>0, <2>1, <2>2, <2>3, ExceptTable
  <2> QED BY <1>4, <2>4 DEF FetchHalf, TInv
<1>5. ASSUME NEW q \in Requests, PutImmutable(q) PROVE TInv'
  <2>1. /\ q \in DOMAIN jobs /\ jobs[q] \in Job /\ jobs[q].key \in CompareKeys
        /\ jobs[q].half \in Half
    BY <1>5, JobAt DEF PutImmutable, Ready, SyncSteps
  <2> DEFINE j == [jobs[q] EXCEPT !.todo = BlobIndex(jobs[q].half), !.step = "provision"]
             row == [files |-> jobs[q].half.files, capped |-> jobs[q].half.capped,
                     partial |-> jobs[q].partial]
  <2>2. BlobIndex(jobs[q].half) \subseteq Blobs
    BY <2>1, BlobIndexType DEF Half
  <2>3. j \in ReadyJob
    BY <2>1, <2>2 DEF ReadyJob, Ready, Job, SyncSteps
  <2>4. jobs' = [jobs EXCEPT ![q] = j]
    BY <1>5, <2>1 DEF PutImmutable
  <2> HIDE DEF j
  <2>5. IsTable(jobs', Requests, ReadyJob)
    BY <1>0, <2>1, <2>3, <2>4, ExceptTable
  <2>6. row \in Stored
    BY <2>1 DEF Stored, Half, Job
  <2>7. immutables' = Upsert(immutables, jobs[q].key, row)
    BY <1>5 DEF PutImmutable
  <2>8. IsTable(immutables', CompareKeys, Stored)
    BY <1>0, <2>1, <2>6, <2>7, UpsertTable
  <2> QED BY <1>5, <2>5, <2>8 DEF PutImmutable, TInv
<1>6. ASSUME NEW q \in Requests, BuildHalf(q) PROVE TInv'
  <2>1. q \in DOMAIN jobs /\ jobs[q] \in Job /\ jobs[q].key \in CompareKeys
    BY <1>6, JobAt DEF BuildHalf, Ready, SyncSteps
  <2> DEFINE built == [files |-> jobs[q].key, capped |-> FALSE]
             j == [jobs[q] EXCEPT !.half = built, !.todo = BlobIndex(built),
                                  !.step = "provision"]
  <2>2. BlobIndex(built) \subseteq Blobs
    BY <2>1, BlobIndexType
  <2>3. j \in ReadyJob
    BY <2>1, <2>2 DEF ReadyJob, Ready, Job, SyncSteps, Half
  <2>4. jobs' = [jobs EXCEPT ![q] = j]
    BY <1>6, <2>1 DEF BuildHalf
  <2> HIDE DEF j
  <2>5. IsTable(jobs', Requests, ReadyJob)
    BY <1>0, <2>1, <2>3, <2>4, ExceptTable
  <2> QED BY <1>6, <2>5 DEF BuildHalf, TInv
<1>7. ASSUME NEW q \in Requests, NEW b \in Blobs, ProvisionBlob(q, b) PROVE TInv'
  <2>1. /\ q \in DOMAIN jobs /\ jobs[q] \in Job /\ jobs[q].key \in CompareKeys
        /\ jobs[q].half \in Half /\ jobs[q].step = "provision"
    BY <1>7, JobAt DEF ProvisionBlob, Ready, SyncSteps
  <2> DEFINE found == [jobs[q] EXCEPT !.todo = @ \ {b}]
             produced == [jobs[q] EXCEPT !.todo = @ \ {b}, !.fresh = @ \cup {b}]
             absent == [jobs[q] EXCEPT !.todo = @ \ {b}, !.missing = @ \cup {b}]
  <2>2. found \in ReadyJob /\ produced \in ReadyJob /\ absent \in ReadyJob
    BY <2>1 DEF ReadyJob, Ready, Job, SyncSteps
  <2>3. \E j \in {found, produced, absent} : jobs' = [jobs EXCEPT ![q] = j]
    BY <1>7, <2>1 DEF ProvisionBlob
  <2> HIDE DEF found, produced, absent
  <2>4. IsTable(jobs', Requests, ReadyJob)
    <3>1. PICK j \in {found, produced, absent} : jobs' = [jobs EXCEPT ![q] = j]
      BY <2>3
    <3>2. j \in ReadyJob
      BY <2>2
    <3> QED BY <1>0, <2>1, <3>1, <3>2, ExceptTable
  <2> QED BY <1>7, <2>4 DEF ProvisionBlob, TInv
<1>8. ASSUME NEW q \in Requests, PutBlobs(q) PROVE TInv'
  <2>1. /\ q \in DOMAIN jobs /\ jobs[q] \in Job /\ jobs[q].key \in CompareKeys
        /\ jobs[q].half \in Half
    BY <1>8, JobAt DEF PutBlobs, Ready, SyncSteps
  <2> DEFINE j == [jobs[q] EXCEPT !.fresh = {}, !.step = "land"]
  <2>2. j \in ReadyJob
    BY <2>1 DEF ReadyJob, Ready, Job, SyncSteps
  <2>3. jobs' = [jobs EXCEPT ![q] = j]
    BY <1>8, <2>1 DEF PutBlobs
  <2> HIDE DEF j
  <2>4. IsTable(jobs', Requests, ReadyJob)
    BY <1>0, <2>1, <2>2, <2>3, ExceptTable
  <2>5. blobs' \subseteq Blobs
    BY <1>8, <2>1 DEF PutBlobs, TInv, Job
  <2> QED BY <1>8, <2>4, <2>5 DEF PutBlobs, TInv
<1>9. ASSUME NEW q \in Requests, PutSnapshot(q) PROVE TInv'
  <2>1. /\ q \in DOMAIN jobs /\ jobs[q] \in Job /\ jobs[q].key \in CompareKeys
        /\ jobs[q].half \in Half /\ jobs[q].review \in Reviews
    BY <1>9, JobAt DEF PutSnapshot, Ready, SyncSteps, Job
  <2> DEFINE own == OwnImmutablePartial(jobs[q].key)
             row == [files |-> jobs[q].half.files, capped |-> jobs[q].half.capped,
                     partial |-> own]
             env == [key |-> jobs[q].key, partial |-> jobs[q].partial,
                     missing |-> jobs[q].missing]
             j == [jobs[q] EXCEPT !.landed = TRUE, !.step = "leave"]
  <2>2. /\ immutables' = Upsert(immutables, jobs[q].key, row)
        /\ envelopes' = Upsert(envelopes, jobs[q].review, env)
        /\ jobs' = [jobs EXCEPT ![q] = j]
    BY <1>9, <2>1 DEF PutSnapshot
  <2>3. own \in BOOLEAN
    BY <1>0 DEF OwnImmutablePartial, IsTable, Stored
  <2>4. j \in ReadyJob /\ env \in Envelope
    BY <2>1 DEF ReadyJob, Ready, Job, SyncSteps, Envelope
  <2> HIDE DEF own
  <2>5. row \in Stored
    BY <2>1, <2>3 DEF Stored, Half
  <2> HIDE DEF row, env, j
  <2>6. /\ IsTable(immutables', CompareKeys, Stored)
        /\ IsTable(envelopes', Reviews, Envelope)
    BY <1>0, <2>1, <2>2, <2>4, <2>5, UpsertTable
  <2>7. IsTable(jobs', Requests, ReadyJob)
    BY <1>0, <2>1, <2>2, <2>4, ExceptTable
  <2> QED BY <1>9, <2>6, <2>7 DEF PutSnapshot, TInv
<1>10. ASSUME NEW q \in Requests, FailSync(q) PROVE TInv'
  <2>1. q \in DOMAIN jobs /\ jobs[q] \in Job
    BY <1>0, <1>10 DEF FailSync, IsTable, ReadyJob
  <2> DEFINE j == [jobs[q] EXCEPT !.step = "leave"]
  <2>2. j \in ReadyJob
    BY <2>1 DEF ReadyJob, Ready, Job, SyncSteps
  <2>3. jobs' = [jobs EXCEPT ![q] = j]
    BY <1>10, <2>1 DEF FailSync
  <2> HIDE DEF j
  <2>4. IsTable(jobs', Requests, ReadyJob)
    BY <1>0, <2>1, <2>2, <2>3, ExceptTable
  <2> QED BY <1>10, <2>4 DEF FailSync, TInv
<1>11. ASSUME NEW q \in Requests, LeaveGate(q) PROVE TInv'
  <2>1. q \in DOMAIN jobs /\ jobs[q] \in Job /\ jobs[q].review \in Reviews
    BY <1>11, JobAt DEF LeaveGate, Job
  <2>2. NewJob(jobs[q].review, "reclaim") \in ReadyJob
    BY <2>1, NewJobType
  <2>3. IsTable([jobs EXCEPT ![q] = NewJob(jobs[q].review, "reclaim")], Requests, ReadyJob)
    BY <1>0, <2>1, <2>2, ExceptTable
  <2>4. IsTable(Without(jobs, {q}), Requests, ReadyJob)
    BY <1>0, WithoutTable
  <2>5. IsTable(jobs', Requests, ReadyJob)
    BY <1>11, <2>3, <2>4 DEF LeaveGate
  <2>6. gate' \in [Daemons -> Int]
    BY <1>11 DEF LeaveGate, TInv
  <2> QED BY <1>11, <2>5, <2>6 DEF LeaveGate, TInv
<1>12. ASSUME NEW q \in Requests, NEW l \in Locals, DeleteLocalReview(q, l) PROVE TInv'
  <2>1. NewJob(l, "unpin") \in ReadyJob
    BY NewJobType DEF Reviews
  <2>2. IsTable(jobs', Requests, ReadyJob)
    BY <1>0, <1>12, <2>1, UpsertTable DEF DeleteLocalReview
  <2>3. IsTable(envelopes', Reviews, Envelope)
    BY <1>0, <1>12, WithoutTable DEF DeleteLocalReview
  <2>4. status' \in [Locals -> {"unborn", "live", "deleted"}]
    BY <1>12 DEF DeleteLocalReview, TInv
  <2> QED BY <1>12, <2>2, <2>3, <2>4 DEF DeleteLocalReview, TInv
<1>13. ASSUME NEW q \in Requests, DropPins(q) PROVE TInv'
  <2>1. q \in DOMAIN jobs /\ jobs[q] \in Job
    BY <1>13, JobAt DEF DropPins
  <2> DEFINE j == [jobs[q] EXCEPT !.step = "reclaim"]
  <2>2. j \in ReadyJob
    BY <2>1 DEF ReadyJob, Ready, Job, SyncSteps
  <2>3. jobs' = [jobs EXCEPT ![q] = j]
    BY <1>13, <2>1 DEF DropPins
  <2> HIDE DEF j
  <2>4. IsTable(jobs', Requests, ReadyJob)
    BY <1>0, <2>1, <2>2, <2>3, ExceptTable
  <2> QED BY <1>13, <2>4 DEF DropPins, TInv
<1>14. ASSUME NEW q \in Requests, SweepHeldOff(q) PROVE TInv'
  BY <1>0, <1>14, WithoutTable DEF SweepHeldOff, TInv
<1>15. ASSUME NEW q \in Requests, ProposeHalves(q) PROVE TInv'
  <2> DEFINE w == [phase |-> "halves", halves |-> DOMAIN immutables \ LiveCompareKeys,
                   blobs |-> {}]
  <2>1. w \in Sweep /\ DaemonOf[q] \in Daemons
    BY <1>0 DEF Sweep, IsTable, CacheAssumption
  <2>2. sweeps' = Upsert(sweeps, DaemonOf[q], w) /\ jobs' = Without(jobs, {q})
    BY <1>15 DEF ProposeHalves
  <2> HIDE DEF w
  <2>3. IsTable(sweeps', Daemons, Sweep) /\ IsTable(jobs', Requests, ReadyJob)
    BY <1>0, <2>1, <2>2, UpsertTable, WithoutTable
  <2> QED BY <1>15, <2>3 DEF ProposeHalves, TInv
<1>16. ASSUME NEW d \in Daemons, DisposeHalves(d) PROVE TInv'
  <2>1. d \in DOMAIN sweeps /\ sweeps[d] \in Sweep
    BY <1>0, <1>16 DEF DisposeHalves, IsTable
  <2> DEFINE w == [sweeps[d] EXCEPT !.phase = "between", !.halves = {}]
  <2>2. w \in Sweep
    BY <2>1 DEF Sweep
  <2>3. sweeps' = [sweeps EXCEPT ![d] = w]
    BY <1>16, <2>1 DEF DisposeHalves
  <2> HIDE DEF w
  <2>4. IsTable(sweeps', Daemons, Sweep)
    BY <1>0, <2>1, <2>2, <2>3, ExceptTable
  <2>5. IsTable(immutables', CompareKeys, Stored)
    BY <1>0, <1>16, WithoutTable DEF DisposeHalves
  <2> QED BY <1>16, <2>4, <2>5 DEF DisposeHalves, TInv
<1>17. ASSUME NEW d \in Daemons, ProposeBlobs(d) PROVE TInv'
  <2>1. d \in DOMAIN sweeps /\ sweeps[d] \in Sweep
    BY <1>0, <1>17 DEF ProposeBlobs, IsTable
  <2> DEFINE unnamed == blobs \ ReferencedBlobShas
             w == [sweeps[d] EXCEPT !.phase = "blobs", !.blobs = unnamed]
  <2>2. unnamed \subseteq Blobs
    BY DEF TInv
  <2>3. CASE ReclaimBlobs
    <3>1. sweeps' = [sweeps EXCEPT ![d] = w]
      BY <1>17, <2>1, <2>3 DEF ProposeBlobs
    <3> HIDE DEF unnamed
    <3>2. w \in Sweep
      BY <2>1, <2>2 DEF Sweep
    <3> HIDE DEF w
    <3>3. IsTable(sweeps', Daemons, Sweep)
      BY <1>0, <2>1, <3>1, <3>2, ExceptTable
    <3> QED BY <1>17, <3>3 DEF ProposeBlobs, TInv
  <2>4. CASE ~ReclaimBlobs
    BY <1>0, <1>17, <2>4, WithoutTable DEF ProposeBlobs, TInv
  <2> QED BY <2>3, <2>4
<1>18. ASSUME NEW d \in Daemons, DisposeBlobs(d) PROVE TInv'
  BY <1>0, <1>18, WithoutTable DEF DisposeBlobs, TInv
<1>19. ASSUME NEW d \in Daemons, Crash(d) PROVE TInv'
  <2>1. IsTable(jobs', Requests, ReadyJob) /\ IsTable(sweeps', Daemons, Sweep)
    BY <1>0, <1>19, WithoutTable DEF Crash
  <2>2. gate' \in [Daemons -> Int]
    BY <1>19 DEF Crash, TInv
  <2> QED BY <1>19, <2>1, <2>2 DEF Crash, TInv
<1>20. ASSUME NEW r \in Reviews, Push(r) PROVE TInv'
  <2>1. PICK k \in HeadsOf[r] : head' = [head EXCEPT ![r] = k]
    BY <1>20 DEF Push
  <2>2. k \in CompareKeys
    BY <2>1 DEF CacheAssumption
  <2>3. head' \in [Reviews -> CompareKeys]
    BY <2>1, <2>2 DEF TInv
  <2>4. UNCHANGED <<immutables, envelopes, blobs, status, gate, jobs, sweeps>>
    BY <1>20 DEF Push
  <2> QED BY <2>3, <2>4 DEF TInv
<1>21. ASSUME NEW l \in Locals, CreateLocalReview(l) PROVE TInv'
  BY <1>21 DEF CreateLocalReview, TInv
<1>22. CASE UNCHANGED vars
  BY <1>22 DEF vars, TInv
<1> QED
  BY <1>1, <1>2, <1>3, <1>4, <1>5, <1>6, <1>7, <1>8, <1>9, <1>10, <1>11, <1>12,
     <1>13, <1>14, <1>15, <1>16, <1>17, <1>18, <1>19, <1>20, <1>21, <1>22
  DEF Next, SyncStep, SweepStep

(* Type correctness in full needs the gate never to be released too often: *)
(* that the gate is a natural number is a consequence of what it counts.   *)
LEMMA SyncsFinite ==
  ASSUME CacheAssumption, TInv, NEW d
  PROVE  IsFiniteSet(SyncsOf(d)) /\ SyncsOf(d) \subseteq DOMAIN jobs
<1>1. SyncsOf(d) \subseteq Requests /\ SyncsOf(d) \subseteq DOMAIN jobs
  BY DEF TInv, IsTable, SyncsOf
<1> QED BY <1>1, FS_Subset DEF CacheAssumption

LEMMA SameSyncs ==
  ASSUME gate' = gate, GateCountsSyncs, \A d \in Daemons : SyncsOf(d)' = SyncsOf(d)
  PROVE  GateCountsSyncs'
BY DEF GateCountsSyncs

(* A request inside its sync stays inside it until it leaves.              *)
LEMMA InnerStepStaysInside ==
  ASSUME TInv, NEW q \in Requests,
         \/ ReadDetail(q) \/ LookUpHalf(q) \/ FetchHalf(q) \/ PutImmutable(q)
         \/ BuildHalf(q) \/ (\E b \in Blobs : ProvisionBlob(q, b)) \/ PutBlobs(q)
         \/ PutSnapshot(q) \/ FailSync(q)
  PROVE  /\ gate' = gate
         /\ \A d \in Daemons : SyncsOf(d)' = SyncsOf(d)
<1>1. q \in DOMAIN jobs /\ jobs[q] \in Job /\ jobs[q].step \in SyncSteps
  BY DEF TInv, IsTable, ReadyJob, At, ReadDetail, LookUpHalf, FetchHalf, PutImmutable,
         BuildHalf, ProvisionBlob, PutBlobs, PutSnapshot, FailSync, SyncSteps
<1>2. gate' = gate
  BY DEF ReadDetail, LookUpHalf, FetchHalf, PutImmutable, BuildHalf, ProvisionBlob,
         PutBlobs, PutSnapshot, FailSync
<1>3. /\ DOMAIN jobs' = DOMAIN jobs
      /\ \A x \in DOMAIN jobs : x # q => jobs'[x] = jobs[x]
      /\ jobs'[q].step \in SyncSteps
  <2>1. CASE ReadDetail(q)
    BY <1>1, <2>1 DEF ReadDetail, Job, SyncSteps
  <2>2. CASE LookUpHalf(q)
    BY <1>1, <2>2 DEF LookUpHalf, Job, SyncSteps
  <2>3. CASE FetchHalf(q)
    BY <1>1, <2>3 DEF FetchHalf, Job, SyncSteps
  <2>4. CASE PutImmutable(q)
    BY <1>1, <2>4 DEF PutImmutable, Job, SyncSteps
  <2>5. CASE BuildHalf(q)
    BY <1>1, <2>5 DEF BuildHalf, Job, SyncSteps
  <2>6. ASSUME NEW b \in Blobs, ProvisionBlob(q, b)
        PROVE  /\ DOMAIN jobs' = DOMAIN jobs
               /\ \A x \in DOMAIN jobs : x # q => jobs'[x] = jobs[x]
               /\ jobs'[q].step \in SyncSteps
    BY <1>1, <2>6 DEF ProvisionBlob, Job, SyncSteps
  <2>7. CASE PutBlobs(q)
    BY <1>1, <2>7 DEF PutBlobs, Job, SyncSteps
  <2>8. CASE PutSnapshot(q)
    BY <1>1, <2>8 DEF PutSnapshot, Job, SyncSteps
  <2>9. CASE FailSync(q)
    BY <1>1, <2>9 DEF FailSync, Job, SyncSteps
  <2> QED BY <2>1, <2>2, <2>3, <2>4, <2>5, <2>6, <2>7, <2>8, <2>9
<1> QED BY <1>1, <1>2, <1>3 DEF SyncsOf

LEMMA GateStep ==
  CacheAssumption /\ TInv /\ GateCountsSyncs /\ [Next]_vars => GateCountsSyncs'
<1> SUFFICES ASSUME CacheAssumption, TInv, GateCountsSyncs, [Next]_vars
             PROVE  GateCountsSyncs'
  OBVIOUS
<1>0. IsTable(jobs, Requests, ReadyJob)
  BY DEF TInv
<1>1. ASSUME NEW q \in Requests, NEW r \in Reviews, EnterSync(q, r)
      PROVE  GateCountsSyncs'
  <2> DEFINE own == DaemonOf[q]
  <2>1. NewJob(r, "detail") \in ReadyJob /\ NewJob(r, "detail").step = "detail"
    BY NewJobType DEF NewJob
  <2>2. /\ DOMAIN jobs' = DOMAIN jobs \cup {q} /\ jobs'[q].step = "detail"
        /\ \A x \in DOMAIN jobs : x # q => jobs'[x] = jobs[x]
    BY <1>1, <2>1 DEF EnterSync, Upsert
  <2>3. q \notin DOMAIN jobs /\ own \in Daemons
    BY <1>1 DEF EnterSync, CacheAssumption
  <2>4. \A d \in Daemons \ {own} : SyncsOf(d)' = SyncsOf(d)
    BY <2>2, <2>3 DEF SyncsOf
  <2>5. SyncsOf(own)' = SyncsOf(own) \cup {q} /\ q \notin SyncsOf(own)
    BY <2>2, <2>3 DEF SyncsOf, SyncSteps
  <2>6. Cardinality(SyncsOf(own)') = Cardinality(SyncsOf(own)) + 1
    BY <2>5, SyncsFinite, FS_AddElement
  <2>7. gate'[own] = gate[own] + 1 /\ \A d \in Daemons \ {own} : gate'[d] = gate[d]
    BY <1>1, <2>3 DEF EnterSync, TInv
  <2> QED BY <2>4, <2>6, <2>7 DEF GateCountsSyncs
<1>2. ASSUME NEW q \in Requests,
             \/ ReadDetail(q) \/ LookUpHalf(q) \/ FetchHalf(q) \/ PutImmutable(q)
             \/ BuildHalf(q) \/ (\E b \in Blobs : ProvisionBlob(q, b)) \/ PutBlobs(q)
             \/ PutSnapshot(q) \/ FailSync(q)
      PROVE  GateCountsSyncs'
  BY <1>2, InnerStepStaysInside, SameSyncs
<1>3. ASSUME NEW q \in Requests, LeaveGate(q) PROVE GateCountsSyncs'
  <2> DEFINE own == DaemonOf[q]
  <2>1. /\ q \in DOMAIN jobs /\ jobs[q].step = "leave" /\ own \in Daemons
        /\ jobs[q].review \in Reviews
    BY <1>3, JobAt DEF LeaveGate, CacheAssumption, Job
  <2>2. /\ \A x \in DOMAIN jobs : x # q => x \in DOMAIN jobs' /\ jobs'[x] = jobs[x]
        /\ DOMAIN jobs' \subseteq DOMAIN jobs
        /\ q \in DOMAIN jobs' => jobs'[q].step = "reclaim"
    <3>1. CASE jobs[q].landed /\ jobs[q].review \in Locals
      BY <1>3, <2>1, <3>1 DEF LeaveGate, NewJob
    <3>2. CASE ~ (jobs[q].landed /\ jobs[q].review \in Locals)
      BY <1>3, <2>1, <3>2 DEF LeaveGate, Without, Restrict
    <3> QED BY <3>1, <3>2
  <2>3. \A d \in Daemons \ {own} : SyncsOf(d)' = SyncsOf(d)
    BY <2>1, <2>2 DEF SyncsOf
  <2>4. SyncsOf(own)' = SyncsOf(own) \ {q} /\ q \in SyncsOf(own)
    BY <2>1, <2>2 DEF SyncsOf, SyncSteps
  <2>5. Cardinality(SyncsOf(own)') = Cardinality(SyncsOf(own)) - 1
    <3>1. IsFiniteSet(SyncsOf(own))
      BY SyncsFinite
    <3>2. \A S, x : IsFiniteSet(S) /\ x \in S =>
                       Cardinality(S \ {x}) = Cardinality(S) - 1
      BY FS_RemoveElement
    <3>3. Cardinality(SyncsOf(own) \ {q}) = Cardinality(SyncsOf(own)) - 1
      BY <2>4, <3>1, <3>2
    <3> QED BY <2>4, <3>3
  <2>6. gate'[own] = gate[own] - 1 /\ \A d \in Daemons \ {own} : gate'[d] = gate[d]
    BY <1>3, <2>1 DEF LeaveGate, TInv
  <2> QED BY <2>3, <2>5, <2>6 DEF GateCountsSyncs
<1>4. ASSUME NEW q \in Requests, NEW l \in Locals, DeleteLocalReview(q, l)
      PROVE  GateCountsSyncs'
  <2>1. NewJob(l, "unpin") \in ReadyJob /\ NewJob(l, "unpin").step = "unpin"
    BY NewJobType DEF NewJob, Reviews
  <2>2. /\ DOMAIN jobs' = DOMAIN jobs \cup {q} /\ jobs'[q].step = "unpin"
        /\ \A x \in DOMAIN jobs : x # q => jobs'[x] = jobs[x]
    BY <1>4, <2>1 DEF DeleteLocalReview, Upsert
  <2>3. q \notin DOMAIN jobs /\ gate' = gate
    BY <1>4 DEF DeleteLocalReview
  <2>4. \A d \in Daemons : SyncsOf(d)' = SyncsOf(d)
    BY <2>2, <2>3 DEF SyncsOf, SyncSteps
  <2> QED BY <2>3, <2>4, SameSyncs
<1>5. ASSUME NEW q \in Requests, DropPins(q) PROVE GateCountsSyncs'
  <2>1. q \in DOMAIN jobs /\ jobs[q] \in Job /\ jobs[q].step = "unpin" /\ gate' = gate
    BY <1>5, JobAt DEF DropPins
  <2>2. /\ DOMAIN jobs' = DOMAIN jobs /\ jobs'[q].step = "reclaim"
        /\ \A x \in DOMAIN jobs : x # q => jobs'[x] = jobs[x]
    BY <1>5, <2>1 DEF DropPins, Job
  <2>3. \A d \in Daemons : SyncsOf(d)' = SyncsOf(d)
    BY <2>1, <2>2 DEF SyncsOf, SyncSteps
  <2> QED BY <2>1, <2>3, SameSyncs
<1>6. ASSUME NEW q \in Requests, SweepHeldOff(q) \/ ProposeHalves(q)
      PROVE  GateCountsSyncs'
  <2>1. /\ q \in DOMAIN jobs /\ jobs[q].step = "reclaim"
        /\ gate' = gate /\ jobs' = Without(jobs, {q})
    BY <1>6 DEF SweepHeldOff, ProposeHalves, At
  <2>2. /\ DOMAIN jobs' = DOMAIN jobs \ {q}
        /\ \A x \in DOMAIN jobs : x # q => jobs'[x] = jobs[x]
    BY <2>1 DEF Without, Restrict
  <2>3. \A d \in Daemons : SyncsOf(d)' = SyncsOf(d)
    BY <2>1, <2>2 DEF SyncsOf, SyncSteps
  <2> QED BY <2>1, <2>3, SameSyncs
<1>7. ASSUME NEW d \in Daemons, Crash(d) PROVE GateCountsSyncs'
  <2>1. /\ DOMAIN jobs' = DOMAIN jobs \ {q \in Requests : DaemonOf[q] = d}
        /\ \A x \in DOMAIN jobs' : jobs'[x] = jobs[x]
    BY <1>7 DEF Crash, Without, Restrict
  <2>2. SyncsOf(d)' = {}
    BY <1>0, <2>1 DEF SyncsOf, IsTable
  <2>3. \A e \in Daemons \ {d} : SyncsOf(e)' = SyncsOf(e)
    BY <2>1 DEF SyncsOf
  <2>4. gate'[d] = 0 /\ \A e \in Daemons \ {d} : gate'[e] = gate[e]
    BY <1>7 DEF Crash, TInv
  <2> QED BY <2>2, <2>3, <2>4, FS_EmptySet DEF GateCountsSyncs
<1>8. ASSUME gate' = gate, jobs' = jobs PROVE GateCountsSyncs'
  BY <1>8 DEF GateCountsSyncs, SyncsOf
<1>9. ASSUME NEW d \in Daemons, SweepStep(d) PROVE GateCountsSyncs'
  BY <1>8, <1>9 DEF SweepStep, DisposeHalves, ProposeBlobs, DisposeBlobs
<1>10. ASSUME NEW r \in Reviews, Push(r) PROVE GateCountsSyncs'
  BY <1>8, <1>10 DEF Push
<1>11. ASSUME NEW l \in Locals, CreateLocalReview(l) PROVE GateCountsSyncs'
  BY <1>8, <1>11 DEF CreateLocalReview
<1>12. CASE UNCHANGED vars
  BY <1>8, <1>12 DEF vars
<1> QED
  BY <1>1, <1>2, <1>3, <1>4, <1>5, <1>6, <1>7, <1>9, <1>10, <1>11, <1>12
  DEF Next, SyncStep

(* Full type correctness, for every instance of the constants.             *)
TypeInv == TInv /\ GateCountsSyncs

LEMMA TypeInvImpliesTypeOK == CacheAssumption /\ TypeInv => TypeOK
<1> SUFFICES ASSUME CacheAssumption, TypeInv PROVE TypeOK
  OBVIOUS
<1>1. IsTable(jobs, Requests, Job)
  BY DEF TypeInv, TInv, IsTable, ReadyJob
<1>2. ASSUME NEW d \in Daemons PROVE gate[d] \in Nat
  <2>1. Cardinality(SyncsOf(d)) \in Nat
    BY SyncsFinite, FS_CardinalityType DEF TypeInv
  <2> QED BY <2>1 DEF TypeInv, GateCountsSyncs
<1>3. gate \in [Daemons -> Nat]
  BY <1>2 DEF TypeInv, TInv
<1> QED BY <1>1, <1>3 DEF TypeInv, TInv, TypeOK

LEMMA TypeInvCorrect == Spec => []TypeInv
<1>1. Init => TypeInv
  <2> SUFFICES ASSUME Init PROVE GateCountsSyncs
    BY TablesInit DEF TypeInv
  <2>1. \A d \in Daemons : SyncsOf(d) = {} /\ gate[d] = 0
    BY EmptyTableIsTable DEF Init, SyncsOf, EmptyTable
  <2> QED BY <2>1, FS_EmptySet DEF GateCountsSyncs
<1>2. TypeInv /\ [Next]_vars => TypeInv'
  BY TablesStep, GateStep, CacheAssumption DEF TypeInv
<1> QED BY <1>1, <1>2, PTL DEF Spec

(* Every reachable state is well typed: tables hold rows of their shape,   *)
(* the gate never goes below zero (SyncGate, withSyncInFlight).            *)
THEOREM TypeCorrect == Spec => []TypeOK
<1>1. TypeInv => TypeOK
  BY TypeInvImpliesTypeOK, CacheAssumption
<1> QED BY <1>1, TypeInvCorrect, PTL

(* The gate is exact for any number of overlapping syncs, rejections and   *)
(* crashes: it holds off a sweep while a sync runs, and never for ever.    *)
THEOREM GateCorrect == Spec => []GateCountsSyncs
<1>1. TypeInv => GateCountsSyncs
  BY DEF TypeInv
<1> QED BY <1>1, TypeInvCorrect, PTL

(* No interleaving of syncs, deletions and sweeps, of any number of        *)
(* daemons on one data directory, leaves an envelope whose half is gone:   *)
(* writeSnapshotRows writes both in one transaction, and deleteImmutables  *)
(* recomputes the live keys in the transaction that deletes.               *)
LEMMA NoDanglingStep ==
  CacheAssumption /\ TInv /\ NoDanglingEnvelope /\ [Next]_vars => NoDanglingEnvelope'
<1> SUFFICES ASSUME CacheAssumption, TInv, NoDanglingEnvelope, [Next]_vars
             PROVE  NoDanglingEnvelope'
  OBVIOUS
<1>1. ASSUME envelopes' = envelopes, DOMAIN immutables \subseteq DOMAIN immutables'
      PROVE  NoDanglingEnvelope'
  BY <1>1 DEF NoDanglingEnvelope
<1>2. ASSUME NEW q \in Requests, PutImmutable(q) PROVE NoDanglingEnvelope'
  BY <1>1, <1>2 DEF PutImmutable, Upsert
<1>3. ASSUME NEW q \in Requests, PutSnapshot(q) PROVE NoDanglingEnvelope'
  BY <1>3 DEF PutSnapshot, Upsert, NoDanglingEnvelope
<1>4. ASSUME NEW q \in Requests, NEW l \in Locals, DeleteLocalReview(q, l)
      PROVE  NoDanglingEnvelope'
  BY <1>4 DEF DeleteLocalReview, Without, Restrict, NoDanglingEnvelope
<1>5. ASSUME NEW d \in Daemons, DisposeHalves(d) PROVE NoDanglingEnvelope'
  BY <1>5 DEF DisposeHalves, Without, Restrict, LiveCompareKeys, NoDanglingEnvelope
<1>6. ASSUME envelopes' = envelopes, immutables' = immutables PROVE NoDanglingEnvelope'
  BY <1>6 DEF NoDanglingEnvelope
<1>7. ASSUME NEW q \in Requests,
             \/ \E r \in Reviews : EnterSync(q, r)
             \/ ReadDetail(q) \/ LookUpHalf(q) \/ FetchHalf(q) \/ BuildHalf(q)
             \/ (\E b \in Blobs : ProvisionBlob(q, b)) \/ PutBlobs(q) \/ LeaveGate(q)
             \/ FailSync(q) \/ DropPins(q) \/ SweepHeldOff(q) \/ ProposeHalves(q)
      PROVE  NoDanglingEnvelope'
  BY <1>6, <1>7 DEF EnterSync, ReadDetail, LookUpHalf, FetchHalf, BuildHalf,
     ProvisionBlob, PutBlobs, LeaveGate, FailSync, DropPins, SweepHeldOff, ProposeHalves
<1>8. ASSUME NEW d \in Daemons, ProposeBlobs(d) \/ DisposeBlobs(d) \/ Crash(d)
      PROVE  NoDanglingEnvelope'
  BY <1>6, <1>8 DEF ProposeBlobs, DisposeBlobs, Crash
<1>9. ASSUME NEW r \in Reviews, Push(r) PROVE NoDanglingEnvelope'
  BY <1>6, <1>9 DEF Push
<1>10. ASSUME NEW l \in Locals, CreateLocalReview(l) PROVE NoDanglingEnvelope'
  BY <1>6, <1>10 DEF CreateLocalReview
<1>11. CASE UNCHANGED vars
  BY <1>6, <1>11 DEF vars
<1> QED
  BY <1>2, <1>3, <1>4, <1>5, <1>7, <1>8, <1>9, <1>10, <1>11 DEF Next, SyncStep, SweepStep

(* getSnapshot never finds an envelope without its half.                   *)
THEOREM EnvelopesKeepTheirHalves == Spec => []NoDanglingEnvelope
<1>1. Init => NoDanglingEnvelope
  BY EmptyTableIsTable DEF Init, NoDanglingEnvelope
<1>2. TypeInv /\ NoDanglingEnvelope /\ [Next]_vars => NoDanglingEnvelope'
  BY NoDanglingStep, CacheAssumption DEF TypeInv
<1> QED BY <1>1, <1>2, TypeInvCorrect, PTL DEF Spec

-----------------------------------------------------------------------------
(* One daemon, no push between the detail read and the file list, and no   *)
(* local review of a comparison GitHub caps.  Without any one of the three *)
(* a run finds a counterexample.                                           *)
(*                                                                         *)
(* The argument: a half is then what its key names, whoever wrote it, so   *)
(* that writing it again changes nothing; and while a sweep is under way   *)
(* no sync is, so what a sync has stored or found is still there when its  *)
(* envelope names it.                                                      *)
OneDaemon == \A d, e \in Daemons : d = e
WholeLocals == \A l \in Locals : HeadsOf[l] \cap Capped = {}
Restricted == OneDaemon /\ WholeLocals /\ ~PushMidFetch

\* The half is the comparison k, as GitHub lists it.
IsHalfOf(half, k) == half.files = k /\ (half.capped <=> k \in Capped)
IndexOf(k) == BlobsOf[k] \ (IF k \in Capped THEN BeyondCap ELSE {})

HeadsShown == \A r \in Reviews : head[r] \in HeadsOf[r]

HalvesTrue ==
  \A k \in DOMAIN immutables :
    IsHalfOf(immutables[k], k) /\ (immutables[k].partial <=> k \in Capped)

SweepsAlone == \A d \in DOMAIN sweeps : SyncsOf(d) = {}

\* What a sync holds is true of the comparison it syncs, given what branch
\* pairs show now, the keys with a half and the SHAs with a row.
JobTrue(j, now, stored, bytes) ==
  /\ j.step \in SyncSteps \ {"detail", "leave"} => j.key \in HeadsOf[j.review]
  /\ j.step \in {"lookup", "fetch"} => j.key = now[j.review]
  /\ j.step = "build" => j.review \in Locals
  /\ j.step \in {"detail", "build"} => ~j.partial
  /\ j.step \in {"store", "provision", "land"} =>
       IsHalfOf(j.half, j.key) /\ (j.partial <=> j.key \in Capped)
  /\ j.step \in {"provision", "land"} =>
       /\ j.key \in Capped => j.key \in stored
       /\ IndexOf(j.key) \subseteq j.todo \cup j.fresh \cup j.missing \cup bytes
  /\ j.step = "land" => j.todo = {} /\ j.fresh = {}

JobsTrue == \A q \in DOMAIN jobs : JobTrue(jobs[q], head, DOMAIN immutables, blobs)

EnvelopesTrue ==
  \A r \in DOMAIN envelopes :
    /\ envelopes[r].key \in DOMAIN immutables
    /\ envelopes[r].partial <=> envelopes[r].key \in Capped
    /\ IndexOf(envelopes[r].key) \subseteq envelopes[r].missing \cup blobs

HonestInv ==
  HeadsShown /\ HalvesTrue /\ SweepsAlone /\ JobsTrue /\ EnvelopesTrue

LEMMA IndexOfHalf ==
  ASSUME NEW half, NEW k, IsHalfOf(half, k)
  PROVE  BlobIndex(half) = IndexOf(k)
BY DEF IsHalfOf, BlobIndex, IndexOf

LEMMA JobStaysTrue ==
  ASSUME NEW j, NEW now, NEW now2, NEW stored, NEW stored2, NEW bytes, NEW bytes2,
         JobTrue(j, now, stored, bytes),
         j.step \in {"lookup", "fetch"} => now2[j.review] = now[j.review],
         j.step \in SyncSteps => stored \subseteq stored2 /\ bytes \subseteq bytes2
  PROVE  JobTrue(j, now2, stored2, bytes2)
<1>1. j.step \in {"provision", "land"} =>
        /\ j.key \in Capped => j.key \in stored2
        /\ IndexOf(j.key) \subseteq j.todo \cup j.fresh \cup j.missing \cup bytes2
  BY DEF JobTrue, SyncSteps
<1>2. QED
  BY <1>1 DEF JobTrue

\* A job that is not inside a sync claims nothing.
LEMMA OutsideIsTrue ==
  ASSUME NEW j, NEW now, NEW stored, NEW bytes,
         j.step = "leave" \/ j.step \notin SyncSteps
  PROVE  JobTrue(j, now, stored, bytes)
BY DEF JobTrue, SyncSteps

\* A step of one request, which takes nothing from the store.
LEMMA OneJobMoves ==
  ASSUME JobsTrue, NEW q, head' = head,
         DOMAIN immutables \subseteq DOMAIN immutables', blobs \subseteq blobs',
         \A x \in DOMAIN jobs' : x # q => x \in DOMAIN jobs /\ jobs'[x] = jobs[x],
         q \in DOMAIN jobs' => JobTrue(jobs'[q], head', DOMAIN immutables', blobs')
  PROVE  JobsTrue'
<1>1. ASSUME NEW x \in DOMAIN jobs', x # q
      PROVE  JobTrue(jobs'[x], head', DOMAIN immutables', blobs')
  <2>1. JobTrue(jobs[x], head, DOMAIN immutables, blobs) /\ jobs'[x] = jobs[x]
    BY <1>1 DEF JobsTrue
  <2>2. JobTrue(jobs[x], head', DOMAIN immutables', blobs')
    BY <2>1, JobStaysTrue
  <2>3. QED
    BY <2>1, <2>2
<1>2. QED
  BY <1>1 DEF JobsTrue

\* While a request can run, no sweep is under way: there is one daemon.
LEMMA NoSweep ==
  ASSUME CacheAssumption, OneDaemon, TInv, NEW q \in Requests, Free(DaemonOf[q])
  PROVE  DOMAIN sweeps = {}
<1>1. DaemonOf[q] \in Daemons /\ DOMAIN sweeps \subseteq Daemons
  BY DEF CacheAssumption, TInv, IsTable
<1>2. QED
  BY <1>1 DEF OneDaemon, Free

LEMMA TablesAlone ==
  ASSUME DOMAIN sweeps' = {}
  PROVE  SweepsAlone'
BY DEF SweepsAlone

\* The steps of a sync, and of what follows it.
LEMMA DetailTrue ==
  ASSUME CacheAssumption, TInv, HonestInv, NEW q \in Requests, ReadDetail(q)
  PROVE  JobTrue(jobs'[q], head', DOMAIN immutables', blobs')
<1>1. /\ q \in DOMAIN jobs /\ jobs[q] \in Job /\ jobs[q].step = "detail"
      /\ jobs[q].review \in Reviews
  BY JobAt DEF ReadDetail, Job
<1>2. ~jobs[q].partial
  BY <1>1 DEF HonestInv, JobsTrue, JobTrue
<1>3. /\ jobs'[q].review = jobs[q].review /\ jobs'[q].partial = jobs[q].partial
      /\ jobs'[q].key = head[jobs[q].review]
      /\ jobs'[q].step = IF jobs[q].review \in Pulls THEN "lookup" ELSE "build"
      /\ head' = head
  BY <1>1 DEF ReadDetail, Job
<1>4. QED
  BY <1>1, <1>2, <1>3 DEF JobTrue, HonestInv, HeadsShown, Reviews

LEMMA LookUpTrue ==
  ASSUME CacheAssumption, TInv, HonestInv, NEW q \in Requests, LookUpHalf(q)
  PROVE  JobTrue(jobs'[q], head', DOMAIN immutables', blobs')
<1> DEFINE k == jobs[q].key
<1>1. q \in DOMAIN jobs /\ jobs[q] \in Job /\ jobs[q].step = "lookup"
  BY JobAt DEF LookUpHalf
<1>2. k \in HeadsOf[jobs[q].review] /\ k = head[jobs[q].review]
  BY <1>1 DEF HonestInv, JobsTrue, JobTrue, SyncSteps
<1>3. head' = head /\ immutables' = immutables /\ blobs' = blobs
  BY DEF LookUpHalf
<1>4. CASE k \in DOMAIN immutables
  <2>1. IsHalfOf(immutables[k], k) /\ (immutables[k].partial <=> k \in Capped)
    BY <1>4 DEF HonestInv, HalvesTrue
  <2> DEFINE hit == [jobs[q] EXCEPT !.half = HalfOf(immutables[k]),
                                    !.partial = immutables[k].partial,
                                    !.todo = BlobIndex(immutables[k]), !.step = "provision"]
  <2>a. jobs' = [jobs EXCEPT ![q] = hit]
    BY <1>1, <1>4 DEF LookUpHalf
  <2>b. /\ hit.review = jobs[q].review /\ hit.key = k
        /\ hit.half = HalfOf(immutables[k]) /\ hit.partial = immutables[k].partial
        /\ hit.todo = BlobIndex(immutables[k]) /\ hit.step = "provision"
    BY <1>1 DEF Job
  <2> HIDE DEF hit
  <2>2. /\ jobs'[q].review = jobs[q].review /\ jobs'[q].key = k
        /\ jobs'[q].half = HalfOf(immutables[k]) /\ jobs'[q].partial = immutables[k].partial
        /\ jobs'[q].todo = BlobIndex(immutables[k]) /\ jobs'[q].step = "provision"
    BY <1>1, <2>a, <2>b
  <2>3. IsHalfOf(jobs'[q].half, k)
    BY <2>1, <2>2 DEF IsHalfOf, HalfOf
  <2>4. jobs'[q].todo = IndexOf(k)
    BY <2>1, <2>2, IndexOfHalf
  <2> HIDE DEF k
  <2>5. QED
    BY <1>2, <1>3, <1>4, <2>1, <2>2, <2>3, <2>4 DEF JobTrue, SyncSteps
<1>5. CASE k \notin DOMAIN immutables
  <2>1. /\ jobs'[q].review = jobs[q].review /\ jobs'[q].key = k /\ jobs'[q].step = "fetch"
    BY <1>1, <1>5 DEF LookUpHalf, Job
  <2> HIDE DEF k
  <2>2. QED
    BY <1>2, <1>3, <2>1 DEF JobTrue
<1>6. QED
  BY <1>4, <1>5

LEMMA FetchTrue ==
  ASSUME CacheAssumption, TInv, HonestInv, NEW q \in Requests, FetchHalf(q)
  PROVE  JobTrue(jobs'[q], head', DOMAIN immutables', blobs')
<1> DEFINE now == head[jobs[q].review]
<1>1. q \in DOMAIN jobs /\ jobs[q] \in Job /\ jobs[q].step = "fetch"
  BY JobAt DEF FetchHalf
<1>2. jobs[q].key = now /\ now \in HeadsOf[jobs[q].review]
  BY <1>1 DEF HonestInv, JobsTrue, JobTrue, SyncSteps
<1>3. /\ jobs'[q].review = jobs[q].review /\ jobs'[q].key = jobs[q].key
      /\ jobs'[q].half = [files |-> now, capped |-> now \in Capped]
      /\ jobs'[q].partial = (now \in Capped) /\ jobs'[q].step = "store"
  BY <1>1 DEF FetchHalf, Job
<1> HIDE DEF now
<1>4. IsHalfOf(jobs'[q].half, now) /\ (jobs'[q].partial <=> now \in Capped)
  <2>1. jobs'[q].half.files = now /\ jobs'[q].half.capped = (now \in Capped)
    BY <1>3
  <2>2. QED
    BY <1>3, <2>1, Zenon DEF IsHalfOf
<1>5. QED
  BY <1>2, <1>3, <1>4 DEF JobTrue, SyncSteps

LEMMA StoreTrue ==
  ASSUME CacheAssumption, TInv, HonestInv, NEW q \in Requests, PutImmutable(q)
  PROVE  /\ JobTrue(jobs'[q], head', DOMAIN immutables', blobs')
         /\ HalvesTrue' /\ EnvelopesTrue' /\ DOMAIN immutables \subseteq DOMAIN immutables'
<1> DEFINE k == jobs[q].key
           half == jobs[q].half
<1>1. q \in DOMAIN jobs /\ jobs[q] \in Job /\ jobs[q].step = "store"
  BY JobAt DEF PutImmutable
<1>2. /\ k \in HeadsOf[jobs[q].review] /\ IsHalfOf(half, k)
      /\ jobs[q].partial <=> k \in Capped
  BY <1>1 DEF HonestInv, JobsTrue, JobTrue, SyncSteps
<1>3. /\ immutables' = Upsert(immutables, k,
            [files |-> half.files, capped |-> half.capped, partial |-> jobs[q].partial])
      /\ envelopes' = envelopes /\ blobs' = blobs
  BY DEF PutImmutable
<1>4. /\ jobs'[q].review = jobs[q].review /\ jobs'[q].key = k /\ jobs'[q].half = half
      /\ jobs'[q].partial = jobs[q].partial
      /\ jobs'[q].todo = BlobIndex(half) /\ jobs'[q].step = "provision"
  BY <1>1 DEF PutImmutable, Job
<1> HIDE DEF k, half
<1>5. /\ DOMAIN immutables' = DOMAIN immutables \cup {k}
      /\ immutables'[k].files = half.files /\ immutables'[k].capped = half.capped
      /\ immutables'[k].partial = jobs[q].partial
      /\ \A x \in DOMAIN immutables : x # k => immutables'[x] = immutables[x]
  BY <1>3 DEF Upsert
<1>6. HalvesTrue'
  BY <1>2, <1>5 DEF HonestInv, HalvesTrue, IsHalfOf
<1>7. EnvelopesTrue'
  BY <1>3, <1>5 DEF HonestInv, EnvelopesTrue
<1>8. jobs'[q].todo = IndexOf(k)
  BY <1>2, <1>4, IndexOfHalf
<1>9. JobTrue(jobs'[q], head', DOMAIN immutables', blobs')
  BY <1>2, <1>4, <1>5, <1>8 DEF JobTrue, SyncSteps
<1>10. QED
  BY <1>5, <1>6, <1>7, <1>9

LEMMA BuildTrue ==
  ASSUME CacheAssumption, WholeLocals, TInv, HonestInv, NEW q \in Requests, BuildHalf(q)
  PROVE  JobTrue(jobs'[q], head', DOMAIN immutables', blobs')
<1> DEFINE k == jobs[q].key
           built == [files |-> k, capped |-> FALSE]
<1>1. q \in DOMAIN jobs /\ jobs[q] \in Job /\ jobs[q].step = "build"
  BY JobAt DEF BuildHalf
<1>2. k \in HeadsOf[jobs[q].review] /\ jobs[q].review \in Locals /\ ~jobs[q].partial
  BY <1>1 DEF HonestInv, JobsTrue, JobTrue, SyncSteps
<1>3. k \notin Capped
  BY <1>2 DEF WholeLocals
<1>4. /\ jobs'[q].review = jobs[q].review /\ jobs'[q].key = k /\ jobs'[q].half = built
      /\ jobs'[q].partial = jobs[q].partial
      /\ jobs'[q].todo = BlobIndex(built) /\ jobs'[q].step = "provision"
  BY <1>1 DEF BuildHalf, Job
<1>5. IsHalfOf(built, k)
  BY <1>3 DEF IsHalfOf
<1> HIDE DEF k, built
<1>6. jobs'[q].todo = IndexOf(k)
  BY <1>4, <1>5, IndexOfHalf
<1>7. QED
  BY <1>2, <1>3, <1>4, <1>5, <1>6 DEF JobTrue, SyncSteps

LEMMA ProvisionTrue ==
  ASSUME CacheAssumption, TInv, HonestInv, NEW q \in Requests, NEW b \in Blobs,
         ProvisionBlob(q, b)
  PROVE  JobTrue(jobs'[q], head', DOMAIN immutables', blobs')
<1>1. q \in DOMAIN jobs /\ jobs[q] \in Job /\ jobs[q].step = "provision"
  BY JobAt DEF ProvisionBlob
<1>2. JobTrue(jobs[q], head, DOMAIN immutables, blobs)
  BY <1>1 DEF HonestInv, JobsTrue
<1>3. /\ jobs'[q].review = jobs[q].review /\ jobs'[q].key = jobs[q].key
      /\ jobs'[q].half = jobs[q].half /\ jobs'[q].partial = jobs[q].partial
      /\ jobs'[q].step = "provision" /\ head' = head
      /\ immutables' = immutables /\ blobs' = blobs
  BY <1>1 DEF ProvisionBlob, Job
<1>4. jobs[q].todo \cup jobs[q].fresh \cup jobs[q].missing \cup blobs
        \subseteq jobs'[q].todo \cup jobs'[q].fresh \cup jobs'[q].missing \cup blobs
  <2>1. CASE b \in blobs /\ jobs' = [jobs EXCEPT ![q].todo = @ \ {b}]
    BY <1>1, <2>1 DEF Job
  <2>2. CASE jobs' = [jobs EXCEPT ![q].todo = @ \ {b}, ![q].fresh = @ \cup {b}]
    <3>1. /\ jobs'[q].todo = jobs[q].todo \ {b} /\ jobs'[q].fresh = jobs[q].fresh \cup {b}
          /\ jobs'[q].missing = jobs[q].missing
      BY <1>1, <2>2 DEF Job
    <3>2. QED
      BY <3>1
  <2>3. CASE jobs' = [jobs EXCEPT ![q].todo = @ \ {b}, ![q].missing = @ \cup {b}]
    <3>1. /\ jobs'[q].todo = jobs[q].todo \ {b} /\ jobs'[q].fresh = jobs[q].fresh
          /\ jobs'[q].missing = jobs[q].missing \cup {b}
      BY <1>1, <2>3 DEF Job
    <3>2. QED
      BY <3>1
  <2>4. QED
    BY <2>1, <2>2, <2>3 DEF ProvisionBlob
<1>5. QED
  BY <1>1, <1>2, <1>3, <1>4 DEF JobTrue, SyncSteps

LEMMA PutBlobsTrue ==
  ASSUME CacheAssumption, TInv, HonestInv, NEW q \in Requests, PutBlobs(q)
  PROVE  /\ JobTrue(jobs'[q], head', DOMAIN immutables', blobs') /\ blobs \subseteq blobs'
<1>1. q \in DOMAIN jobs /\ jobs[q] \in Job /\ jobs[q].step = "provision"
  BY JobAt DEF PutBlobs
<1>2. JobTrue(jobs[q], head, DOMAIN immutables, blobs)
  BY <1>1 DEF HonestInv, JobsTrue
<1>3. /\ jobs'[q].review = jobs[q].review /\ jobs'[q].key = jobs[q].key
      /\ jobs'[q].half = jobs[q].half /\ jobs'[q].partial = jobs[q].partial
      /\ jobs'[q].missing = jobs[q].missing
      /\ jobs'[q].todo = {} /\ jobs[q].todo = {} /\ jobs'[q].fresh = {}
      /\ jobs'[q].step = "land" /\ immutables' = immutables
      /\ blobs' = blobs \cup jobs[q].fresh
  BY <1>1 DEF PutBlobs, Job
<1>4. QED
  BY <1>1, <1>2, <1>3 DEF JobTrue, SyncSteps

LEMMA LandTrue ==
  ASSUME CacheAssumption, TInv, HonestInv, NEW q \in Requests, PutSnapshot(q)
  PROVE  /\ JobTrue(jobs'[q], head', DOMAIN immutables', blobs')
         /\ HalvesTrue' /\ EnvelopesTrue' /\ DOMAIN immutables \subseteq DOMAIN immutables'
         /\ \A k \in DOMAIN immutables : /\ immutables'[k].files = immutables[k].files
                                         /\ immutables'[k].capped <=> immutables[k].capped
<1> DEFINE k == jobs[q].key
           j == jobs[q]
           own == OwnImmutablePartial(k)
<1>1. q \in DOMAIN jobs /\ jobs[q] \in Job /\ jobs[q].step = "land"
  BY JobAt DEF PutSnapshot
<1>2. /\ IsHalfOf(j.half, k) /\ (j.partial <=> k \in Capped)
      /\ k \in Capped => k \in DOMAIN immutables
      /\ IndexOf(k) \subseteq j.missing \cup blobs
  BY <1>1 DEF HonestInv, JobsTrue, JobTrue
<1>3. own <=> k \in Capped
  BY <1>2 DEF OwnImmutablePartial, HonestInv, HalvesTrue
<1>4. /\ immutables' = Upsert(immutables, k,
            [files |-> j.half.files, capped |-> j.half.capped, partial |-> own])
      /\ envelopes' = Upsert(envelopes, j.review,
            [key |-> k, partial |-> j.partial, missing |-> j.missing])
      /\ blobs' = blobs
  BY DEF PutSnapshot
<1>5. jobs'[q].step = "leave"
  BY <1>1 DEF PutSnapshot, Job
<1> HIDE DEF k, j, own
<1>6. /\ DOMAIN immutables' = DOMAIN immutables \cup {k}
      /\ immutables'[k].files = j.half.files /\ immutables'[k].capped = j.half.capped
      /\ immutables'[k].partial = own
      /\ \A x \in DOMAIN immutables : x # k => immutables'[x] = immutables[x]
  BY <1>4 DEF Upsert
<1>7. HalvesTrue'
  BY <1>2, <1>3, <1>6 DEF HonestInv, HalvesTrue, IsHalfOf
<1>8. /\ DOMAIN envelopes' = DOMAIN envelopes \cup {j.review}
      /\ envelopes'[j.review].key = k /\ envelopes'[j.review].partial = j.partial
      /\ envelopes'[j.review].missing = j.missing
      /\ \A x \in DOMAIN envelopes : x # j.review => envelopes'[x] = envelopes[x]
  BY <1>4 DEF Upsert
<1>9. EnvelopesTrue'
  BY <1>2, <1>4, <1>6, <1>8 DEF HonestInv, EnvelopesTrue
<1>10. \A x \in DOMAIN immutables : /\ immutables'[x].files = immutables[x].files
                                    /\ immutables'[x].capped <=> immutables[x].capped
  BY <1>2, <1>6 DEF HonestInv, HalvesTrue, IsHalfOf
<1>11. QED
  BY <1>5, <1>6, <1>7, <1>9, <1>10, OutsideIsTrue

\* The steps of a request: their part of the invariant, all at once.
Steps(q) ==
  \/ \E r \in Reviews : EnterSync(q, r)
  \/ SyncStep(q) \/ FailSync(q)
  \/ \E l \in Locals : DeleteLocalReview(q, l)
  \/ DropPins(q) \/ SweepHeldOff(q) \/ ProposeHalves(q)

LEMMA RequestIsFree ==
  ASSUME NEW q \in Requests, Steps(q)
  PROVE  /\ Free(DaemonOf[q]) /\ head' = head
         /\ DOMAIN jobs' \subseteq DOMAIN jobs \cup {q}
         /\ \A x \in DOMAIN jobs' : x # q => x \in DOMAIN jobs /\ jobs'[x] = jobs[x]
         /\ sweeps' = sweeps \/ ProposeHalves(q)
<1>1. CASE \/ ReadDetail(q) \/ LookUpHalf(q) \/ FetchHalf(q) \/ PutImmutable(q) \/ BuildHalf(q)
           \/ PutBlobs(q) \/ PutSnapshot(q) \/ FailSync(q) \/ DropPins(q)
  BY <1>1 DEF ReadDetail, LookUpHalf, FetchHalf, PutImmutable, BuildHalf, PutBlobs,
              PutSnapshot, FailSync, DropPins, At
<1>2. CASE \E b \in Blobs : ProvisionBlob(q, b)
  BY <1>2 DEF ProvisionBlob, At
<1>3. CASE \E r \in Reviews : EnterSync(q, r)
  BY <1>3 DEF EnterSync, Upsert
<1>4. CASE \E l \in Locals : DeleteLocalReview(q, l)
  BY <1>4 DEF DeleteLocalReview, Upsert
<1>5. CASE LeaveGate(q) \/ SweepHeldOff(q) \/ ProposeHalves(q)
  BY <1>5 DEF LeaveGate, SweepHeldOff, ProposeHalves, At, Without, Restrict
<1>6. QED
  BY <1>1, <1>2, <1>3, <1>4, <1>5 DEF Steps, SyncStep

LEMMA RequestHonest ==
  ASSUME CacheAssumption, Restricted, TypeInv, HonestInv, NEW q \in Requests, Steps(q)
  PROVE  HonestInv'
<1>0. TInv /\ OneDaemon /\ WholeLocals
  BY DEF TypeInv, Restricted
<1>1. /\ Free(DaemonOf[q]) /\ head' = head
      /\ \A x \in DOMAIN jobs' : x # q => x \in DOMAIN jobs /\ jobs'[x] = jobs[x]
      /\ sweeps' = sweeps \/ ProposeHalves(q)
  BY RequestIsFree
<1>2. HeadsShown'
  BY <1>1 DEF HonestInv, HeadsShown
<1>3. DOMAIN sweeps = {}
  BY <1>0, <1>1, NoSweep
<1>4. SweepsAlone'
  <2>1. CASE sweeps' = sweeps
    BY <1>3, <2>1 DEF SweepsAlone
  <2>2. CASE ProposeHalves(q)
    <3>1. DOMAIN sweeps' = {DaemonOf[q]} /\ jobs' = Without(jobs, {q}) /\ gate[DaemonOf[q]] = 0
      BY <1>3, <2>2 DEF ProposeHalves, Upsert, GateOf
    <3>2. DaemonOf[q] \in Daemons
      BY DEF CacheAssumption
    <3>3. SyncsOf(DaemonOf[q]) = {}
      <4>1. IsFiniteSet(SyncsOf(DaemonOf[q])) /\ Cardinality(SyncsOf(DaemonOf[q])) = 0
        BY <1>0, <3>1, <3>2, SyncsFinite DEF TypeInv, GateCountsSyncs
      <4>2. QED
        BY <4>1, FS_EmptySet
    <3>4. SyncsOf(DaemonOf[q])' \subseteq SyncsOf(DaemonOf[q])
      BY <3>1 DEF SyncsOf, Without, Restrict
    <3>5. QED
      BY <3>1, <3>3, <3>4 DEF SweepsAlone
  <2>3. QED
    BY <1>1, <2>1, <2>2
<1>5. CASE PutImmutable(q)
  <2>1. /\ JobTrue(jobs'[q], head', DOMAIN immutables', blobs')
        /\ HalvesTrue' /\ EnvelopesTrue' /\ DOMAIN immutables \subseteq DOMAIN immutables'
    BY <1>0, <1>5, StoreTrue
  <2>2. blobs' = blobs
    BY <1>5 DEF PutImmutable
  <2>3. JobsTrue'
    BY <1>1, <2>1, <2>2, OneJobMoves DEF HonestInv
  <2>4. QED
    BY <1>2, <1>4, <2>1, <2>3 DEF HonestInv
<1>6. CASE PutSnapshot(q)
  <2>1. /\ JobTrue(jobs'[q], head', DOMAIN immutables', blobs')
        /\ HalvesTrue' /\ EnvelopesTrue' /\ DOMAIN immutables \subseteq DOMAIN immutables'
    BY <1>0, <1>6, LandTrue
  <2>2. blobs' = blobs
    BY <1>6 DEF PutSnapshot
  <2>3. JobsTrue'
    BY <1>1, <2>1, <2>2, OneJobMoves DEF HonestInv
  <2>4. QED
    BY <1>2, <1>4, <2>1, <2>3 DEF HonestInv
<1>7. CASE PutBlobs(q)
  <2>1. JobTrue(jobs'[q], head', DOMAIN immutables', blobs') /\ blobs \subseteq blobs'
    BY <1>0, <1>7, PutBlobsTrue
  <2>2. immutables' = immutables /\ envelopes' = envelopes
    BY <1>7 DEF PutBlobs
  <2>3. JobsTrue'
    BY <1>1, <2>1, <2>2, OneJobMoves DEF HonestInv
  <2>4. HalvesTrue' /\ EnvelopesTrue'
    BY <2>1, <2>2 DEF HonestInv, HalvesTrue, EnvelopesTrue
  <2>5. QED
    BY <1>2, <1>4, <2>3, <2>4 DEF HonestInv
<1>8. CASE \/ ReadDetail(q) \/ LookUpHalf(q) \/ FetchHalf(q) \/ BuildHalf(q)
           \/ \E b \in Blobs : ProvisionBlob(q, b)
  <2>1. JobTrue(jobs'[q], head', DOMAIN immutables', blobs')
    BY <1>0, <1>8, DetailTrue, LookUpTrue, FetchTrue, BuildTrue, ProvisionTrue
  <2>2. immutables' = immutables /\ envelopes' = envelopes /\ blobs' = blobs
    BY <1>8 DEF ReadDetail, LookUpHalf, FetchHalf, BuildHalf, ProvisionBlob
  <2>3. JobsTrue'
    BY <1>1, <2>1, <2>2, OneJobMoves DEF HonestInv
  <2>4. HalvesTrue' /\ EnvelopesTrue'
    BY <2>2 DEF HonestInv, HalvesTrue, EnvelopesTrue
  <2>5. QED
    BY <1>2, <1>4, <2>3, <2>4 DEF HonestInv
<1>9. CASE \/ \E r \in Reviews : EnterSync(q, r)
           \/ FailSync(q) \/ LeaveGate(q) \/ DropPins(q) \/ SweepHeldOff(q) \/ ProposeHalves(q)
           \/ \E l \in Locals : DeleteLocalReview(q, l)
  <2>1. q \in DOMAIN jobs' => JobTrue(jobs'[q], head', DOMAIN immutables', blobs')
    <3>1. CASE \E r \in Reviews : EnterSync(q, r)
      <4>1. PICK r \in Reviews : jobs' = Upsert(jobs, q, NewJob(r, "detail"))
        BY <3>1 DEF EnterSync
      <4>2. jobs'[q] = NewJob(r, "detail")
        BY <4>1 DEF Upsert
      <4>3. QED
        BY <4>2 DEF NewJob, JobTrue
    <3>2. CASE \E l \in Locals : DeleteLocalReview(q, l)
      <4>1. PICK l \in Locals : jobs' = Upsert(jobs, q, NewJob(l, "unpin"))
        BY <3>2 DEF DeleteLocalReview
      <4>2. jobs'[q].step = "unpin"
        BY <4>1 DEF Upsert, NewJob
      <4>3. QED
        BY <4>2, OutsideIsTrue DEF SyncSteps
    <3>3. CASE FailSync(q)
      <4>1. q \in DOMAIN jobs /\ jobs[q] \in Job
        BY <1>0, <3>3 DEF FailSync, TInv, IsTable, ReadyJob
      <4>2. jobs'[q].step = "leave"
        BY <3>3, <4>1 DEF FailSync, Job
      <4>3. QED
        BY <4>2, OutsideIsTrue
    <3>4. CASE DropPins(q)
      <4>1. q \in DOMAIN jobs /\ jobs[q] \in Job
        BY <1>0, <3>4, JobAt DEF DropPins
      <4>2. jobs'[q].step = "reclaim"
        BY <3>4, <4>1 DEF DropPins, Job
      <4>3. QED
        BY <4>2, OutsideIsTrue DEF SyncSteps
    <3>5. CASE LeaveGate(q)
      <4>1. q \in DOMAIN jobs
        BY <3>5 DEF LeaveGate, At
      <4>2. q \in DOMAIN jobs' => jobs'[q].step = "reclaim"
        BY <3>5, <4>1 DEF LeaveGate, NewJob, Without, Restrict
      <4>3. QED
        BY <4>2, OutsideIsTrue DEF SyncSteps
    <3>6. CASE SweepHeldOff(q) \/ ProposeHalves(q)
      BY <3>6 DEF SweepHeldOff, ProposeHalves, Without, Restrict
    <3>7. QED
      BY <1>9, <3>1, <3>2, <3>3, <3>4, <3>5, <3>6
  <2>2. immutables' = immutables /\ blobs' = blobs
    BY <1>9 DEF EnterSync, FailSync, LeaveGate, DropPins, SweepHeldOff, ProposeHalves,
                DeleteLocalReview
  <2>3. \A r \in DOMAIN envelopes' : r \in DOMAIN envelopes /\ envelopes'[r] = envelopes[r]
    <3>1. CASE envelopes' = envelopes
      BY <3>1
    <3>2. CASE \E l \in Locals : DeleteLocalReview(q, l)
      BY <3>2 DEF DeleteLocalReview, Without, Restrict
    <3>3. QED
      BY <1>9, <3>1, <3>2
         DEF EnterSync, FailSync, LeaveGate, DropPins, SweepHeldOff, ProposeHalves
  <2>4. JobsTrue'
    BY <1>1, <2>1, <2>2, OneJobMoves DEF HonestInv
  <2>5. HalvesTrue' /\ EnvelopesTrue'
    BY <2>2, <2>3 DEF HonestInv, HalvesTrue, EnvelopesTrue
  <2>6. QED
    BY <1>2, <1>4, <2>4, <2>5 DEF HonestInv
<1>10. QED
  BY <1>5, <1>6, <1>7, <1>8, <1>9 DEF Steps, SyncStep

\* A sweep: no sync of the one daemon is under way, so no job claims anything;
\* what the envelopes name is recomputed where it counts.
LEMMA SweepHonest ==
  ASSUME CacheAssumption, Restricted, TypeInv, HonestInv, NEW d \in Daemons, SweepStep(d)
  PROVE  HonestInv'
<1>1. d \in DOMAIN sweeps /\ head' = head /\ jobs' = jobs /\ envelopes' = envelopes
  BY DEF SweepStep, DisposeHalves, ProposeBlobs, DisposeBlobs
<1>2. DOMAIN sweeps' \subseteq DOMAIN sweeps
  BY DEF SweepStep, DisposeHalves, ProposeBlobs, DisposeBlobs, Without, Restrict
<1>3. \A q \in DOMAIN jobs : DaemonOf[q] = d /\ jobs[q].step \notin SyncSteps
  <2>1. DOMAIN jobs \subseteq Requests
    BY DEF TypeInv, TInv, IsTable
  <2>2. \A q \in DOMAIN jobs : DaemonOf[q] = d
    BY <2>1 DEF CacheAssumption, Restricted, OneDaemon
  <2>3. SyncsOf(d) = {}
    BY <1>1 DEF HonestInv, SweepsAlone
  <2>4. QED
    BY <2>2, <2>3 DEF SyncsOf
<1>4. HeadsShown' /\ SweepsAlone'
  BY <1>1, <1>2 DEF HonestInv, HeadsShown, SweepsAlone, SyncsOf
<1>5. JobsTrue'
  <2>1. \A q \in DOMAIN jobs' : JobTrue(jobs'[q], head', DOMAIN immutables', blobs')
    BY <1>1, <1>3, OutsideIsTrue
  <2>2. QED
    BY <2>1 DEF JobsTrue
<1>6. /\ \A k \in DOMAIN immutables' : k \in DOMAIN immutables /\ immutables'[k] = immutables[k]
      /\ LiveCompareKeys \subseteq DOMAIN immutables'
  <2>1. LiveCompareKeys \subseteq DOMAIN immutables
    BY DEF LiveCompareKeys, HonestInv, EnvelopesTrue
  <2>2. CASE DisposeHalves(d)
    BY <2>1, <2>2 DEF DisposeHalves, Without, Restrict
  <2>3. CASE ProposeBlobs(d) \/ DisposeBlobs(d)
    BY <2>1, <2>3 DEF ProposeBlobs, DisposeBlobs
  <2>4. QED
    BY <2>2, <2>3 DEF SweepStep
<1>7. HalvesTrue'
  BY <1>6 DEF HonestInv, HalvesTrue
<1>8. \A r \in DOMAIN envelopes : IndexOf(envelopes[r].key) \subseteq envelopes[r].missing \cup blobs'
  <2>1. CASE blobs' = blobs
    BY <2>1 DEF HonestInv, EnvelopesTrue
  <2>2. CASE DisposeBlobs(d)
    <3>1. blobs' = blobs \ (sweeps[d].blobs \ ReferencedBlobShas)
      BY <2>2 DEF DisposeBlobs
    <3>2. ASSUME NEW r \in DOMAIN envelopes
          PROVE  IndexOf(envelopes[r].key) \subseteq ReferencedBlobShas
      <4>1. envelopes[r].key \in DOMAIN immutables
        BY DEF HonestInv, EnvelopesTrue
      <4>2. IsHalfOf(immutables[envelopes[r].key], envelopes[r].key)
        BY <4>1 DEF HonestInv, HalvesTrue
      <4>3. BlobIndex(immutables[envelopes[r].key]) = IndexOf(envelopes[r].key)
        BY <4>2, IndexOfHalf
      <4>4. QED
        BY <4>1, <4>3 DEF ReferencedBlobShas
    <3>3. QED
      BY <3>1, <3>2 DEF HonestInv, EnvelopesTrue
  <2>3. QED
    BY <2>1, <2>2 DEF SweepStep, DisposeHalves, ProposeBlobs
<1>9. EnvelopesTrue'
  BY <1>1, <1>6, <1>8 DEF HonestInv, EnvelopesTrue, LiveCompareKeys
<1>10. QED
  BY <1>4, <1>5, <1>7, <1>9 DEF HonestInv

LEMMA PushHonest ==
  ASSUME CacheAssumption, Restricted, TypeInv, HonestInv, NEW r \in Reviews, Push(r)
  PROVE  HonestInv'
<1>1. PICK k \in HeadsOf[r] : head' = [head EXCEPT ![r] = k]
  BY DEF Push
<1>2. /\ head' \in [Reviews -> CompareKeys] /\ head'[r] = k
      /\ \A x \in Reviews : x # r => head'[x] = head[x]
  BY <1>1 DEF TypeInv, TInv, CacheAssumption
<1>3. UNCHANGED <<immutables, envelopes, blobs, jobs, sweeps>>
  BY DEF Push
<1>4. HeadsShown'
  BY <1>2 DEF HonestInv, HeadsShown
<1>5. ASSUME NEW q \in DOMAIN jobs
      PROVE  JobTrue(jobs[q], head', DOMAIN immutables, blobs)
  <2>1. jobs[q].review \in Reviews /\ JobTrue(jobs[q], head, DOMAIN immutables, blobs)
    BY DEF TypeInv, TInv, IsTable, ReadyJob, Job, HonestInv, JobsTrue
  <2>2. ~ (jobs[q].review = r /\ jobs[q].step \in {"lookup", "fetch"})
    BY DEF Push, Restricted
  <2>3. jobs[q].step \in {"lookup", "fetch"} => head'[jobs[q].review] = head[jobs[q].review]
    BY <1>2, <2>1, <2>2
  <2>4. QED
    BY <2>1, <2>3, JobStaysTrue
<1>6. JobsTrue'
  BY <1>3, <1>5 DEF JobsTrue
<1>7. HalvesTrue' /\ EnvelopesTrue' /\ SweepsAlone'
  BY <1>3 DEF HonestInv, HalvesTrue, EnvelopesTrue, SweepsAlone, SyncsOf
<1>8. QED
  BY <1>4, <1>6, <1>7 DEF HonestInv

LEMMA HonestStep ==
  ASSUME CacheAssumption, Restricted, TypeInv, HonestInv, [Next]_vars
  PROVE  HonestInv'
<1>1. ASSUME NEW q \in Requests, Steps(q)
      PROVE  HonestInv'
  BY <1>1, RequestHonest
<1>2. ASSUME NEW d \in Daemons, SweepStep(d)
      PROVE  HonestInv'
  BY <1>2, SweepHonest
<1>3. ASSUME NEW d \in Daemons, Crash(d)
      PROVE  HonestInv'
  <2>1. UNCHANGED <<immutables, envelopes, blobs, head>>
    BY <1>3 DEF Crash
  <2>2. /\ \A q \in DOMAIN jobs' : q \in DOMAIN jobs /\ jobs'[q] = jobs[q]
        /\ DOMAIN sweeps' \subseteq DOMAIN sweeps
    BY <1>3 DEF Crash, Without, Restrict
  <2>3. JobsTrue' /\ SweepsAlone'
    BY <2>1, <2>2 DEF HonestInv, JobsTrue, SweepsAlone, SyncsOf
  <2>4. QED
    BY <2>1, <2>3 DEF HonestInv, HeadsShown, HalvesTrue, EnvelopesTrue
<1>4. ASSUME NEW r \in Reviews, Push(r)
      PROVE  HonestInv'
  BY <1>4, PushHonest
<1>5. CASE (\E l \in Locals : CreateLocalReview(l)) \/ UNCHANGED vars
  <2>1. UNCHANGED <<immutables, envelopes, blobs, jobs, sweeps, head>>
    BY <1>5 DEF CreateLocalReview, vars
  <2>2. QED
    BY <2>1 DEF HonestInv, HeadsShown, HalvesTrue, EnvelopesTrue, JobsTrue, SweepsAlone, SyncsOf
<1>6. QED
  BY <1>1, <1>2, <1>3, <1>4, <1>5 DEF Next, Steps

LEMMA HonestInvCorrect == ASSUME Restricted PROVE Spec => [](TypeInv /\ HonestInv)
<1>1. Init => TypeInv /\ HonestInv
  <2>1. SUFFICES ASSUME Init
                 PROVE  TypeInv /\ HonestInv
    OBVIOUS
  <2>2. /\ DOMAIN immutables = {} /\ DOMAIN envelopes = {} /\ DOMAIN jobs = {}
        /\ DOMAIN sweeps = {}
    BY <2>1, EmptyTableIsTable DEF Init
  <2>3. TypeInv
    <3>1. \A d \in Daemons : SyncsOf(d) = {} /\ gate[d] = 0
      BY <2>1, <2>2 DEF Init, SyncsOf
    <3>2. QED
      BY <2>1, <3>1, TablesInit, FS_EmptySet DEF TypeInv, GateCountsSyncs
  <2>4. HeadsShown
    BY <2>1 DEF Init, HeadsShown
  <2>5. QED
    BY <2>2, <2>3, <2>4 DEF HonestInv, HalvesTrue, SweepsAlone, JobsTrue, EnvelopesTrue
<1>2. TypeInv /\ HonestInv /\ [Next]_vars => (TypeInv /\ HonestInv)'
  BY TablesStep, GateStep, HonestStep, CacheAssumption DEF TypeInv
<1>3. QED
  BY <1>1, <1>2, PTL DEF Spec

\* What the invariant says of one half and of one envelope.
LEMMA HalfAt ==
  ASSUME TypeInv, HonestInv, NEW k \in DOMAIN immutables
  PROVE  /\ immutables[k] \in Stored /\ IsHalfOf(immutables[k], k)
         /\ immutables[k].partial <=> k \in Capped
<1>1. immutables[k] \in Stored
  BY DEF TypeInv, TInv, IsTable
<1>2. IsHalfOf(immutables[k], k) /\ (immutables[k].partial <=> k \in Capped)
  BY DEF HonestInv, HalvesTrue
<1>3. QED
  BY <1>1, <1>2

LEMMA EnvelopeAt ==
  ASSUME HonestInv, NEW r \in DOMAIN envelopes
  PROVE  /\ envelopes[r].key \in DOMAIN immutables
         /\ envelopes[r].partial <=> envelopes[r].key \in Capped
         /\ IndexOf(envelopes[r].key) \subseteq envelopes[r].missing \cup blobs
BY DEF HonestInv, EnvelopesTrue

(* A cached half says it is incomplete exactly when it is, although the     *)
(* snapshot transaction writes it again with whatever `partial` the row    *)
(* has by then (store.ts, writeSnapshotRows): a sweep in between would      *)
(* have to run beside the sync, which the gate forbids.                    *)
THEOREM HalvesKeepTheirPartial == ASSUME Restricted PROVE Spec => []HalvesSayWhatTheyAre
<1>1. TypeInv /\ HonestInv => HalvesSayWhatTheyAre
  <2>1. SUFFICES ASSUME TypeInv, HonestInv, NEW k \in DOMAIN immutables
                 PROVE  immutables[k].partial = immutables[k].capped
    BY DEF HalvesSayWhatTheyAre
  <2>5. /\ immutables[k] \in Stored /\ IsHalfOf(immutables[k], k)
        /\ immutables[k].partial <=> k \in Capped
    BY <2>1, HalfAt
  <2>2. immutables[k].partial \in BOOLEAN /\ immutables[k].capped \in BOOLEAN
    BY <2>5 DEF Stored
  <2>3. (immutables[k].partial <=> k \in Capped) /\ (immutables[k].capped <=> k \in Capped)
    BY <2>5 DEF IsHalfOf
  <2>4. QED
    BY <2>2, <2>3
<1>2. QED
  BY <1>1, HonestInvCorrect, PTL

(* The bytes a sync found with hasBlob are there until its envelope names   *)
(* them (sync.ts, provisionBlobs).                                         *)
THEOREM FoundBytesAreKept == ASSUME Restricted PROVE Spec => []FoundBytesStay
<1>1. TypeInv /\ HonestInv => FoundBytesStay
  <2>1. SUFFICES ASSUME TypeInv, HonestInv, NEW q \in DOMAIN jobs,
                        jobs[q].step \in {"provision", "land"}
                 PROVE  BlobIndex(jobs[q].half)
                          \ (jobs[q].todo \cup jobs[q].fresh \cup jobs[q].missing) \subseteq blobs
    BY DEF FoundBytesStay
  <2>2. /\ IsHalfOf(jobs[q].half, jobs[q].key)
        /\ IndexOf(jobs[q].key)
             \subseteq jobs[q].todo \cup jobs[q].fresh \cup jobs[q].missing \cup blobs
    BY <2>1 DEF HonestInv, JobsTrue, JobTrue
  <2>3. BlobIndex(jobs[q].half) = IndexOf(jobs[q].key)
    BY <2>2, IndexOfHalf
  <2>4. QED
    BY <2>2, <2>3
<1>2. QED
  BY <1>1, HonestInvCorrect, PTL

(* No snapshot looks more complete than it is: capped files come with the   *)
(* envelope's `partial`, bytes that are not stored are named as missing.   *)
THEOREM SnapshotsSayWhatIsMissing == ASSUME Restricted PROVE Spec => []SnapshotsAreHonest
<1>1. TypeInv /\ HonestInv => SnapshotsAreHonest
  <2>1. SUFFICES ASSUME TypeInv, HonestInv, NEW r \in DOMAIN envelopes
                 PROVE  /\ Shown(r).half.capped => Shown(r).partial
                        /\ BlobIndex(Shown(r).half) \ blobs \subseteq Shown(r).missing
    BY DEF SnapshotsAreHonest
  <2> DEFINE k == envelopes[r].key
  <2>2. /\ IsHalfOf(immutables[k], k) /\ (envelopes[r].partial <=> k \in Capped)
        /\ IndexOf(k) \subseteq envelopes[r].missing \cup blobs
    BY <2>1, EnvelopeAt, HalfAt
  <2>3. /\ Shown(r).half = HalfOf(immutables[k]) /\ Shown(r).partial = envelopes[r].partial
        /\ Shown(r).missing = envelopes[r].missing
    BY DEF Shown
  <2> HIDE DEF k
  <2>4. IsHalfOf(Shown(r).half, k)
    BY <2>2, <2>3 DEF IsHalfOf, HalfOf
  <2>5. BlobIndex(Shown(r).half) = IndexOf(k)
    BY <2>4, IndexOfHalf
  <2>6. QED
    BY <2>2, <2>3, <2>4, <2>5 DEF IsHalfOf
<1>2. QED
  BY <1>1, HonestInvCorrect, PTL

-----------------------------------------------------------------------------
(* The cache implements SnapshotPromise.  The snapshot a review shows is    *)
(* put together from two tables; a step that writes one row of either      *)
(* changes what one review shows, or nothing.                              *)

\* What a review shows depends on its envelope and on the half it names.
LEMMA ShownStays ==
  ASSUME NEW r, envelopes'[r] = envelopes[r],
         immutables'[envelopes[r].key].files = immutables[envelopes[r].key].files,
         immutables'[envelopes[r].key].capped = immutables[envelopes[r].key].capped
  PROVE  Shown(r)' = Shown(r)
BY DEF Shown, HalfOf

LEMMA ShownNext ==
  ASSUME NEW r
  PROVE  Shown(r)' = [key |-> envelopes'[r].key, partial |-> envelopes'[r].partial,
                      missing |-> envelopes'[r].missing,
                      half |-> [files |-> immutables'[envelopes'[r].key].files,
                                capped |-> immutables'[envelopes'[r].key].capped]]
BY DEF Shown, HalfOf

LEMMA ShownUnchanged ==
  ASSUME HonestInv, DOMAIN envelopes' = DOMAIN envelopes,
         \A r \in DOMAIN envelopes : envelopes'[r] = envelopes[r],
         \A k \in LiveCompareKeys : /\ immutables'[k].files = immutables[k].files
                                    /\ immutables'[k].capped = immutables[k].capped
  PROVE  UNCHANGED ShownNow
<1>1. \A r \in DOMAIN envelopes : Shown(r)' = Shown(r)
  BY ShownStays DEF LiveCompareKeys
<1>2. QED
  BY <1>1 DEF ShownNow

\* The write of a snapshot publishes it, and shows no other review anything new.
LEMMA LandPublishes ==
  ASSUME CacheAssumption, TypeInv, HonestInv, HonestInv', TypeInv',
         NEW q \in Requests, PutSnapshot(q)
  PROVE  \E r \in Reviews, s \in Promise!Snapshot : Promise!Publish(r, s)
<1>0. TInv /\ TInv'
  BY DEF TypeInv
<1>1. PICK r \in Reviews : r = jobs[q].review
  BY <1>0, JobAt DEF PutSnapshot, Job
<1> DEFINE s == Shown(r)'
           k == envelopes'[r].key
<1>2. envelopes' = Upsert(envelopes, r,
        [key |-> jobs[q].key, partial |-> jobs[q].partial, missing |-> jobs[q].missing])
  BY <1>1 DEF PutSnapshot
<1>3. /\ DOMAIN envelopes' = DOMAIN envelopes \cup {r}
      /\ \A x \in DOMAIN envelopes : x # r => envelopes'[x] = envelopes[x]
  BY <1>2 DEF Upsert
<1>4. /\ envelopes'[r] \in Envelope /\ k \in DOMAIN immutables' /\ immutables'[k] \in Stored
      /\ IsHalfOf(immutables'[k], k) /\ (envelopes'[r].partial <=> k \in Capped)
  <2>1. envelopes'[r] \in Envelope /\ k \in DOMAIN immutables'
    BY <1>0, <1>3 DEF TInv, IsTable, HonestInv, EnvelopesTrue
  <2>2. immutables'[k] \in Stored
    BY <1>0, <2>1 DEF TInv, IsTable
  <2>3. IsHalfOf(immutables'[k], k) /\ (envelopes'[r].partial <=> k \in Capped)
    BY <1>3, <2>1 DEF HonestInv, HalvesTrue, EnvelopesTrue
  <2>4. QED
    BY <2>1, <2>2, <2>3
<1>5. s = [key |-> k, partial |-> envelopes'[r].partial, missing |-> envelopes'[r].missing,
           half |-> [files |-> immutables'[k].files, capped |-> immutables'[k].capped]]
  BY ShownNext
<1>6. s \in Promise!Snapshot /\ Promise!Faithful(s)
  <2>1. /\ k \in CompareKeys /\ envelopes'[r].partial \in BOOLEAN
        /\ envelopes'[r].missing \subseteq Blobs
        /\ immutables'[k].files \in CompareKeys /\ immutables'[k].capped \in BOOLEAN
    BY <1>4 DEF Envelope, Stored
  <2>2. /\ immutables'[k].files = k
        /\ immutables'[k].capped => envelopes'[r].partial
    BY <1>4 DEF IsHalfOf
  <2> HIDE DEF k, s
  <2>3. s \in Promise!Snapshot
    BY <1>5, <2>1 DEF Promise!Snapshot
  <2>4. s.half.files = s.key /\ (s.half.capped => s.partial)
    BY <1>5, <2>2
  <2>5. QED
    BY <2>3, <2>4 DEF Promise!Faithful
<1>7. ASSUME NEW x \in DOMAIN envelopes, x # r
      PROVE  Shown(x)' = Shown(x)
  <2> DEFINE kx == envelopes[x].key
  <2>1. kx \in DOMAIN immutables /\ envelopes'[x] = envelopes[x]
    BY <1>3, <1>7 DEF HonestInv, EnvelopesTrue
  <2>2. /\ immutables'[kx].files = immutables[kx].files
        /\ immutables'[kx].capped <=> immutables[kx].capped
    BY <1>0, <2>1, LandTrue
  <2>3. kx \in DOMAIN immutables'
    BY <1>0, LandTrue, <2>1
  <2>4. immutables'[kx].capped \in BOOLEAN /\ immutables[kx].capped \in BOOLEAN
    BY <1>0, <2>1, <2>3 DEF TInv, IsTable, Stored
  <2>5. QED
    BY <2>1, <2>2, <2>4, ShownStays
<1>8. ShownNow' = [x \in DOMAIN ShownNow \cup {r} |-> IF x = r THEN s ELSE ShownNow[x]]
  <2>1. DOMAIN ShownNow = DOMAIN envelopes /\ DOMAIN ShownNow' = DOMAIN envelopes \cup {r}
    BY <1>3 DEF ShownNow
  <2>2. \A x \in DOMAIN ShownNow' : ShownNow'[x] = Shown(x)'
    BY DEF ShownNow
  <2>3. \A x \in DOMAIN ShownNow : ShownNow[x] = Shown(x)
    BY DEF ShownNow
  <2>4. ShownNow' = [x \in DOMAIN envelopes \cup {r} |-> Shown(x)']
    BY <1>3 DEF ShownNow
  <2> HIDE DEF s
  <2>5. \A x \in DOMAIN envelopes \cup {r} :
          Shown(x)' = IF x = r THEN s ELSE ShownNow[x]
    <3>1. ASSUME NEW x \in DOMAIN envelopes \cup {r}, x # r
          PROVE  Shown(x)' = ShownNow[x]
      BY <1>7, <2>1, <2>3, <3>1
    <3>2. Shown(r)' = s
      BY DEF s
    <3>3. QED
      BY <3>1, <3>2
  <2>6. QED
    BY <2>1, <2>4, <2>5
<1>9. Promise!Publish(r, s)
  BY <1>6, <1>8 DEF Promise!Publish
<1>10. QED
  BY <1>1, <1>6, <1>9

LEMMA DeleteRemoves ==
  ASSUME NEW q \in Requests, NEW l \in Locals, DeleteLocalReview(q, l)
  PROVE  Promise!Remove(l)
<1>1. /\ DOMAIN envelopes' = DOMAIN envelopes \ {l} /\ immutables' = immutables
      /\ \A x \in DOMAIN envelopes' : envelopes'[x] = envelopes[x]
  BY DEF DeleteLocalReview, Without, Restrict
<1>2. \A x \in DOMAIN envelopes \ {l} : Shown(x)' = Shown(x)
  BY <1>1, ShownStays
<1>3. ShownNow' = [x \in DOMAIN envelopes \ {l} |-> Shown(x)]
  BY <1>1, <1>2 DEF ShownNow
<1>4. DOMAIN ShownNow = DOMAIN envelopes /\ \A x \in DOMAIN ShownNow : ShownNow[x] = Shown(x)
  BY DEF ShownNow
<1>5. QED
  BY <1>3, <1>4 DEF Promise!Remove, Restrict, Promise!Restrict

\* A half that is true before and after a step reads the same in both.
LEMMA HalvesReadTheSame ==
  ASSUME TypeInv, HonestInv, TypeInv', HonestInv',
         NEW k \in DOMAIN immutables, k \in DOMAIN immutables'
  PROVE  /\ immutables'[k].files = immutables[k].files
         /\ immutables'[k].capped = immutables[k].capped
<1>1. immutables[k] \in Stored /\ IsHalfOf(immutables[k], k)
  BY HalfAt
<1>2. immutables'[k] \in Stored
  BY DEF TypeInv, TInv, IsTable
<1>3. IsHalfOf(immutables'[k], k)
  BY DEF HonestInv, HalvesTrue
<1>4. /\ immutables[k].capped \in BOOLEAN /\ immutables'[k].capped \in BOOLEAN
  BY <1>1, <1>2 DEF Stored
<1>5. QED
  BY <1>1, <1>3, <1>4 DEF IsHalfOf

\* A step that writes no envelope shows nothing new.
LEMMA NoEnvelopeNoNews ==
  ASSUME TypeInv, HonestInv, TypeInv', HonestInv', envelopes' = envelopes
  PROVE  UNCHANGED ShownNow
<1>1. \A k \in LiveCompareKeys : k \in DOMAIN immutables /\ k \in DOMAIN immutables'
  BY DEF LiveCompareKeys, HonestInv, EnvelopesTrue
<1>2. \A k \in LiveCompareKeys : /\ immutables'[k].files = immutables[k].files
                                 /\ immutables'[k].capped = immutables[k].capped
  BY <1>1, HalvesReadTheSame
<1>3. QED
  BY <1>2, ShownUnchanged

LEMMA RefinementStep ==
  ASSUME CacheAssumption, TypeInv, HonestInv, TypeInv', HonestInv', [Next]_vars
  PROVE  [Promise!Next]_ShownNow
<1>1. ASSUME NEW q \in Requests, PutSnapshot(q)
      PROVE  Promise!Next
  BY <1>1, LandPublishes DEF Promise!Next, Reviews
<1>2. ASSUME NEW q \in Requests, NEW l \in Locals, DeleteLocalReview(q, l)
      PROVE  Promise!Next
  BY <1>2, DeleteRemoves DEF Promise!Next
<1>3. ASSUME NEW q \in Requests,
             \/ \E r \in Reviews : EnterSync(q, r)
             \/ ReadDetail(q) \/ LookUpHalf(q) \/ FetchHalf(q) \/ PutImmutable(q)
             \/ BuildHalf(q) \/ (\E b \in Blobs : ProvisionBlob(q, b)) \/ PutBlobs(q)
             \/ LeaveGate(q) \/ FailSync(q) \/ DropPins(q) \/ SweepHeldOff(q)
             \/ ProposeHalves(q)
      PROVE  UNCHANGED ShownNow
  <2>1. envelopes' = envelopes
    BY <1>3 DEF EnterSync, ReadDetail, LookUpHalf, FetchHalf, PutImmutable, BuildHalf,
       ProvisionBlob, PutBlobs, LeaveGate, FailSync, DropPins, SweepHeldOff, ProposeHalves
  <2>2. QED
    BY <2>1, NoEnvelopeNoNews
<1>4. ASSUME NEW d \in Daemons, SweepStep(d) \/ Crash(d)
      PROVE  UNCHANGED ShownNow
  <2>1. envelopes' = envelopes
    BY <1>4 DEF SweepStep, DisposeHalves, ProposeBlobs, DisposeBlobs, Crash
  <2>2. QED
    BY <2>1, NoEnvelopeNoNews
<1>5. CASE (\E r \in Reviews : Push(r)) \/ (\E l \in Locals : CreateLocalReview(l))
           \/ UNCHANGED vars
  <2>1. envelopes' = envelopes
    BY <1>5 DEF Push, CreateLocalReview, vars
  <2>2. QED
    BY <2>1, NoEnvelopeNoNews
<1>6. QED
  BY <1>1, <1>2, <1>3, <1>4, <1>5 DEF Next, SyncStep

(* The cache implements its promise: whatever syncs, sweeps, deletions and  *)
(* crashes do to the two tables, a reader sees one review's snapshot        *)
(* replaced whole and faithfully, or a local review's taken away, or        *)
(* nothing.                                                                *)
THEOREM CacheKeepsItsPromise == ASSUME Restricted PROVE Spec => PromiseSpec
<1>1. Init => Promise!Init
  <2>1. SUFFICES ASSUME Init
                 PROVE  ShownNow = [r \in {} |-> {}]
    BY DEF Promise!Init
  <2>2. DOMAIN envelopes = {}
    BY <2>1, EmptyTableIsTable DEF Init
  <2>3. QED
    BY <2>2 DEF ShownNow
<1>2. (TypeInv /\ HonestInv) /\ (TypeInv /\ HonestInv)' /\ [Next]_vars
        => [Promise!Next]_ShownNow
  BY RefinementStep, CacheAssumption
<1>3. QED
  BY <1>1, <1>2, HonestInvCorrect, PTL DEF Spec, PromiseSpec, Promise!Spec

=============================================================================
