------------------------- MODULE LocalReviewProofs -------------------------
(***************************************************************************)
(* Proofs about LocalReview, for any number of request slots, branch       *)
(* pairs, pull requests, texts, reviews and comments.                      *)
(*                                                                         *)
(* The argument: a review id is one that the high-water mark has passed,   *)
(* so an id that is in no row now but is still named by a stored snapshot  *)
(* or by a request in flight is never handed to another review.            *)
(***************************************************************************)
EXTENDS LocalReview, FiniteSetTheorems, TLAPS

RowFields == {"pair", "archived"}
EnvelopeFields == {"pair", "open", "threads", "authors"}
JobFields == {"step", "review", "found", "row", "stored", "input", "thread"}

(* The ids that have been handed out.                                      *)
Issued == 1..marks.review

MarksKnown ==
  /\ DOMAIN marks = {"review", "entity"}
  /\ marks.review \in Nat

RowsKnown ==
  \A id \in DOMAIN reviews : id \in Issued /\ DOMAIN reviews[id] = RowFields

(* A snapshot under an id says the pair of that review, if it still exists.*)
Fits(envelope, id) ==
  /\ DOMAIN envelope = EnvelopeFields
  /\ id \in DOMAIN reviews => envelope.pair = reviews[id].pair

EnvelopesKnown ==
  \A id \in DOMAIN envelopes : id \in Issued /\ Fits(envelopes[id], id)

(* So does what a sync in flight will write: the row it entered with, and  *)
(* the snapshot it took along.                                             *)
JobKnown(job) ==
  /\ DOMAIN job = JobFields
  /\ job.review \in Issued
  /\ job.step = "git" /\ job.review \in DOMAIN reviews
       => job.row.pair = reviews[job.review].pair
  /\ job.stored # NoEnvelope => Fits(job.stored, job.review)

JobsKnown == \A q \in DOMAIN jobs : JobKnown(jobs[q])

IInv == MarksKnown /\ RowsKnown /\ EnvelopesKnown /\ JobsKnown

----------------------------------------------------------------------------

(* A request starts or moves on, and nothing else changes.                 *)
LEMMA JobMoves ==
  ASSUME IInv, UNCHANGED <<reviews, marks, envelopes>>, NEW q, NEW job, JobKnown(job),
         \/ jobs' = Upsert(jobs, q, job)
         \/ q \in DOMAIN jobs /\ jobs' = [jobs EXCEPT ![q] = job]
  PROVE  IInv'
BY DEF IInv, MarksKnown, RowsKnown, EnvelopesKnown, Fits, JobsKnown, JobKnown, Issued, Upsert

(* A request ends, or none does: what is left was there before.            *)
LEMMA JobsLeave ==
  ASSUME NEW q, Finish(q)
  PROVE  DOMAIN jobs' \subseteq DOMAIN jobs /\ \A r \in DOMAIN jobs' : jobs'[r] = jobs[r]
BY DEF Finish, Without, Restrict

(* Rows and high-water mark stay, and so do the requests that remain: the  *)
(* invariant asks only that every snapshot fits.                           *)
LEMMA EnvelopesWritten ==
  ASSUME IInv, reviews' = reviews, MarksKnown', marks'.review = marks.review,
         DOMAIN jobs' \subseteq DOMAIN jobs, \A r \in DOMAIN jobs' : jobs'[r] = jobs[r],
         \A id \in DOMAIN envelopes' : id \in Issued /\ Fits(envelopes'[id], id)
  PROVE  IInv'
BY DEF IInv, MarksKnown, RowsKnown, EnvelopesKnown, Fits, JobsKnown, JobKnown, Issued

(* The same when the snapshots stay as well.                               *)
LEMMA EnvelopesKept ==
  ASSUME IInv, UNCHANGED <<reviews, envelopes>>, MarksKnown', marks'.review = marks.review,
         DOMAIN jobs' \subseteq DOMAIN jobs, \A r \in DOMAIN jobs' : jobs'[r] = jobs[r]
  PROVE  IInv'
BY EnvelopesWritten DEF IInv, EnvelopesKnown

(* One snapshot is written whole.                                          *)
LEMMA EnvelopePut ==
  ASSUME IInv, NEW id \in Issued, NEW envelope, Fits(envelope, id),
         envelopes' = Upsert(envelopes, id, envelope)
  PROVE  \A x \in DOMAIN envelopes' : x \in Issued /\ Fits(envelopes'[x], x)
BY DEF IInv, EnvelopesKnown, Upsert

(* One snapshot is changed in its threads and authors.                     *)
LEMMA EnvelopeChanged ==
  ASSUME IInv, NEW id \in DOMAIN envelopes, NEW shown, NEW by,
         envelopes' = [envelopes EXCEPT ![id].threads = shown, ![id].authors = by]
  PROVE  \A x \in DOMAIN envelopes' : x \in Issued /\ Fits(envelopes'[x], x)
BY DEF IInv, EnvelopesKnown, Fits, EnvelopeFields

(* Minting comments moves the other mark only.                             *)
LEMMA Minted ==
  ASSUME IInv, NEW n, MintMany(n)
  PROVE  MarksKnown' /\ marks'.review = marks.review
BY DEF IInv, MarksKnown, MintMany

----------------------------------------------------------------------------

LEMMA InitKnown == Init => IInv
BY DEF Init, IInv, MarksKnown, RowsKnown, EnvelopesKnown, JobsKnown, EmptyTable

LEMMA CreateKeeps ==
  ASSUME IInv, NEW p, CreateLocalReview(p)
  PROVE  IInv'
<1>1. MarksKnown' /\ marks'.review = marks.review + 1 /\ Issued \subseteq Issued'
  BY DEF IInv, MarksKnown, CreateLocalReview, Issued
<1>2. /\ DOMAIN reviews' = DOMAIN reviews \cup {marks.review + 1}
      /\ reviews'[marks.review + 1] = [pair |-> p, archived |-> None]
      /\ \A id \in Issued : id # marks.review + 1
      /\ \A id \in DOMAIN reviews : id \in Issued /\ reviews'[id] = reviews[id]
  BY DEF IInv, MarksKnown, RowsKnown, CreateLocalReview, Issued, Upsert
<1>3. ASSUME NEW id \in Issued, NEW envelope, Fits(envelope, id)
      PROVE  Fits(envelope, id)'
  BY <1>2, <1>3 DEF Fits
<1>4. RowsKnown'
  BY <1>1, <1>2 DEF IInv, RowsKnown, MarksKnown, Issued, RowFields
<1>5. EnvelopesKnown'
  BY <1>1, <1>2 DEF IInv, EnvelopesKnown, Fits, CreateLocalReview
<1>6. JobsKnown'
  BY <1>1, <1>2 DEF IInv, JobsKnown, JobKnown, Fits, CreateLocalReview
<1> QED BY <1>1, <1>4, <1>5, <1>6 DEF IInv

LEMMA DeleteKeeps ==
  ASSUME IInv, NEW id, DeleteLocalReview(id)
  PROVE  IInv'
<1>1. /\ DOMAIN reviews' = DOMAIN reviews \ {id} /\ DOMAIN envelopes' = DOMAIN envelopes \ {id}
      /\ \A x \in DOMAIN reviews' : reviews'[x] = reviews[x]
      /\ \A x \in DOMAIN envelopes' : envelopes'[x] = envelopes[x]
  BY DEF DeleteLocalReview, Without, Restrict
<1>2. marks' = marks /\ jobs' = jobs
  BY DEF DeleteLocalReview
<1> QED BY <1>1, <1>2 DEF IInv, MarksKnown, RowsKnown, EnvelopesKnown, Fits, JobsKnown,
                          JobKnown, Issued

LEMMA ListingMoves ==
  ASSUME NEW q, ServeListing(q)
  PROVE  \/ jobs' = [jobs EXCEPT ![q] = [jobs[q] EXCEPT !.step = "enter"]]
         \/ \E n : jobs' = [jobs EXCEPT ![q] = [jobs[q] EXCEPT !.found = n, !.step = "listed"]]
BY DEF ServeListing

(* The steps of a request that only move it on.                            *)
LEMMA MovesKeep ==
  ASSUME IInv, NEW q, ServeListing(q) \/ RejectListing(q) \/ Deadline(q) \/ EnterSync(q)
  PROVE  IInv'
<1>1. q \in DOMAIN jobs /\ JobKnown(jobs[q])
  BY DEF IInv, JobsKnown, ServeListing, RejectListing, Deadline, EnterSync, At
<1>2. UNCHANGED <<reviews, marks, envelopes>>
  BY DEF ServeListing, RejectListing, Deadline, EnterSync, tables
<1>3. ASSUME NEW job, JobKnown(job), jobs' = [jobs EXCEPT ![q] = job]
      PROVE  IInv'
  BY <1>1, <1>2, <1>3, JobMoves
<1>4. CASE ServeListing(q)
  <2>1. JobKnown([jobs[q] EXCEPT !.step = "enter"])
    BY <1>1 DEF JobKnown, JobFields
  <2>2. \A n : JobKnown([jobs[q] EXCEPT !.found = n, !.step = "listed"])
    BY <1>1 DEF JobKnown, JobFields
  <2> QED BY <1>3, <1>4, <2>1, <2>2, ListingMoves
<1>5. CASE RejectListing(q) \/ Deadline(q)
  <2>1. JobKnown([jobs[q] EXCEPT !.step = "enter"])
    BY <1>1 DEF JobKnown, JobFields
  <2> QED BY <1>3, <1>5, <2>1 DEF RejectListing, Deadline
<1>6. CASE EnterSync(q)
  <2> DEFINE id == jobs[q].review
             plain == [jobs[q] EXCEPT !.row = reviews[id], !.step = "git"]
             taking == [jobs[q] EXCEPT !.row = reviews[id], !.step = "git",
                                       !.stored = envelopes[id]]
  <2>1. JobKnown(plain)
    BY <1>1 DEF JobKnown, JobFields
  <2>2. id \in DOMAIN envelopes => JobKnown(taking)
    BY <1>1 DEF JobKnown, JobFields, IInv, EnvelopesKnown
  <2>3. \/ Finish(q)
        \/ jobs' = [jobs EXCEPT ![q] = plain]
        \/ id \in DOMAIN envelopes /\ jobs' = [jobs EXCEPT ![q] = taking]
    BY <1>6 DEF EnterSync
  <2>4. CASE Finish(q)
    BY <1>2, <2>4, JobsLeave, EnvelopesKept DEF IInv, MarksKnown
  <2> QED BY <1>3, <2>1, <2>2, <2>3, <2>4
<1> QED BY <1>4, <1>5, <1>6

LEMMA StartsKeep ==
  ASSUME IInv, NEW q, Begin(q)
  PROVE  IInv'
<1>1. UNCHANGED <<reviews, marks, envelopes>>
  BY DEF Begin, StartSync, StartSubmit, StartReply, tables
<1>2. PICK id \in Ids : \/ StartSync(q, id) \/ StartSubmit(q, id)
                        \/ \E t \in Entities, text \in Texts : StartReply(q, id, t, text)
  BY DEF Begin
<1>3. id \in Issued
  BY <1>2 DEF StartSync, StartSubmit, StartReply, IInv, RowsKnown
<1>4. CASE StartSync(q, id)
  <2> DEFINE job == [NewJob(id, IF Archived(id) THEN "enter" ELSE "listing")
                       EXCEPT !.row = reviews[id]]
  <2>1. JobKnown(job)
    BY <1>3 DEF JobKnown, NewJob, JobFields
  <2>2. jobs' = Upsert(jobs, q, job)
    BY <1>4 DEF StartSync, Start
  <2> QED BY <1>1, <2>1, <2>2, JobMoves
<1>5. CASE StartSubmit(q, id)
  <2>1. \A input : JobKnown([NewJob(id, "submitting") EXCEPT !.input = input])
    BY <1>3 DEF JobKnown, NewJob, JobFields
  <2> QED BY <1>1, <1>5, <2>1, JobMoves DEF StartSubmit, Start
<1>6. CASE \E t \in Entities, text \in Texts : StartReply(q, id, t, text)
  <2>1. \A t, input : JobKnown([NewJob(id, "replying") EXCEPT !.thread = t, !.input = input])
    BY <1>3 DEF JobKnown, NewJob, JobFields
  <2> QED BY <1>1, <1>6, <2>1, JobMoves DEF StartReply, Start
<1> QED BY <1>2, <1>4, <1>5, <1>6

LEMMA MarkKeeps ==
  ASSUME IInv, NEW q, MarkArchived(q)
  PROVE  IInv'
<1> DEFINE job == [jobs[q] EXCEPT !.found = None, !.step = "enter"]
<1>1. /\ DOMAIN reviews' = DOMAIN reviews
      /\ \A id \in DOMAIN reviews :
           DOMAIN reviews'[id] = RowFields /\ reviews'[id].pair = reviews[id].pair
  BY DEF MarkArchived, IInv, RowsKnown, RowFields
<1>2. q \in DOMAIN jobs /\ JobKnown(jobs[q]) /\ jobs' = [jobs EXCEPT ![q] = job]
  BY DEF MarkArchived, At, IInv, JobsKnown
<1>3. JobKnown(job)
  BY <1>2 DEF JobKnown, JobFields
<1>4. UNCHANGED <<marks, envelopes>>
  BY DEF MarkArchived
<1> QED BY <1>1, <1>2, <1>3, <1>4
        DEF IInv, MarksKnown, RowsKnown, EnvelopesKnown, Fits, JobsKnown, JobKnown, Issued

(* The steps in which a sync writes the snapshot.                          *)
LEMMA SyncsKeep ==
  ASSUME IInv, NEW q, LandSync(q) \/ FailSync(q)
  PROVE  IInv'
<1> DEFINE id == jobs[q].review
<1>1. q \in DOMAIN jobs /\ JobKnown(jobs[q]) /\ jobs[q].step = "git" /\ id \in Issued
  BY DEF IInv, JobsKnown, JobKnown, LandSync, FailSync, At
<1>2. Finish(q) /\ UNCHANGED <<reviews, marks>>
  BY DEF LandSync, FailSync
<1>3. \A shown, open, by :
        Fits([pair |-> jobs[q].row.pair, open |-> open, threads |-> shown, authors |-> by], id)
  BY <1>1 DEF JobKnown, Fits, EnvelopeFields
<1>4. jobs[q].stored # NoEnvelope => Fits([jobs[q].stored EXCEPT !.open = FALSE], id)
  BY <1>1 DEF JobKnown, Fits, EnvelopeFields
<1>5. envelopes' = envelopes
      \/ \E envelope : Fits(envelope, id) /\ envelopes' = Upsert(envelopes, id, envelope)
  BY <1>3, <1>4 DEF LandSync, FailSync
<1>6. \A x \in DOMAIN envelopes' : x \in Issued /\ Fits(envelopes'[x], x)
  BY <1>1, <1>5, EnvelopePut DEF IInv, EnvelopesKnown
<1> QED BY <1>2, <1>6, JobsLeave, EnvelopesWritten DEF IInv, MarksKnown

(* The steps in which a write reaches the disk, whole or in part.          *)
LEMMA WritesKeep ==
  ASSUME IInv, NEW q,
         FinishSubmit(q) \/ BreakSubmit(q) \/ FinishReply(q) \/ BreakReply(q) \/ RefuseWrite(q)
  PROVE  IInv'
<1> DEFINE id == jobs[q].review
<1>1. Finish(q) /\ reviews' = reviews
  BY DEF FinishSubmit, BreakSubmit, FinishReply, BreakReply, RefuseWrite, tables
<1>2. MarksKnown' /\ marks'.review = marks.review
  BY Minted DEF FinishSubmit, BreakSubmit, FinishReply, BreakReply, RefuseWrite, tables,
                IInv, MarksKnown
<1>3. \/ envelopes' = envelopes
      \/ /\ id \in DOMAIN envelopes
         /\ \E shown, by :
              envelopes' = [envelopes EXCEPT ![id].threads = shown, ![id].authors = by]
  <2>1. CASE FinishSubmit(q)
    BY <2>1 DEF FinishSubmit
  <2>2. CASE BreakSubmit(q)
    BY <2>2 DEF BreakSubmit
  <2>3. CASE FinishReply(q)
    BY <2>3 DEF FinishReply, PersistThread, StillHolds
  <2>4. CASE BreakReply(q) \/ RefuseWrite(q)
    BY <2>4 DEF BreakReply, RefuseWrite, tables
  <2> QED BY <2>1, <2>2, <2>3, <2>4
<1>4. \A x \in DOMAIN envelopes' : x \in Issued /\ Fits(envelopes'[x], x)
  BY <1>3, EnvelopeChanged DEF IInv, EnvelopesKnown
<1> QED BY <1>1, <1>2, <1>4, JobsLeave, EnvelopesWritten

LEMMA ActsKeep ==
  ASSUME IInv, Act
  PROVE  IInv'
<1>1. CASE \E id \in Ids, t \in Entities : ResolveThread(id, t)
  <2>1. PICK id \in Ids, t \in Entities : ResolveThread(id, t)
    BY <1>1
  <2>2. id \in DOMAIN envelopes /\ \E shown, by :
          envelopes' = [envelopes EXCEPT ![id].threads = shown, ![id].authors = by]
    BY <2>1 DEF ResolveThread, PersistThread, StillHolds
  <2>3. UNCHANGED <<reviews, marks, jobs>>
    BY <2>1 DEF ResolveThread
  <2> QED BY <2>2, <2>3, EnvelopeChanged, EnvelopesWritten DEF IInv, MarksKnown
<1>2. CASE \E id \in Ids : DiscardDraft(id) \/ \E texts \in SUBSET Texts : SaveDraft(id, texts)
  BY <1>2, EnvelopesKept DEF SaveDraft, DiscardDraft, IInv, MarksKnown
<1>3. CASE \E id \in Ids : DeleteLocalReview(id)
  BY <1>3, DeleteKeeps
<1> QED BY <1>1, <1>2, <1>3 DEF Act

LEMMA NextKeeps == IInv /\ [Next]_vars => IInv'
<1> SUFFICES ASSUME IInv, [Next]_vars PROVE IInv'
  OBVIOUS
<1>1. CASE \E p \in Pairs : CreateLocalReview(p)
  BY <1>1, CreateKeeps
<1>2. CASE \E q \in Requests : Begin(q)
  BY <1>2, StartsKeep
<1>3. CASE \E q \in Requests : ServeListing(q) \/ RejectListing(q)
  BY <1>3, MovesKeep
<1>4. CASE \E q \in Requests : Advance(q)
  BY <1>4, MovesKeep, MarkKeeps, SyncsKeep, WritesKeep DEF Advance
<1>5. CASE Act
  BY <1>5, ActsKeep
<1>6. CASE Restart
  BY <1>6 DEF Restart, tables, EmptyTable, IInv, MarksKnown, RowsKnown, EnvelopesKnown, Fits,
              JobsKnown, Issued
<1>7. CASE \E p \in Pairs, n \in Pulls : OpenPull(p, n) \/ ClosePull(p, n)
  BY <1>7, EnvelopesKept DEF OpenPull, ClosePull, tables, IInv, MarksKnown
<1>8. CASE UNCHANGED vars
  BY <1>8, EnvelopesKept DEF vars, tables, IInv, MarksKnown
<1> QED BY <1>1, <1>2, <1>3, <1>4, <1>5, <1>6, <1>7, <1>8 DEF Next

(* What the theorems below rest on: ids are never reissued, and everything *)
(* that names a review names its pair.                                     *)
THEOREM IdsAreNotReissued == Spec => []IInv
BY InitKnown, NextKeeps, PTL DEF Spec

(* A review never shows the snapshot of another: however late a sync       *)
(* lands (performSync, after its awaits), the envelope under a review's id *)
(* is of that review's branch pair, deletes and recreations included.      *)
THEOREM SnapshotsBelong == Spec => []EnvelopeBelongs
<1>1. IInv => EnvelopeBelongs
  BY DEF IInv, EnvelopesKnown, Fits, EnvelopeBelongs
<1> QED BY <1>1, IdsAreNotReissued, PTL

(* The pull request a review was archived under is written once: a second  *)
(* check that raced the first does not overwrite it, and an id whose row   *)
(* was deleted does not come back live.                                    *)
THEOREM ArchiveNumberIsKept == Spec => ArchiveNumberStays
<1> DEFINE Stays == \A id \in DOMAIN reviews \cap DOMAIN reviews' :
                      Archived(id) => reviews'[id].archived = reviews[id].archived
<1>1. ASSUME IInv, [Next]_vars PROVE Stays
  <2>1. CASE reviews' = reviews
    BY <2>1
  <2>2. CASE \E p \in Pairs : CreateLocalReview(p)
    <3>1. \A id \in DOMAIN reviews : id # marks.review + 1
      BY <1>1 DEF IInv, MarksKnown, RowsKnown, Issued
    <3> QED BY <2>2, <3>1 DEF CreateLocalReview, Upsert
  <2>3. CASE \E q \in Requests : MarkArchived(q)
    BY <2>3 DEF MarkArchived, Archived
  <2>4. CASE \E id \in Ids : DeleteLocalReview(id)
    BY <2>4 DEF DeleteLocalReview, Without, Restrict
  <2>5. \/ reviews' = reviews
        \/ \E p \in Pairs : CreateLocalReview(p)
        \/ \E q \in Requests : MarkArchived(q)
        \/ \E id \in Ids : DeleteLocalReview(id)
    <3>1. \A q : Begin(q) => reviews' = reviews
      BY DEF Begin, StartSync, StartSubmit, StartReply, tables
    <3>2. \A q : ServeListing(q) \/ RejectListing(q) => reviews' = reviews
      BY DEF ServeListing, RejectListing, tables
    <3>3. \A q : Advance(q) => MarkArchived(q) \/ reviews' = reviews
      BY DEF Advance, Deadline, EnterSync, LandSync, FailSync, FinishSubmit, BreakSubmit,
             FinishReply, BreakReply, RefuseWrite, tables
    <3>4. Act => reviews' = reviews \/ \E id \in Ids : DeleteLocalReview(id)
      BY DEF Act, ResolveThread, SaveDraft, DiscardDraft
    <3>5. Restart \/ (\E p \in Pairs, n \in Pulls : OpenPull(p, n) \/ ClosePull(p, n))
            \/ UNCHANGED vars => reviews' = reviews
      BY DEF Restart, OpenPull, ClosePull, vars, tables
    <3> QED BY <1>1, <3>1, <3>2, <3>3, <3>4, <3>5 DEF Next
  <2> QED BY <2>1, <2>2, <2>3, <2>4, <2>5
<1>2. IInv /\ [Next]_vars => [Stays]_vars
  BY <1>1
<1> QED BY <1>2, IdsAreNotReissued, PTL DEF Spec, ArchiveNumberStays

----------------------------------------------------------------------------

(* The rows of a live review hold all its snapshot shows.  A submit writes *)
(* under ids past the mark, so it never replaces a thread; a reply writes  *)
(* over the row of a thread, but what it writes is the snapshot's copy;    *)
(* and a request that carries a snapshot serves an archived review.        *)
MarkCounts == marks.entity \in Nat

DraftsEnd == \A id \in DOMAIN drafts : IsFiniteSet(drafts[id])

Known(rows, mark) ==
  /\ DOMAIN rows \subseteq 1..mark
  /\ \A t \in DOMAIN rows : "comments" \in DOMAIN rows[t]

ThreadsKnown == \A id \in DOMAIN threads : Known(threads[id], marks.entity)

ShownKnown == \A id \in DOMAIN envelopes : Known(envelopes[id].threads, marks.entity)

JobCarries(job) ==
  /\ IsFiniteSet(job.input)
  /\ job.stored # NoEnvelope =>
       /\ Known(job.stored.threads, marks.entity)
       /\ job.review \in DOMAIN reviews => Archived(job.review)

JobsCarry == \A q \in DOMAIN jobs : JobCarries(jobs[q])

Bounded == MarkCounts /\ DraftsEnd /\ ThreadsKnown /\ ShownKnown /\ JobsCarry

DInv == IInv /\ Bounded /\ ShownIsOnDisk

(* Rows and snapshots stay: the invariant asks only for mark, drafts, jobs.*)
LEMMA RowsStay ==
  ASSUME DInv, UNCHANGED <<reviews, threads, envelopes, marks>>, DraftsEnd',
         JobsCarry'
  PROVE  Bounded' /\ ShownIsOnDisk'
BY DEF DInv, Bounded, MarkCounts, ThreadsKnown, ShownKnown, Known, ShownIsOnDisk,
       Archived, RowsOf

(* The mark only rises, and what it allowed it goes on allowing.           *)
LEMMA KnownStays ==
  ASSUME NEW m \in Nat, NEW n \in Nat, m <= n, NEW rows, Known(rows, m)
  PROVE  Known(rows, n)
BY DEF Known

(* Jobs that remain carry what they carried.                               *)
LEMMA JobsStay ==
  ASSUME DInv, DOMAIN jobs' \subseteq DOMAIN jobs, \A r \in DOMAIN jobs' : jobs'[r] = jobs[r],
         marks'.entity \in Nat, marks.entity <= marks'.entity, reviews' = reviews
  PROVE  JobsCarry'
BY KnownStays DEF DInv, Bounded, MarkCounts, JobsCarry, JobCarries, Archived

LEMMA InitOnDisk == Init => Bounded /\ ShownIsOnDisk
BY DEF Init, Bounded, MarkCounts, DraftsEnd, ThreadsKnown, ShownKnown, JobsCarry,
       ShownIsOnDisk, EmptyTable

LEMMA CreateOnDisk ==
  ASSUME DInv, NEW p, CreateLocalReview(p)
  PROVE  Bounded' /\ ShownIsOnDisk'
<1>1. /\ DOMAIN reviews' = DOMAIN reviews \cup {marks.review + 1}
      /\ \A id \in Issued : id # marks.review + 1
      /\ \A id \in DOMAIN reviews : id \in Issued /\ reviews'[id] = reviews[id]
      /\ marks'.entity = marks.entity
  BY DEF DInv, IInv, MarksKnown, RowsKnown, CreateLocalReview, Issued, Upsert
<1>2. UNCHANGED <<threads, envelopes, drafts, jobs>>
  BY DEF CreateLocalReview
<1>3. ShownIsOnDisk'
  BY <1>1, <1>2 DEF DInv, IInv, EnvelopesKnown, ShownIsOnDisk, Archived, RowsOf
<1>4. JobsCarry'
  BY <1>1, <1>2 DEF DInv, Bounded, JobsCarry, JobCarries, Known, Archived, IInv, JobsKnown,
                    JobKnown
<1> QED BY <1>1, <1>2, <1>3, <1>4
        DEF DInv, Bounded, MarkCounts, DraftsEnd, ThreadsKnown, ShownKnown, Known

LEMMA DeleteOnDisk ==
  ASSUME DInv, NEW id, DeleteLocalReview(id)
  PROVE  Bounded' /\ ShownIsOnDisk'
<1>1. /\ DOMAIN reviews' = DOMAIN reviews \ {id} /\ DOMAIN envelopes' = DOMAIN envelopes \ {id}
      /\ DOMAIN threads' = DOMAIN threads \ {id} /\ DOMAIN drafts' = DOMAIN drafts \ {id}
      /\ \A x \in DOMAIN reviews' : reviews'[x] = reviews[x]
      /\ \A x \in DOMAIN envelopes' : envelopes'[x] = envelopes[x]
      /\ \A x \in DOMAIN threads' : threads'[x] = threads[x]
      /\ \A x \in DOMAIN drafts' : drafts'[x] = drafts[x]
      /\ marks' = marks /\ jobs' = jobs
  BY DEF DeleteLocalReview, Without, Restrict
<1>2. ShownIsOnDisk'
  <2>1. \A x \in DOMAIN reviews' : x \in DOMAIN reviews /\ reviews'[x] = reviews[x] /\ x # id
    BY <1>1
  <2>2. \A x : x # id => RowsOf(threads', x) = RowsOf(threads, x)
                          /\ (x \in DOMAIN threads => threads'[x] = threads[x])
    BY <1>1 DEF RowsOf
  <2>3. SUFFICES ASSUME NEW x \in DOMAIN reviews' \cap DOMAIN envelopes', ~ Archived(x)',
                        NEW t \in DOMAIN envelopes'[x].threads
                 PROVE  /\ t \in DOMAIN RowsOf(threads', x)
                        /\ DOMAIN envelopes'[x].threads[t].comments
                             \subseteq DOMAIN threads'[x][t].comments
    BY DEF ShownIsOnDisk
  <2>4. /\ t \in DOMAIN RowsOf(threads, x)
        /\ DOMAIN envelopes[x].threads[t].comments \subseteq DOMAIN threads[x][t].comments
    BY <1>1, <2>1, <2>3 DEF DInv, ShownIsOnDisk, Archived
  <2>5. x \in DOMAIN threads
    BY <2>4 DEF RowsOf, EmptyTable
  <2> QED BY <1>1, <2>1, <2>2, <2>4, <2>5
<1>3. JobsCarry'
  BY <1>1 DEF DInv, Bounded, JobsCarry, JobCarries, Known, Archived
<1> QED BY <1>1, <1>2, <1>3
        DEF DInv, Bounded, MarkCounts, DraftsEnd, ThreadsKnown, ShownKnown, Known

LEMMA MovesOnDisk ==
  ASSUME DInv, NEW q, ServeListing(q) \/ RejectListing(q) \/ Deadline(q) \/ EnterSync(q)
  PROVE  Bounded' /\ ShownIsOnDisk'
<1>1. q \in DOMAIN jobs /\ DOMAIN jobs[q] = JobFields /\ JobCarries(jobs[q])
  BY DEF DInv, Bounded, JobsCarry, IInv, JobsKnown, JobKnown, ServeListing, RejectListing,
         Deadline, EnterSync, At
<1>2. UNCHANGED <<reviews, marks, envelopes, threads, drafts>>
  BY DEF ServeListing, RejectListing, Deadline, EnterSync, tables
<1>3. ASSUME NEW job, JobCarries(job), jobs' = [jobs EXCEPT ![q] = job]
      PROVE  JobsCarry'
  BY <1>1, <1>2, <1>3 DEF DInv, Bounded, JobsCarry, JobCarries, Known, Archived
<1>4. JobsCarry'
  <2>1. CASE ServeListing(q)
    <3>1. /\ JobCarries([jobs[q] EXCEPT !.step = "enter"])
          /\ \A n : JobCarries([jobs[q] EXCEPT !.found = n, !.step = "listed"])
      BY <1>1 DEF JobCarries, JobFields
    <3> QED BY <1>3, <2>1, <3>1, ListingMoves
  <2>2. CASE RejectListing(q) \/ Deadline(q)
    <3>1. JobCarries([jobs[q] EXCEPT !.step = "enter"])
      BY <1>1 DEF JobCarries, JobFields
    <3> QED BY <1>3, <2>2, <3>1 DEF RejectListing, Deadline
  <2>3. CASE EnterSync(q)
    <3> DEFINE id == jobs[q].review
               plain == [jobs[q] EXCEPT !.row = reviews[id], !.step = "git"]
               taking == [jobs[q] EXCEPT !.row = reviews[id], !.step = "git",
                                         !.stored = envelopes[id]]
    <3>1. JobCarries(plain)
      BY <1>1 DEF JobCarries, JobFields
    <3>2. Archived(id) /\ id \in DOMAIN envelopes => JobCarries(taking)
      BY <1>1 DEF JobCarries, JobFields, DInv, Bounded, ShownKnown
    <3>3. \/ Finish(q)
          \/ jobs' = [jobs EXCEPT ![q] = plain]
          \/ Archived(id) /\ id \in DOMAIN envelopes /\ jobs' = [jobs EXCEPT ![q] = taking]
      BY <2>3 DEF EnterSync
    <3>4. CASE Finish(q)
      BY <1>2, <3>4, JobsLeave, JobsStay DEF DInv, Bounded, MarkCounts
    <3> QED BY <1>3, <3>1, <3>2, <3>3, <3>4
  <2> QED BY <2>1, <2>2, <2>3
<1> QED BY <1>2, <1>4, RowsStay DEF DInv, Bounded, DraftsEnd

LEMMA StartsOnDisk ==
  ASSUME DInv, NEW q, Begin(q)
  PROVE  Bounded' /\ ShownIsOnDisk'
<1>1. UNCHANGED <<reviews, marks, envelopes, threads, drafts>>
  BY DEF Begin, StartSync, StartSubmit, StartReply, tables
<1>2. ASSUME NEW job, JobCarries(job), jobs' = Upsert(jobs, q, job)
      PROVE  JobsCarry'
  BY <1>1, <1>2 DEF DInv, Bounded, JobsCarry, JobCarries, Known, Archived, Upsert
<1>3. IsFiniteSet({}) /\ (\A text : IsFiniteSet({text})) /\ \A id : IsFiniteSet(Draft(id))
  BY FS_EmptySet, FS_Singleton DEF Draft, SetOf, DInv, Bounded, DraftsEnd
<1>4. PICK id \in Ids : \/ StartSync(q, id) \/ StartSubmit(q, id)
                        \/ \E t \in Entities, text \in Texts : StartReply(q, id, t, text)
  BY DEF Begin
<1>5. CASE StartSync(q, id)
  <2> DEFINE job == [NewJob(id, IF Archived(id) THEN "enter" ELSE "listing")
                       EXCEPT !.row = reviews[id]]
  <2>1. JobCarries(job)
    BY <1>3 DEF JobCarries, NewJob
  <2>2. jobs' = Upsert(jobs, q, job)
    BY <1>5 DEF StartSync, Start
  <2> QED BY <1>1, <1>2, <2>1, <2>2, RowsStay DEF DInv, Bounded, DraftsEnd
<1>6. CASE StartSubmit(q, id)
  <2> DEFINE job == [NewJob(id, "submitting") EXCEPT !.input = Draft(id)]
  <2>1. JobCarries(job)
    BY <1>3 DEF JobCarries, NewJob
  <2>2. jobs' = Upsert(jobs, q, job)
    BY <1>6 DEF StartSubmit, Start
  <2> QED BY <1>1, <1>2, <2>1, <2>2, RowsStay DEF DInv, Bounded, DraftsEnd
<1>7. CASE \E t \in Entities, text \in Texts : StartReply(q, id, t, text)
  <2>1. \A t, text : JobCarries([NewJob(id, "replying") EXCEPT !.thread = t, !.input = {text}])
    BY <1>3 DEF JobCarries, NewJob
  <2>2. JobsCarry'
    BY <1>2, <1>7, <2>1 DEF StartReply, Start
  <2> QED BY <1>1, <2>2, RowsStay DEF DInv, Bounded, DraftsEnd
<1> QED BY <1>4, <1>5, <1>6, <1>7

LEMMA MarkOnDisk ==
  ASSUME DInv, NEW q, MarkArchived(q)
  PROVE  Bounded' /\ ShownIsOnDisk'
<1> DEFINE job == [jobs[q] EXCEPT !.found = None, !.step = "enter"]
<1>1. UNCHANGED <<marks, envelopes, threads, drafts>>
  BY DEF MarkArchived
<1>2. /\ DOMAIN reviews' = DOMAIN reviews
      /\ \A id \in DOMAIN reviews : Archived(id) => reviews'[id].archived = reviews[id].archived
  BY DEF MarkArchived, Archived
<1>3. q \in DOMAIN jobs /\ DOMAIN jobs[q] = JobFields /\ JobCarries(jobs[q])
  BY DEF DInv, Bounded, JobsCarry, IInv, JobsKnown, JobKnown, MarkArchived, At
<1>4. JobCarries(job) /\ jobs' = [jobs EXCEPT ![q] = job]
  BY <1>3 DEF JobCarries, JobFields, MarkArchived
<1>5. JobsCarry'
  BY <1>1, <1>2, <1>3, <1>4 DEF DInv, Bounded, JobsCarry, JobCarries, Known, Archived
<1>6. ShownIsOnDisk'
  BY <1>1, <1>2 DEF DInv, ShownIsOnDisk, Archived, RowsOf
<1> QED BY <1>1, <1>5, <1>6
        DEF DInv, Bounded, MarkCounts, DraftsEnd, ThreadsKnown, ShownKnown, Known

(* Every thread of the one table is in the other, with all its comments.   *)
OnDisk(shown, rows) ==
  \A t \in DOMAIN shown :
    /\ t \in DOMAIN rows
    /\ DOMAIN shown[t].comments \subseteq DOMAIN rows[t].comments

LiveOnDisk ==
  \A id \in DOMAIN reviews \cap DOMAIN envelopes :
    ~ Archived(id) => OnDisk(envelopes[id].threads, RowsOf(threads, id))

LEMMA ShownMeans == (ShownIsOnDisk <=> LiveOnDisk) /\ (ShownIsOnDisk' <=> LiveOnDisk')
<1>1. ShownIsOnDisk <=> LiveOnDisk
  BY DEF ShownIsOnDisk, LiveOnDisk, OnDisk, RowsOf, EmptyTable
<1>2. ShownIsOnDisk' <=> LiveOnDisk'
  BY DEF ShownIsOnDisk, LiveOnDisk, OnDisk, RowsOf, EmptyTable, Archived
<1> QED BY <1>1, <1>2

LEMMA RowsPut ==
  ASSUME NEW id, NEW rows, threads' = Upsert(threads, id, rows)
  PROVE  /\ RowsOf(threads', id) = rows
         /\ \A x : x # id => RowsOf(threads', x) = RowsOf(threads, x)
         /\ DOMAIN threads' = DOMAIN threads \cup {id}
         /\ \A x \in DOMAIN threads : x # id => threads'[x] = threads[x]
         /\ threads'[id] = rows
BY DEF Upsert, RowsOf

LEMMA RowsAreKnown ==
  ASSUME DInv, NEW id
  PROVE  Known(RowsOf(threads, id), marks.entity)
BY DEF DInv, Bounded, ThreadsKnown, Known, RowsOf, EmptyTable

(* What a live review shows is in its rows.                                *)
LEMMA NowOnDisk ==
  ASSUME DInv, NEW id, id \in DOMAIN reviews, id \in DOMAIN envelopes, ~ Archived(id)
  PROVE  OnDisk(envelopes[id].threads, RowsOf(threads, id))
BY ShownMeans DEF DInv, LiveOnDisk

LEMMA SyncsOnDisk ==
  ASSUME DInv, NEW q, LandSync(q) \/ FailSync(q)
  PROVE  Bounded' /\ ShownIsOnDisk'
<1> DEFINE id == jobs[q].review
<1>1. /\ q \in DOMAIN jobs /\ JobKnown(jobs[q]) /\ JobCarries(jobs[q])
      /\ Finish(q) /\ UNCHANGED <<reviews, marks, threads, drafts>>
  BY DEF DInv, Bounded, JobsCarry, IInv, JobsKnown, LandSync, FailSync, At
<1>2. JobsCarry'
  BY <1>1, JobsLeave, JobsStay DEF DInv, Bounded, MarkCounts
<1>3. CASE LandSync(q)
  <2>1. PICK envelope : /\ envelope.threads = RowsOf(threads, id)
                        /\ envelopes' = Upsert(envelopes, id, envelope)
    BY <1>3 DEF LandSync
  <2>2. ShownIsOnDisk'
    <3>1. OnDisk(RowsOf(threads, id), RowsOf(threads, id))
      BY DEF OnDisk
    <3>2. /\ envelopes'[id] = envelope
          /\ \A x : x # id => /\ x \in DOMAIN envelopes' <=> x \in DOMAIN envelopes
                              /\ x \in DOMAIN envelopes => envelopes'[x] = envelopes[x]
      BY <2>1 DEF Upsert
    <3> QED BY <1>1, <2>1, <3>1, <3>2, ShownMeans DEF DInv, LiveOnDisk, Archived
  <2>3. ShownKnown'
    BY <1>1, <2>1, RowsAreKnown DEF DInv, Bounded, ShownKnown, Known, Upsert
  <2> QED BY <1>1, <1>2, <2>2, <2>3
          DEF DInv, Bounded, MarkCounts, DraftsEnd, ThreadsKnown, Known
<1>4. CASE FailSync(q) /\ jobs[q].stored = NoEnvelope
  BY <1>1, <1>2, <1>4, RowsStay DEF FailSync, DInv, Bounded, DraftsEnd
<1>5. CASE FailSync(q) /\ jobs[q].stored # NoEnvelope
  <2> DEFINE closed == [jobs[q].stored EXCEPT !.open = FALSE]
  <2>1. envelopes' = Upsert(envelopes, id, closed)
    BY <1>5 DEF FailSync
  <2>2. closed.threads = jobs[q].stored.threads
    BY <1>1, <1>5 DEF JobKnown, Fits, EnvelopeFields
  <2>3. id \in DOMAIN reviews => Archived(id)
    BY <1>1, <1>5 DEF JobCarries
  <2>4. ShownIsOnDisk'
    BY <1>1, <2>1, <2>3 DEF DInv, ShownIsOnDisk, Archived, RowsOf, Upsert
  <2>5. ShownKnown'
    BY <1>1, <1>5, <2>1, <2>2 DEF DInv, Bounded, ShownKnown, Known, Upsert, JobCarries
  <2> QED BY <1>1, <1>2, <2>4, <2>5
          DEF DInv, Bounded, MarkCounts, DraftsEnd, ThreadsKnown, Known
<1> QED BY <1>3, <1>4, <1>5

(* A write to one review: new rows, and a snapshot that either stays or    *)
(* takes new threads, within what the mark allows.                         *)
LEMMA WriteOnDisk ==
  ASSUME DInv, reviews' = reviews, NEW id \in DOMAIN envelopes, NEW rows, NEW shown,
         threads' = Upsert(threads, id, rows),
         \/ envelopes' = envelopes /\ shown = envelopes[id].threads
         \/ \E by : envelopes' = [envelopes EXCEPT ![id].threads = shown, ![id].authors = by],
         marks'.entity \in Nat, marks.entity <= marks'.entity,
         Known(rows, marks'.entity), Known(shown, marks'.entity),
         OnDisk(envelopes[id].threads, RowsOf(threads, id)) => OnDisk(shown, rows),
         DOMAIN jobs' \subseteq DOMAIN jobs, \A r \in DOMAIN jobs' : jobs'[r] = jobs[r],
         DraftsEnd'
  PROVE  Bounded' /\ ShownIsOnDisk'
<1>1. \A table : Known(table, marks.entity) => Known(table, marks'.entity)
  BY KnownStays DEF DInv, Bounded, MarkCounts
<1>2. /\ DOMAIN envelopes' = DOMAIN envelopes /\ envelopes'[id].threads = shown
      /\ \A x \in DOMAIN envelopes : x # id => envelopes'[x] = envelopes[x]
  BY DEF DInv, IInv, EnvelopesKnown, Fits, EnvelopeFields
<1>3. LiveOnDisk'
  <2> SUFFICES ASSUME NEW x \in DOMAIN reviews \cap DOMAIN envelopes, ~ Archived(x)
               PROVE  OnDisk(envelopes'[x].threads, RowsOf(threads', x))
    BY <1>2 DEF LiveOnDisk, Archived
  <2>1. OnDisk(envelopes[x].threads, RowsOf(threads, x))
    BY NowOnDisk
  <2>2. RowsOf(threads', id) = rows /\ (x # id => RowsOf(threads', x) = RowsOf(threads, x))
    BY RowsPut
  <2>3. CASE x = id
    BY <1>2, <2>1, <2>2, <2>3
  <2>4. CASE x # id
    BY <1>2, <2>1, <2>2, <2>4
  <2> QED BY <2>3, <2>4
<1>4. ShownIsOnDisk'
  BY <1>3, ShownMeans
<1>5. JobsCarry'
  BY JobsStay
<1>6. ThreadsKnown'
  <2>1. /\ DOMAIN threads' = DOMAIN threads \cup {id} /\ threads'[id] = rows
        /\ \A x \in DOMAIN threads : x # id => threads'[x] = threads[x]
    BY RowsPut
  <2> QED BY <1>1, <2>1 DEF DInv, Bounded, ThreadsKnown
<1>7. ShownKnown'
  BY <1>1, <1>2 DEF DInv, Bounded, ShownKnown
<1> QED BY <1>4, <1>5, <1>6, <1>7 DEF Bounded, MarkCounts

(* A thread put in place in both tables, or with a comment more in rows.   *)
LEMMA ThreadPut ==
  ASSUME NEW shown, NEW rows, NEW t \in DOMAIN shown, NEW thread, OnDisk(shown, rows)
  PROVE  /\ OnDisk([shown EXCEPT ![t] = thread], Upsert(rows, t, thread))
         /\ DOMAIN shown[t].comments \subseteq DOMAIN thread.comments
              => OnDisk(shown, Upsert(rows, t, thread))
BY DEF OnDisk, Upsert

(* New threads laid over both tables, or over the rows alone where they    *)
(* replace none.                                                           *)
LEMMA ThreadsOpened ==
  ASSUME NEW shown, NEW rows, NEW new, OnDisk(shown, rows)
  PROVE  /\ OnDisk(Joined(shown, new), Joined(rows, new))
         /\ DOMAIN new \cap DOMAIN rows = {} => OnDisk(shown, Joined(rows, new))
BY DEF OnDisk, Joined

LEMMA SubmitMints ==
  ASSUME DInv, NEW input, IsFiniteSet(input), MintMany(1 + Cardinality(input))
  PROVE  /\ marks'.entity \in Nat /\ marks.entity <= marks'.entity
         /\ SubmitIds(input) \subseteq 1..marks'.entity
         /\ SubmitIds(input) \cap 1..marks.entity = {}
<1>1. Cardinality(input) \in Nat
  BY FS_CardinalityType
<1>2. marks.entity \in Nat /\ marks'.entity = marks.entity + (1 + Cardinality(input))
  BY DEF DInv, IInv, MarksKnown, Bounded, MarkCounts, MintMany
<1> QED BY <1>1, <1>2 DEF SubmitIds

LEMMA SubmitsOnDisk ==
  ASSUME DInv, NEW q, FinishSubmit(q) \/ BreakSubmit(q)
  PROVE  Bounded' /\ ShownIsOnDisk'
<1> DEFINE id == jobs[q].review
           input == jobs[q].input
           ids == SubmitIds(input)
           E == envelopes[id].threads
           R == RowsOf(threads, id)
<1>1. /\ q \in DOMAIN jobs /\ IsFiniteSet(input) /\ id \in DOMAIN envelopes
      /\ Finish(q) /\ reviews' = reviews /\ MintMany(1 + Cardinality(input))
  BY DEF DInv, Bounded, JobsCarry, JobCarries, FinishSubmit, BreakSubmit, At
<1>2. /\ marks'.entity \in Nat /\ marks.entity <= marks'.entity
      /\ ids \subseteq 1..marks'.entity /\ ids \cap 1..marks.entity = {}
  BY <1>1, SubmitMints
<1>3. DraftsEnd'
  BY DEF FinishSubmit, BreakSubmit, Without, Restrict, DInv, Bounded, DraftsEnd
<1>4. /\ Known(E, marks.entity) /\ Known(R, marks.entity)
      /\ Known(E, marks'.entity) /\ Known(R, marks'.entity)
  BY <1>1, <1>2, RowsAreKnown, KnownStays DEF DInv, Bounded, MarkCounts, ShownKnown
<1>5. DOMAIN jobs' \subseteq DOMAIN jobs /\ \A r \in DOMAIN jobs' : jobs'[r] = jobs[r]
  BY <1>1, JobsLeave
<1>6. \E rows, shown :
        /\ threads' = Upsert(threads, id, rows)
        /\ \/ envelopes' = envelopes /\ shown = E
           \/ \E by : envelopes' = [envelopes EXCEPT ![id].threads = shown, ![id].authors = by]
        /\ Known(rows, marks'.entity) /\ Known(shown, marks'.entity)
        /\ OnDisk(E, R) => OnDisk(shown, rows)
  <2>1. ASSUME NEW text, DOMAIN text \subseteq ids
        PROVE  /\ DOMAIN Opened(text) = DOMAIN text
               /\ Known(Joined(R, Opened(text)), marks'.entity)
               /\ Known(Joined(E, Opened(text)), marks'.entity)
    <3>1. DOMAIN Opened(text) = DOMAIN text /\ Known(Opened(text), marks'.entity)
      BY <1>2, <2>1 DEF Opened, Known
    <3> QED BY <1>4, <3>1 DEF Joined, Known
  <2>2. CASE FinishSubmit(q)
    <3>1. PICK text \in Bijection(ids, input) :
            /\ threads' = Upsert(threads, id, Joined(R, Opened(text)))
            /\ envelopes' = [envelopes EXCEPT ![id].threads = Joined(@, Opened(text)),
                                              ![id].authors = @ \cup ids]
      BY <2>2 DEF FinishSubmit
    <3>2. DOMAIN text = ids
      BY DEF Bijection, Injection
    <3>3. \E by : envelopes' = [envelopes EXCEPT ![id].threads = Joined(E, Opened(text)),
                                                  ![id].authors = by]
      BY <1>1, <3>1
    <3>4. OnDisk(E, R) => OnDisk(Joined(E, Opened(text)), Joined(R, Opened(text)))
      BY ThreadsOpened
    <3> QED BY <2>1, <3>1, <3>2, <3>3, <3>4
  <2>3. CASE BreakSubmit(q)
    <3>1. PICK text \in Bijection(ids, input), last \in ids, reached \in 0..2 :
            LET put == Restrict(text, {c \in ids : reached > 0 \/ c < last}) IN
            /\ threads' = Upsert(threads, id, Joined(R, Opened(put)))
            /\ envelopes' = IF reached < 2 THEN envelopes
                ELSE [envelopes EXCEPT ![id].threads = Joined(@, Opened(text)),
                                       ![id].authors = @ \cup ids]
      BY <2>3 DEF BreakSubmit
    <3> DEFINE put == Restrict(text, {c \in ids : reached > 0 \/ c < last})
    <3>2. DOMAIN text = ids /\ text = [c \in ids |-> text[c]] /\ DOMAIN put \subseteq ids
      BY DEF Bijection, Injection, Restrict
    <3>3. CASE reached < 2
      <4>1. DOMAIN Opened(put) \cap DOMAIN R = {}
        BY <1>2, <1>4, <2>1, <3>2 DEF Known
      <4>2. OnDisk(E, R) => OnDisk(E, Joined(R, Opened(put)))
        BY <4>1, ThreadsOpened
      <4> QED BY <1>4, <2>1, <3>1, <3>2, <3>3, <4>2
    <3>4. CASE ~ (reached < 2)
      <4>1. put = text
        BY <3>2, <3>4 DEF Restrict
      <4>2. \E by : envelopes' = [envelopes EXCEPT ![id].threads = Joined(E, Opened(text)),
                                                    ![id].authors = by]
        BY <1>1, <3>1, <3>4
      <4>3. OnDisk(E, R) => OnDisk(Joined(E, Opened(text)), Joined(R, Opened(text)))
        BY ThreadsOpened
      <4> QED BY <2>1, <3>1, <3>2, <4>1, <4>2, <4>3
    <3> QED BY <3>3, <3>4
  <2> QED BY <2>2, <2>3
<1>7. PICK rows, shown :
        /\ threads' = Upsert(threads, id, rows)
        /\ \/ envelopes' = envelopes /\ shown = E
           \/ \E by : envelopes' = [envelopes EXCEPT ![id].threads = shown, ![id].authors = by]
        /\ Known(rows, marks'.entity) /\ Known(shown, marks'.entity)
        /\ OnDisk(E, R) => OnDisk(shown, rows)
  BY <1>6
<1> QED BY <1>1, <1>2, <1>3, <1>5, <1>7, WriteOnDisk

LEMMA RepliesOnDisk ==
  ASSUME DInv, NEW q, FinishReply(q) \/ BreakReply(q)
  PROVE  Bounded' /\ ShownIsOnDisk'
<1> DEFINE id == jobs[q].review
           t == jobs[q].thread
           E == envelopes[id].threads
           R == RowsOf(threads, id)
<1>1. /\ id \in DOMAIN envelopes /\ t \in DOMAIN E
      /\ Finish(q) /\ reviews' = reviews /\ drafts' = drafts /\ MintMany(1)
  BY DEF FinishReply, BreakReply, StillHolds
<1>2. marks'.entity \in Nat /\ marks.entity <= marks'.entity
  BY <1>1 DEF DInv, IInv, MarksKnown, Bounded, MarkCounts, MintMany
<1>3. DraftsEnd'
  BY <1>1 DEF DInv, Bounded, DraftsEnd
<1>4. /\ Known(E, marks.entity) /\ Known(R, marks.entity)
      /\ Known(E, marks'.entity) /\ Known(R, marks'.entity)
  BY <1>1, <1>2, RowsAreKnown, KnownStays DEF DInv, Bounded, MarkCounts, ShownKnown
<1>5. DOMAIN jobs' \subseteq DOMAIN jobs /\ \A r \in DOMAIN jobs' : jobs'[r] = jobs[r]
  BY <1>1, JobsLeave
<1>6. ASSUME NEW thread, "comments" \in DOMAIN thread
      PROVE  /\ Known(Upsert(R, t, thread), marks'.entity)
             /\ Known([E EXCEPT ![t] = thread], marks'.entity)
  BY <1>1, <1>4, <1>6 DEF Upsert, Known
<1>7. CASE FinishReply(q)
  <2>1. PICK thread :
          /\ "comments" \in DOMAIN thread
          /\ threads' = Upsert(threads, id, Upsert(R, t, thread))
          /\ envelopes' = [envelopes EXCEPT ![id].threads[t] = thread,
                                            ![id].authors = @ \cup {marks.entity + 1}]
    BY <1>1, <1>4, <1>7 DEF FinishReply, PersistThread, Known
  <2>2. \E by : envelopes' = [envelopes EXCEPT ![id].threads = [E EXCEPT ![t] = thread],
                                               ![id].authors = by]
    BY <1>1, <2>1
  <2>3. OnDisk(E, R) => OnDisk([E EXCEPT ![t] = thread], Upsert(R, t, thread))
    BY <1>1, ThreadPut
  <2> QED BY <1>1, <1>2, <1>3, <1>5, <1>6, <2>1, <2>2, <2>3, WriteOnDisk
<1>8. CASE BreakReply(q)
  <2>1. PICK text : /\ envelopes' = envelopes
                    /\ threads' = Upsert(threads, id, Upsert(R, t,
                         [E[t] EXCEPT !.comments = Upsert(@, marks.entity + 1, text)]))
    BY <1>8 DEF BreakReply
  <2> DEFINE thread == [E[t] EXCEPT !.comments = Upsert(@, marks.entity + 1, text)]
  <2>2. "comments" \in DOMAIN thread /\ DOMAIN E[t].comments \subseteq DOMAIN thread.comments
    BY <1>1, <1>4 DEF Known, Upsert
  <2> HIDE DEF thread
  <2>3. OnDisk(E, R) => OnDisk(E, Upsert(R, t, thread))
    BY <1>1, <2>2, ThreadPut
  <2>4. threads' = Upsert(threads, id, Upsert(R, t, thread))
    BY <2>1 DEF thread
  <2>5. Known(Upsert(R, t, thread), marks'.entity)
    BY <1>6, <2>2
  <2> QED BY <1>1, <1>2, <1>3, <1>4, <1>5, <2>1, <2>3, <2>4, <2>5, WriteOnDisk
<1> QED BY <1>7, <1>8

LEMMA ActsOnDisk ==
  ASSUME LocalAssumption, DInv, Act
  PROVE  Bounded' /\ ShownIsOnDisk'
<1>1. CASE \E id \in Ids, t \in Entities : ResolveThread(id, t)
  <2>1. PICK id \in Ids, t \in Entities : ResolveThread(id, t)
    BY <1>1
  <2> DEFINE E == envelopes[id].threads
             R == RowsOf(threads, id)
  <2>2. /\ id \in DOMAIN envelopes /\ t \in DOMAIN E
        /\ UNCHANGED <<reviews, marks, drafts, jobs>>
    BY <2>1 DEF ResolveThread, StillHolds
  <2>3. PICK thread :
          /\ "comments" \in DOMAIN thread
          /\ threads' = Upsert(threads, id, Upsert(R, t, thread))
          /\ envelopes' = [envelopes EXCEPT ![id].threads[t] = thread,
                                            ![id].authors = @ \cup {}]
    BY <2>1, <2>2 DEF ResolveThread, PersistThread, DInv, Bounded, ShownKnown, Known
  <2>4. \E by : envelopes' = [envelopes EXCEPT ![id].threads = [E EXCEPT ![t] = thread],
                                               ![id].authors = by]
    BY <2>2, <2>3
  <2>5. OnDisk(E, R) => OnDisk([E EXCEPT ![t] = thread], Upsert(R, t, thread))
    BY <2>2, ThreadPut
  <2>6. /\ Known(Upsert(R, t, thread), marks'.entity)
        /\ Known([E EXCEPT ![t] = thread], marks'.entity)
    BY <2>2, <2>3, RowsAreKnown DEF DInv, Bounded, ShownKnown, Known, Upsert
  <2>7. marks'.entity \in Nat /\ marks.entity <= marks'.entity /\ DraftsEnd'
    BY <2>2 DEF DInv, Bounded, MarkCounts, DraftsEnd
  <2> QED BY <2>2, <2>3, <2>4, <2>5, <2>6, <2>7, WriteOnDisk
<1>2. CASE \E id \in Ids : DiscardDraft(id) \/ \E texts \in SUBSET Texts : SaveDraft(id, texts)
  <2>1. UNCHANGED <<reviews, marks, envelopes, threads, jobs>>
    BY <1>2 DEF DiscardDraft, SaveDraft
  <2>2. DraftsEnd'
    <3>1. \A texts \in SUBSET Texts : IsFiniteSet(texts)
      BY FS_Subset DEF LocalAssumption
    <3> QED BY <1>2, <3>1 DEF DiscardDraft, SaveDraft, Upsert, Without, Restrict, DInv, Bounded,
                              DraftsEnd
  <2>3. JobsCarry'
    BY <2>1, JobsStay DEF DInv, Bounded, MarkCounts
  <2> QED BY <2>1, <2>2, <2>3, RowsStay
<1>3. CASE \E id \in Ids : DeleteLocalReview(id)
  BY <1>3, DeleteOnDisk
<1> QED BY <1>1, <1>2, <1>3 DEF Act

LEMMA NextOnDisk == LocalAssumption /\ DInv /\ [Next]_vars => DInv'
<1> SUFFICES ASSUME LocalAssumption, DInv, [Next]_vars PROVE Bounded' /\ ShownIsOnDisk'
  BY NextKeeps DEF DInv
<1>1. CASE \E p \in Pairs : CreateLocalReview(p)
  BY <1>1, CreateOnDisk
<1>2. CASE \E q \in Requests : Begin(q)
  BY <1>2, StartsOnDisk
<1>3. CASE \E q \in Requests : ServeListing(q) \/ RejectListing(q)
  BY <1>3, MovesOnDisk
<1>4. ASSUME NEW q \in Requests, RefuseWrite(q) PROVE Bounded' /\ ShownIsOnDisk'
  <2>1. Finish(q) /\ UNCHANGED tables
    BY <1>4 DEF RefuseWrite
  <2>2. JobsCarry' /\ DraftsEnd'
    BY <2>1, JobsLeave, JobsStay DEF tables, DInv, Bounded, MarkCounts, DraftsEnd
  <2> QED BY <2>1, <2>2, RowsStay DEF tables
<1>5. CASE \E q \in Requests : Advance(q)
  BY <1>4, <1>5, MovesOnDisk, MarkOnDisk, SyncsOnDisk, SubmitsOnDisk, RepliesOnDisk DEF Advance
<1>6. CASE Act
  BY <1>6, ActsOnDisk
<1>7. CASE Restart \/ (\E p \in Pairs, n \in Pulls : OpenPull(p, n) \/ ClosePull(p, n))
             \/ UNCHANGED vars
  <2>1. UNCHANGED tables /\ (jobs' = jobs \/ jobs' = EmptyTable)
    BY <1>7 DEF Restart, OpenPull, ClosePull, vars
  <2>2. JobsCarry' /\ DraftsEnd'
    BY <2>1, JobsStay DEF tables, DInv, Bounded, MarkCounts, DraftsEnd, EmptyTable
  <2> QED BY <2>1, <2>2, RowsStay DEF tables
<1> QED BY <1>1, <1>2, <1>3, <1>5, <1>6, <1>7 DEF Next

(* What a live review shows is on disk in its own rows, whichever of a     *)
(* write's statements failed (submitLocalReview's five, persistThread's    *)
(* two) and however requests overlap.                                      *)
THEOREM SnapshotsAreOnDisk == Spec => []ShownIsOnDisk
<1>1. Init => DInv
  BY InitKnown, InitOnDisk DEF DInv
<1>2. DInv => ShownIsOnDisk
  BY DEF DInv
<1> QED BY <1>1, <1>2, NextOnDisk, LocalAssumption, PTL DEF Spec

----------------------------------------------------------------------------

(* A comment a client was told is written stays in the snapshot of a live   *)
(* review: a sync rebuilds the snapshot from rows that hold all it showed,  *)
(* a write puts its threads beside what is there, and the only step that    *)
(* brings an old snapshot back, a failed catch-up, is of an archived review.*)
Holds(envelope, c) ==
  /\ \E t \in DOMAIN envelope.threads : c \in DOMAIN envelope.threads[t].comments
  /\ c \in envelope.authors

Keeps(id) == id \in DOMAIN envelopes /\ \A c \in acked[id] : Holds(envelopes[id], c)

LiveKept == \A id \in DOMAIN acked \cap DOMAIN reviews : ~ Archived(id) => Keeps(id)

AckInv == DOMAIN acked \subseteq Issued /\ LiveKept

(* With no pull request there is nothing to archive a review under.        *)
Unarchived ==
  /\ \A id \in DOMAIN reviews : reviews[id].pair \in Pairs /\ ~ Archived(id)
  /\ opens = [p \in Pairs |-> {}]
  /\ \A q \in DOMAIN jobs : /\ jobs[q].step = "listing" => jobs[q].row.pair \in Pairs
                            /\ jobs[q].step # "listed"

(* What a submit in flight sent is all its draft holds: nothing is saved   *)
(* into the draft meanwhile.                                               *)
SentIsDraft ==
  \A q \in DOMAIN jobs :
    jobs[q].step = "submitting" => SetOf(drafts, jobs[q].review) \subseteq jobs[q].input

LEMMA KeptElsewhere ==
  ASSUME AckInv, UNCHANGED <<envelopes, acked>>, marks'.review = marks.review,
         \A id \in DOMAIN reviews' : id \in DOMAIN reviews /\ (Archived(id) => Archived(id)')
  PROVE  AckInv'
BY DEF AckInv, LiveKept, Keeps, Issued

(* One snapshot changes, and still holds all it held.                      *)
LEMMA SnapshotGrows ==
  ASSUME AckInv, reviews' = reviews, marks'.review = marks.review, NEW id \in DOMAIN envelopes,
         DOMAIN envelopes' = DOMAIN envelopes,
         \A x \in DOMAIN envelopes : x # id => envelopes'[x] = envelopes[x],
         \A c : Holds(envelopes[id], c) => Holds(envelopes'[id], c),
         NEW new, \A c \in new : Holds(envelopes'[id], c), id \in Issued,
         \/ acked' = acked
         \/ acked' = Upsert(acked, id, SetOf(acked, id) \cup new)
  PROVE  AckInv'
<1>1. DOMAIN acked' \subseteq Issued'
  BY DEF AckInv, Issued, Upsert
<1>2. ASSUME NEW x \in DOMAIN acked' \cap DOMAIN reviews', ~ Archived(x)'
      PROVE  Keeps(x)'
  <2>1. x \in DOMAIN reviews /\ ~ Archived(x)
    BY <1>2 DEF Archived
  <2>2. x \in DOMAIN acked => Keeps(x)
    BY <2>1 DEF AckInv, LiveKept
  <2>3. CASE x # id
    <3>1. x \in DOMAIN acked /\ acked'[x] = acked[x]
      BY <1>2, <2>3 DEF Upsert
    <3>2. QED
      BY <2>2, <2>3, <3>1 DEF Keeps
  <2>4. CASE x = id
    <3>1. \A c \in acked'[x] : c \in new \/ (x \in DOMAIN acked /\ c \in acked[x])
      BY <1>2, <2>4 DEF Upsert, SetOf
    <3>2. \A c \in acked'[x] : Holds(envelopes'[x], c)
      BY <2>2, <2>4, <3>1 DEF Keeps
    <3>3. QED
      BY <2>4, <3>2 DEF Keeps
  <2>5. QED
    BY <2>3, <2>4
<1>3. QED
  BY <1>1, <1>2 DEF AckInv, LiveKept

LEMMA CreateAcks ==
  ASSUME DInv, AckInv, NEW p, CreateLocalReview(p)
  PROVE  AckInv'
<1>1. /\ DOMAIN reviews' = DOMAIN reviews \cup {marks.review + 1}
      /\ \A id \in Issued : id # marks.review + 1
      /\ \A id \in DOMAIN reviews : id \in Issued /\ reviews'[id] = reviews[id]
      /\ Issued \subseteq Issued'
  BY DEF DInv, IInv, MarksKnown, RowsKnown, CreateLocalReview, Issued, Upsert
<1>2. UNCHANGED <<envelopes, acked>>
  BY DEF CreateLocalReview
<1>3. QED
  BY <1>1, <1>2 DEF AckInv, LiveKept, Keeps, Archived

LEMMA DeleteAcks ==
  ASSUME DInv, AckInv, NEW id, DeleteLocalReview(id)
  PROVE  AckInv'
<1>1. /\ DOMAIN reviews' = DOMAIN reviews \ {id} /\ DOMAIN envelopes' = DOMAIN envelopes \ {id}
      /\ DOMAIN acked' = DOMAIN acked \ {id}
      /\ \A x \in DOMAIN reviews' : reviews'[x] = reviews[x]
      /\ \A x \in DOMAIN envelopes' : envelopes'[x] = envelopes[x]
      /\ \A x \in DOMAIN acked' : acked'[x] = acked[x]
      /\ marks' = marks
  BY DEF DeleteLocalReview, Without, Restrict
<1>2. QED
  BY <1>1 DEF AckInv, LiveKept, Keeps, Archived, Issued

LEMMA SyncsAck ==
  ASSUME DInv, AckInv, NEW q, LandSync(q) \/ FailSync(q)
  PROVE  AckInv'
<1>1. PICK id : id = jobs[q].review
  OBVIOUS
<1>2. /\ q \in DOMAIN jobs /\ JobKnown(jobs[q]) /\ JobCarries(jobs[q])
      /\ UNCHANGED <<reviews, marks, threads, acked>>
  BY DEF DInv, Bounded, JobsCarry, IInv, JobsKnown, LandSync, FailSync, At
<1>3. CASE envelopes' = envelopes
  BY <1>2, <1>3, KeptElsewhere DEF Archived
<1>4. ASSUME NEW envelope, envelopes' = Upsert(envelopes, id, envelope),
             id \in DOMAIN acked \cap DOMAIN reviews /\ ~ Archived(id) =>
               \A c : Holds(envelopes[id], c) => Holds(envelope, c)
      PROVE  AckInv'
  <2>1. /\ envelopes'[id] = envelope /\ id \in DOMAIN envelopes'
        /\ \A x \in DOMAIN envelopes :
             x \in DOMAIN envelopes' /\ (x # id => envelopes'[x] = envelopes[x])
    BY <1>4 DEF Upsert
  <2>2. ASSUME NEW x \in DOMAIN acked \cap DOMAIN reviews, ~ Archived(x)
        PROVE  x \in DOMAIN envelopes' /\ \A c \in acked[x] : Holds(envelopes'[x], c)
    <3>1. x \in DOMAIN envelopes /\ \A c \in acked[x] : Holds(envelopes[x], c)
      BY <2>2 DEF AckInv, LiveKept, Keeps
    <3>2. QED
      BY <1>4, <2>1, <2>2, <3>1
  <2>3. QED
    BY <1>2, <2>2 DEF AckInv, LiveKept, Keeps, Archived, Issued
<1>5. CASE LandSync(q)
  <2>1. PICK envelope :
          /\ envelope.threads = RowsOf(threads, id)
          /\ id \in DOMAIN envelopes => envelope.authors = envelopes[id].authors
          /\ envelopes' = Upsert(envelopes, id, envelope)
    BY <1>1, <1>5 DEF LandSync
  <2>2. ASSUME id \in DOMAIN acked \cap DOMAIN reviews, ~ Archived(id),
               NEW c, Holds(envelopes[id], c)
        PROVE  Holds(envelope, c)
    <3>1. id \in DOMAIN envelopes
      BY <2>2 DEF AckInv, LiveKept, Keeps
    <3>2. OnDisk(envelopes[id].threads, RowsOf(threads, id))
      BY <2>2, <3>1, NowOnDisk
    <3>3. QED
      BY <2>1, <2>2, <3>1, <3>2 DEF Holds, OnDisk
  <2>3. QED
    BY <1>4, <2>1, <2>2
<1>6. CASE FailSync(q) /\ envelopes' # envelopes
  <2>1. /\ jobs[q].stored # NoEnvelope
        /\ envelopes' = Upsert(envelopes, id, [jobs[q].stored EXCEPT !.open = FALSE])
    BY <1>1, <1>6 DEF FailSync
  <2>2. id \in DOMAIN reviews => Archived(id)
    BY <1>1, <1>2, <2>1 DEF JobCarries
  <2>3. QED
    BY <1>4, <2>1, <2>2
<1>7. QED
  BY <1>3, <1>5, <1>6

(* A submit puts threads beside those the snapshot has.                    *)
LEMMA OpenedHolds ==
  ASSUME NEW shown, NEW mark, Known(shown.threads, mark), NEW ids, ids \cap 1..mark = {},
         NEW text, DOMAIN text = ids, NEW now,
         now.threads = Joined(shown.threads, Opened(text)), now.authors = shown.authors \cup ids
  PROVE  /\ \A c : Holds(shown, c) => Holds(now, c)
         /\ \A c \in ids : Holds(now, c)
<1>1. /\ DOMAIN Opened(text) = ids /\ DOMAIN shown.threads \cap ids = {}
      /\ \A c \in ids : c \in DOMAIN Opened(text)[c].comments
  BY DEF Opened, Upsert, EmptyTable, Known
<1>2. /\ DOMAIN now.threads = DOMAIN shown.threads \cup ids
      /\ \A t \in DOMAIN shown.threads : now.threads[t] = shown.threads[t]
      /\ \A c \in ids : now.threads[c] = Opened(text)[c]
  BY <1>1 DEF Joined
<1>3. QED
  BY <1>1, <1>2 DEF Holds

LEMMA SubmitsAck ==
  ASSUME DInv, AckInv, NEW q, FinishSubmit(q) \/ BreakSubmit(q)
  PROVE  AckInv'
<1>1. PICK id, input, ids :
        id = jobs[q].review /\ input = jobs[q].input /\ ids = SubmitIds(input)
  OBVIOUS
<1>2. /\ q \in DOMAIN jobs /\ IsFiniteSet(input) /\ id \in DOMAIN envelopes
      /\ reviews' = reviews /\ MintMany(1 + Cardinality(input))
  BY <1>1 DEF DInv, Bounded, JobsCarry, JobCarries, FinishSubmit, BreakSubmit, At
<1>3. ids \cap 1..marks.entity = {} /\ marks'.review = marks.review
  BY <1>1, <1>2, SubmitMints, Minted DEF DInv
<1>4. /\ Known(envelopes[id].threads, marks.entity) /\ id \in Issued
      /\ DOMAIN envelopes[id] = EnvelopeFields
  BY <1>2 DEF DInv, Bounded, ShownKnown, IInv, EnvelopesKnown, Fits
<1>5. ASSUME NEW text, DOMAIN text = ids,
             envelopes' = [envelopes EXCEPT ![id].threads = Joined(@, Opened(text)),
                                            ![id].authors = @ \cup ids],
             acked' = acked \/ acked' = Upsert(acked, id, SetOf(acked, id) \cup ids)
      PROVE  AckInv'
  <2>1. /\ DOMAIN envelopes' = DOMAIN envelopes
        /\ \A x \in DOMAIN envelopes : x # id => envelopes'[x] = envelopes[x]
        /\ envelopes'[id].threads = Joined(envelopes[id].threads, Opened(text))
        /\ envelopes'[id].authors = envelopes[id].authors \cup ids
    BY <1>2, <1>4, <1>5 DEF EnvelopeFields
  <2>2. /\ \A c : Holds(envelopes[id], c) => Holds(envelopes'[id], c)
        /\ \A c \in ids : Holds(envelopes'[id], c)
    BY <1>3, <1>4, <1>5, <2>1, OpenedHolds
  <2>3. QED
    BY <1>2, <1>3, <1>4, <1>5, <2>1, <2>2, SnapshotGrows
<1>6. CASE FinishSubmit(q)
  <2>1. PICK text \in Bijection(ids, input) :
          /\ envelopes' = [envelopes EXCEPT ![id].threads = Joined(@, Opened(text)),
                                            ![id].authors = @ \cup ids]
          /\ acked' = Upsert(acked, id, SetOf(acked, id) \cup ids)
    BY <1>1, <1>6 DEF FinishSubmit
  <2>2. DOMAIN text = ids
    BY DEF Bijection, Injection
  <2>3. QED
    BY <1>5, <2>1, <2>2
<1>7. CASE BreakSubmit(q)
  <2>1. PICK text \in Bijection(ids, input), reached \in 0..2 :
          /\ envelopes' = IF reached < 2 THEN envelopes
               ELSE [envelopes EXCEPT ![id].threads = Joined(@, Opened(text)),
                                      ![id].authors = @ \cup ids]
          /\ acked' = acked
    BY <1>1, <1>7 DEF BreakSubmit
  <2>2. DOMAIN text = ids
    BY DEF Bijection, Injection
  <2>3. CASE reached < 2
    BY <1>2, <1>3, <2>1, <2>3, KeptElsewhere DEF Archived
  <2>4. CASE ~ (reached < 2)
    BY <1>5, <2>1, <2>2, <2>4
  <2>5. QED
    BY <2>3, <2>4
<1>8. QED
  BY <1>6, <1>7

(* A thread of a snapshot is replaced by one with no fewer comments.       *)
LEMMA PersistHolds ==
  ASSUME DInv, AckInv, reviews' = reviews, marks'.review = marks.review,
         NEW id \in DOMAIN envelopes, NEW t \in DOMAIN envelopes[id].threads, NEW thread, NEW by,
         DOMAIN envelopes[id].threads[t].comments \cup by \subseteq DOMAIN thread.comments,
         envelopes' = [envelopes EXCEPT ![id].threads[t] = thread, ![id].authors = @ \cup by],
         \/ acked' = acked
         \/ acked' = Upsert(acked, id, SetOf(acked, id) \cup by)
  PROVE  AckInv'
<1>1. DOMAIN envelopes[id] = EnvelopeFields /\ id \in Issued
  BY DEF DInv, IInv, EnvelopesKnown, Fits
<1>2. /\ DOMAIN envelopes' = DOMAIN envelopes
      /\ \A x \in DOMAIN envelopes : x # id => envelopes'[x] = envelopes[x]
      /\ envelopes'[id].threads = [envelopes[id].threads EXCEPT ![t] = thread]
      /\ envelopes'[id].authors = envelopes[id].authors \cup by
  BY <1>1 DEF EnvelopeFields
<1>3. /\ \A c : Holds(envelopes[id], c) => Holds(envelopes'[id], c)
      /\ \A c \in by : Holds(envelopes'[id], c)
  BY <1>2 DEF Holds
<1>4. QED
  BY <1>1, <1>2, <1>3, SnapshotGrows

LEMMA RepliesAck ==
  ASSUME DInv, AckInv, NEW q, FinishReply(q) \/ BreakReply(q)
  PROVE  AckInv'
<1>1. PICK id, t, c : id = jobs[q].review /\ t = jobs[q].thread /\ c = marks.entity + 1
  OBVIOUS
<1>2. /\ id \in DOMAIN envelopes /\ t \in DOMAIN envelopes[id].threads
      /\ reviews' = reviews /\ marks'.review = marks.review
  BY <1>1, Minted DEF FinishReply, BreakReply, StillHolds, DInv
<1>3. "comments" \in DOMAIN envelopes[id].threads[t]
  BY <1>2 DEF DInv, Bounded, ShownKnown, Known
<1>4. CASE FinishReply(q)
  <2>1. PICK text :
          /\ envelopes' = [envelopes EXCEPT
               ![id].threads[t] = [envelopes[id].threads[t] EXCEPT
                                     !.comments = Upsert(@, c, text)],
               ![id].authors = @ \cup {c}]
          /\ acked' = Upsert(acked, id, SetOf(acked, id) \cup {c})
    BY <1>1, <1>4 DEF FinishReply, PersistThread
  <2>2. PICK thread :
          thread = [envelopes[id].threads[t] EXCEPT !.comments = Upsert(@, c, text)]
    OBVIOUS
  <2>3. DOMAIN envelopes[id].threads[t].comments \cup {c} \subseteq DOMAIN thread.comments
    BY <1>3, <2>2 DEF Upsert
  <2>4. QED
    BY <1>2, <2>1, <2>2, <2>3, PersistHolds
<1>5. CASE BreakReply(q)
  BY <1>2, <1>5, KeptElsewhere DEF BreakReply, Archived
<1>6. QED
  BY <1>4, <1>5

LEMMA ActsAck ==
  ASSUME DInv, AckInv, Act
  PROVE  AckInv'
<1>1. ASSUME NEW id \in Ids, NEW t \in Entities, ResolveThread(id, t)
      PROVE  AckInv'
  <2>1. /\ id \in DOMAIN envelopes /\ t \in DOMAIN envelopes[id].threads
        /\ reviews' = reviews /\ marks' = marks /\ acked' = acked
    BY <1>1 DEF ResolveThread, StillHolds
  <2>2. PICK thread : thread = [envelopes[id].threads[t] EXCEPT !.resolved = ~ @]
    OBVIOUS
  <2>3. "comments" \in DOMAIN envelopes[id].threads[t]
    BY <2>1 DEF DInv, Bounded, ShownKnown, Known
  <2>4. DOMAIN envelopes[id].threads[t].comments \cup {} \subseteq DOMAIN thread.comments
    BY <2>2, <2>3
  <2>5. envelopes' = [envelopes EXCEPT ![id].threads[t] = thread, ![id].authors = @ \cup {}]
    BY <1>1, <2>2 DEF ResolveThread, PersistThread
  <2>6. QED
    BY <2>1, <2>4, <2>5, PersistHolds
<1>2. CASE \E id \in Ids : DiscardDraft(id) \/ \E texts \in SUBSET Texts : SaveDraft(id, texts)
  BY <1>2, KeptElsewhere DEF DiscardDraft, SaveDraft, Archived
<1>3. CASE \E id \in Ids : DeleteLocalReview(id)
  BY <1>3, DeleteAcks
<1>4. QED
  BY <1>1, <1>2, <1>3 DEF Act

LEMMA NextAcks == DInv /\ AckInv /\ [Next]_vars => AckInv'
<1> SUFFICES ASSUME DInv, AckInv, [Next]_vars PROVE AckInv'
  OBVIOUS
<1>1. CASE UNCHANGED <<tables, acked>>
  BY <1>1, KeptElsewhere DEF tables, Archived
<1>2. ASSUME NEW q \in Requests, MarkArchived(q) PROVE AckInv'
  <2>1. /\ UNCHANGED <<envelopes, marks, acked>> /\ DOMAIN reviews' = DOMAIN reviews
        /\ \A id \in DOMAIN reviews : Archived(id) => Archived(id)'
    BY <1>2 DEF MarkArchived, Archived
  <2>2. QED
    BY <2>1, KeptElsewhere
<1>3. \A q : Begin(q) \/ ServeListing(q) \/ RejectListing(q) \/ Deadline(q) \/ EnterSync(q)
               \/ RefuseWrite(q) => UNCHANGED <<tables, acked>>
  BY DEF Begin, StartSync, StartSubmit, StartReply, ServeListing, RejectListing, Deadline,
         EnterSync, RefuseWrite
<1>4. ASSUME NEW q \in Requests, Advance(q) PROVE AckInv'
  BY <1>1, <1>2, <1>3, <1>4, SyncsAck, SubmitsAck, RepliesAck DEF Advance
<1>5. Restart \/ (\E p \in Pairs, n \in Pulls : OpenPull(p, n) \/ ClosePull(p, n))
        \/ UNCHANGED vars => UNCHANGED <<tables, acked>>
  BY DEF Restart, OpenPull, ClosePull, vars
<1>6. QED
  BY <1>1, <1>3, <1>4, <1>5, CreateAcks, ActsAck DEF Next

(* A comment whose write was answered with success stays in the snapshot    *)
(* of a review no pull request has archived, and keeps its author there    *)
(* (performSync reads the threads after its last await and merges the      *)
(* authorship map; submitLocalReview and persistThread read the snapshot   *)
(* again after theirs).                                                    *)
THEOREM LiveReviewsKeepTheirWrites == Spec => []LiveKept
<1>1. Init => DInv /\ AckInv
  <2>1. Init => AckInv
    BY DEF Init, AckInv, LiveKept, EmptyTable
  <2>2. QED
    BY <2>1, InitKnown, InitOnDisk DEF DInv
<1>2. (DInv /\ AckInv) /\ [Next]_vars => (DInv /\ AckInv)'
  BY NextOnDisk, NextAcks, LocalAssumption
<1>3. AckInv => LiveKept
  BY DEF AckInv
<1>4. QED
  BY <1>1, <1>2, <1>3, PTL DEF Spec

----------------------------------------------------------------------------

LEMMA EnterMoves ==
  ASSUME NEW q, EnterSync(q), DOMAIN jobs[q] = JobFields
  PROVE  \/ Finish(q)
         \/ /\ DOMAIN jobs' = DOMAIN jobs /\ jobs'[q].step = "git"
            /\ \A r \in DOMAIN jobs : r # q => jobs'[r] = jobs[r]
<1>1. PICK id, plain, taking :
        /\ id = jobs[q].review
        /\ plain = [jobs[q] EXCEPT !.row = reviews[id], !.step = "git"]
        /\ taking = [jobs[q] EXCEPT !.row = reviews[id], !.step = "git",
                                    !.stored = envelopes[id]]
  OBVIOUS
<1>2. plain.step = "git" /\ taking.step = "git"
  BY <1>1 DEF JobFields
<1>3. Finish(q) \/ jobs' = [jobs EXCEPT ![q] = plain] \/ jobs' = [jobs EXCEPT ![q] = taking]
  BY <1>1 DEF EnterSync
<1>4. q \in DOMAIN jobs
  BY DEF EnterSync, At
<1>5. QED
  BY <1>2, <1>3, <1>4

LEMMA StartsUnarchived ==
  ASSUME Unarchived, NEW q, Begin(q)
  PROVE  Unarchived'
<1>1. UNCHANGED <<reviews, opens>>
  BY DEF Begin, StartSync, StartSubmit, StartReply, tables
<1>2. ASSUME NEW job, jobs' = Upsert(jobs, q, job), job.step # "listed",
             job.step = "listing" => job.row.pair \in Pairs
      PROVE  Unarchived'
  BY <1>1, <1>2 DEF Unarchived, Archived, Upsert
<1>3. PICK id \in Ids : \/ StartSync(q, id) \/ StartSubmit(q, id)
                        \/ \E t \in Entities, text \in Texts : StartReply(q, id, t, text)
  BY DEF Begin
<1>4. CASE StartSync(q, id)
  <2>1. PICK job : job = [NewJob(id, IF Archived(id) THEN "enter" ELSE "listing")
                            EXCEPT !.row = reviews[id]]
    OBVIOUS
  <2>2. /\ job.row = reviews[id] /\ job.step \in {"enter", "listing"}
        /\ jobs' = Upsert(jobs, q, job) /\ id \in DOMAIN reviews
    BY <1>4, <2>1 DEF StartSync, Start, NewJob
  <2>3. QED
    BY <1>2, <2>2 DEF Unarchived
<1>5. CASE StartSubmit(q, id)
  <2>1. PICK job : job = [NewJob(id, "submitting") EXCEPT !.input = Draft(id)]
    OBVIOUS
  <2>2. job.step = "submitting" /\ jobs' = Upsert(jobs, q, job)
    BY <1>5, <2>1 DEF StartSubmit, Start, NewJob
  <2>3. QED
    BY <1>2, <2>2
<1>6. ASSUME NEW t \in Entities, NEW text \in Texts, StartReply(q, id, t, text)
      PROVE  Unarchived'
  <2>1. PICK job : job = [NewJob(id, "replying") EXCEPT !.thread = t, !.input = {text}]
    OBVIOUS
  <2>2. job.step = "replying" /\ jobs' = Upsert(jobs, q, job)
    BY <1>6, <2>1 DEF StartReply, Start, NewJob
  <2>3. QED
    BY <1>2, <2>2
<1>7. QED
  BY <1>3, <1>4, <1>5, <1>6

LEMMA NextUnarchived ==
  ASSUME IInv, Pulls = {}, None \notin Pulls, Unarchived, [Next]_vars
  PROVE  Unarchived'
<1>1. ASSUME UNCHANGED <<reviews, opens>>, DOMAIN jobs' \subseteq DOMAIN jobs,
             \A q \in DOMAIN jobs' : jobs'[q] = jobs[q]
      PROVE  Unarchived'
  BY <1>1 DEF Unarchived, Archived
<1>2. ASSUME NEW p \in Pairs, CreateLocalReview(p)
      PROVE  Unarchived'
  <2>1. /\ UNCHANGED <<opens, jobs>> /\ DOMAIN reviews' = DOMAIN reviews \cup {marks.review + 1}
        /\ reviews'[marks.review + 1] = [pair |-> p, archived |-> None]
        /\ \A id \in DOMAIN reviews : id # marks.review + 1 => reviews'[id] = reviews[id]
    BY <1>2 DEF CreateLocalReview, Upsert
  <2>2. QED
    BY <2>1 DEF Unarchived, Archived
<1>3. ASSUME NEW q \in Requests, ServeListing(q) \/ RejectListing(q) \/ Deadline(q)
      PROVE  Unarchived'
  <2>1. /\ q \in DOMAIN jobs /\ DOMAIN jobs[q] = JobFields /\ jobs[q].step = "listing"
        /\ UNCHANGED <<reviews, opens>>
    BY <1>3 DEF ServeListing, RejectListing, Deadline, At, tables, IInv, JobsKnown, JobKnown
  <2>2. jobs' = [jobs EXCEPT ![q].step = "enter"]
    <3>1. opens[jobs[q].row.pair] = {}
      BY <2>1 DEF Unarchived
    <3>2. QED
      BY <1>3, <3>1 DEF ServeListing, RejectListing, Deadline
  <2>3. /\ DOMAIN jobs' = DOMAIN jobs /\ jobs'[q].step = "enter"
        /\ \A r \in DOMAIN jobs : r # q => jobs'[r] = jobs[r]
    BY <2>1, <2>2 DEF JobFields
  <2>4. QED
    BY <2>1, <2>3 DEF Unarchived, Archived
<1>4. ASSUME NEW q \in Requests, EnterSync(q)
      PROVE  Unarchived'
  <2>1. q \in DOMAIN jobs /\ DOMAIN jobs[q] = JobFields /\ UNCHANGED <<reviews, opens>>
    BY <1>4 DEF EnterSync, At, tables, IInv, JobsKnown, JobKnown
  <2>2. \/ Finish(q)
        \/ /\ DOMAIN jobs' = DOMAIN jobs /\ jobs'[q].step = "git"
           /\ \A r \in DOMAIN jobs : r # q => jobs'[r] = jobs[r]
    BY <1>4, <2>1, EnterMoves
  <2>3. QED
    BY <1>1, <2>1, <2>2, JobsLeave DEF Unarchived, Archived
<1>5. ASSUME NEW q \in Requests,
             \/ LandSync(q) \/ FailSync(q) \/ FinishSubmit(q) \/ BreakSubmit(q)
             \/ FinishReply(q) \/ BreakReply(q) \/ RefuseWrite(q)
      PROVE  Unarchived'
  <2>1. Finish(q) /\ UNCHANGED <<reviews, opens>>
    BY <1>5 DEF LandSync, FailSync, FinishSubmit, BreakSubmit, FinishReply, BreakReply,
                RefuseWrite, tables
  <2>2. QED
    BY <1>1, <2>1, JobsLeave
<1>6. ASSUME NEW q \in Requests
      PROVE  ~ MarkArchived(q)
  BY DEF MarkArchived, At, Unarchived
<1>7. CASE Act
  <2>1. /\ UNCHANGED <<opens, jobs>> /\ DOMAIN reviews' \subseteq DOMAIN reviews
        /\ \A id \in DOMAIN reviews' : reviews'[id] = reviews[id]
    BY <1>7 DEF Act, ResolveThread, SaveDraft, DiscardDraft, DeleteLocalReview, Without, Restrict
  <2>2. QED
    BY <2>1 DEF Unarchived, Archived
<1>8. CASE Restart \/ UNCHANGED vars
  BY <1>1, <1>8 DEF Restart, vars, tables, EmptyTable
<1>9. QED
  BY <1>2, <1>3, <1>4, <1>5, <1>6, <1>7, <1>8, StartsUnarchived DEF Next, Advance

(* The same of every review, where no pull request covers any pair: with    *)
(* one, a catch-up that fails takes an acknowledged comment back (finding). *)
THEOREM AcknowledgedStaysTheorem == ASSUME Pulls = {} PROVE Spec => []AcknowledgedStays
<1>1. Init => Unarchived
  BY DEF Init, Unarchived, EmptyTable
<1>2. IInv /\ Unarchived /\ [Next]_vars => Unarchived'
  BY NextUnarchived
<1>3. LiveKept /\ Unarchived => AcknowledgedStays
  BY DEF LiveKept, Keeps, Holds, Unarchived, AcknowledgedStays
<1>4. QED
  BY <1>1, <1>2, <1>3, LiveReviewsKeepTheirWrites, IdsAreNotReissued, PTL DEF Spec

----------------------------------------------------------------------------

LEMMA NextSends ==
  ASSUME IInv, ~ EditsMidSubmit, SentIsDraft, [Next]_vars
  PROVE  SentIsDraft'
<1>1. ASSUME DOMAIN jobs' \subseteq DOMAIN jobs, \A q \in DOMAIN jobs' : jobs'[q] = jobs[q],
             \A id : SetOf(drafts', id) \subseteq SetOf(drafts, id)
      PROVE  SentIsDraft'
  BY <1>1 DEF SentIsDraft
<1>2. ASSUME drafts' = drafts, NEW q,
             \A r \in DOMAIN jobs' : r # q => r \in DOMAIN jobs /\ jobs'[r] = jobs[r],
             q \in DOMAIN jobs' =>
               (jobs'[q].step = "submitting" => Draft(jobs'[q].review) \subseteq jobs'[q].input)
      PROVE  SentIsDraft'
  BY <1>2 DEF SentIsDraft, Draft
<1>3. ASSUME NEW q, Begin(q)
      PROVE  SentIsDraft'
  <2>1. drafts' = drafts
    BY <1>3 DEF Begin, StartSync, StartSubmit, StartReply, tables
  <2>2. ASSUME NEW job, jobs' = Upsert(jobs, q, job),
               job.step = "submitting" => Draft(job.review) \subseteq job.input
        PROVE  SentIsDraft'
    BY <1>2, <2>1, <2>2 DEF Upsert
  <2>3. PICK id \in Ids : \/ StartSync(q, id) \/ StartSubmit(q, id)
                          \/ \E t \in Entities, text \in Texts : StartReply(q, id, t, text)
    BY <1>3 DEF Begin
  <2>4. CASE StartSync(q, id)
    <3>1. PICK job : job = [NewJob(id, IF Archived(id) THEN "enter" ELSE "listing")
                              EXCEPT !.row = reviews[id]]
      OBVIOUS
    <3>2. job.step # "submitting" /\ jobs' = Upsert(jobs, q, job)
      BY <2>4, <3>1 DEF StartSync, Start, NewJob
    <3>3. QED
      BY <2>2, <3>2
  <2>5. CASE StartSubmit(q, id)
    <3>1. PICK job : job = [NewJob(id, "submitting") EXCEPT !.input = Draft(id)]
      OBVIOUS
    <3>2. job.review = id /\ job.input = Draft(id) /\ jobs' = Upsert(jobs, q, job)
      BY <2>5, <3>1 DEF StartSubmit, Start, NewJob
    <3>3. QED
      BY <2>2, <3>2
  <2>6. ASSUME NEW t \in Entities, NEW text \in Texts, StartReply(q, id, t, text)
        PROVE  SentIsDraft'
    <3>1. PICK job : job = [NewJob(id, "replying") EXCEPT !.thread = t, !.input = {text}]
      OBVIOUS
    <3>2. job.step # "submitting" /\ jobs' = Upsert(jobs, q, job)
      BY <2>6, <3>1 DEF StartReply, Start, NewJob
    <3>3. QED
      BY <2>2, <3>2
  <2>7. QED
    BY <2>3, <2>4, <2>5, <2>6
<1>4. ASSUME NEW q, ServeListing(q) \/ RejectListing(q) \/ Deadline(q) \/ MarkArchived(q)
                    \/ EnterSync(q)
      PROVE  SentIsDraft'
  <2>1. q \in DOMAIN jobs /\ DOMAIN jobs[q] = JobFields /\ drafts' = drafts
    BY <1>4 DEF ServeListing, RejectListing, Deadline, MarkArchived, EnterSync, At, tables,
                IInv, JobsKnown, JobKnown
  <2>2. \/ Finish(q)
        \/ /\ DOMAIN jobs' = DOMAIN jobs /\ jobs'[q].step \in {"enter", "listed", "git"}
           /\ \A r \in DOMAIN jobs : r # q => jobs'[r] = jobs[r]
    BY <1>4, <2>1, EnterMoves DEF ServeListing, RejectListing, Deadline, MarkArchived, JobFields
  <2>3. CASE Finish(q)
    BY <1>1, <2>1, <2>3, JobsLeave
  <2>4. QED
    BY <1>2, <2>1, <2>2, <2>3
<1>5. ASSUME NEW q,
             \/ LandSync(q) \/ FailSync(q) \/ FinishSubmit(q) \/ BreakSubmit(q)
             \/ FinishReply(q) \/ BreakReply(q) \/ RefuseWrite(q)
      PROVE  SentIsDraft'
  <2>1. /\ Finish(q)
        /\ drafts' = drafts \/ drafts' = Without(drafts, {jobs[q].review})
    BY <1>5 DEF LandSync, FailSync, FinishSubmit, BreakSubmit, FinishReply, BreakReply,
                RefuseWrite, tables
  <2>2. \A id : SetOf(drafts', id) \subseteq SetOf(drafts, id)
    BY <2>1 DEF SetOf, Without, Restrict
  <2>3. QED
    BY <1>1, <2>1, <2>2, JobsLeave
<1>6. ASSUME NEW id, NEW texts, SaveDraft(id, texts)
      PROVE  SentIsDraft'
  <2>1. /\ jobs' = jobs /\ \A x : x # id => SetOf(drafts', x) = SetOf(drafts, x)
        /\ \A q \in DOMAIN jobs : ~ (jobs[q].step = "submitting" /\ jobs[q].review = id)
    BY <1>6 DEF SaveDraft, At, SetOf, Upsert
  <2>2. QED
    BY <2>1 DEF SentIsDraft
<1>7. ASSUME NEW id, DiscardDraft(id) \/ DeleteLocalReview(id)
      PROVE  SentIsDraft'
  <2>1. /\ jobs' = jobs /\ \A x : SetOf(drafts', x) \subseteq SetOf(drafts, x)
    BY <1>7 DEF DiscardDraft, DeleteLocalReview, Without, Restrict, SetOf
  <2>2. QED
    BY <1>1, <2>1
<1>8. CASE (\E p \in Pairs : CreateLocalReview(p)) \/ Restart \/ UNCHANGED vars
           \/ (\E p \in Pairs, n \in Pulls : OpenPull(p, n) \/ ClosePull(p, n))
           \/ (\E id \in Ids, t \in Entities : ResolveThread(id, t))
  <2>1. drafts' = drafts /\ (jobs' = jobs \/ jobs' = EmptyTable)
    BY <1>8 DEF CreateLocalReview, Restart, vars, tables, OpenPull, ClosePull, ResolveThread
  <2>2. QED
    BY <1>1, <2>1 DEF EmptyTable
<1>9. QED
  BY <1>3, <1>4, <1>5, <1>6, <1>7, <1>8 DEF Next, Advance, Act

\* What a submit lands holds every text it sent.
LEMMA SubmitWrites ==
  ASSUME NEW q, FinishSubmit(q), NEW text \in jobs[q].input
  PROVE  text \in Written(RowsOf(threads', jobs[q].review))
<1>1. PICK id, ids, rows : id = jobs[q].review /\ ids = SubmitIds(jobs[q].input)
                           /\ rows = RowsOf(threads', id)
  OBVIOUS
<1>2. PICK put \in Bijection(ids, jobs[q].input) :
        threads' = Upsert(threads, id, Joined(RowsOf(threads, id), Opened(put)))
  BY <1>1 DEF FinishSubmit
<1>3. PICK c \in ids : put[c] = text
  BY <1>2 DEF Bijection, Injection, Surjection
<1>4. DOMAIN put = ids
  BY <1>2 DEF Bijection, Injection
<1>5. rows = Joined(RowsOf(threads, id), Opened(put))
  BY <1>1, <1>2, RowsPut
<1>6. /\ DOMAIN Opened(put) = ids
      /\ Opened(put)[c].comments = Upsert(EmptyTable, c, put[c])
  BY <1>4 DEF Opened
<1>7. c \in DOMAIN rows /\ rows[c].comments = Upsert(EmptyTable, c, text)
  BY <1>3, <1>5, <1>6 DEF Joined
<1>8. c \in DOMAIN rows[c].comments /\ rows[c].comments[c] = text
  BY <1>7 DEF Upsert
<1>9. QED
  BY <1>1, <1>7, <1>8 DEF Written

(* Text leaves a draft by the reviewer's hand or by landing in a thread, if *)
(* no draft is saved while its submit is in flight (finding): a submit      *)
(* deletes the draft last, after every thread it opened is written.         *)
THEOREM TextLeavesByHandOrLandsTheorem ==
  ASSUME ~ EditsMidSubmit PROVE Spec => TextLeavesByHandOrLands
<1> DEFINE Goes ==
      \/ \E id \in Ids : DiscardDraft(id) \/ \E texts \in SUBSET Texts : SaveDraft(id, texts)
      \/ \A id \in DOMAIN drafts : \A text \in drafts[id] :
           text \in SetOf(drafts', id) \/ text \in Written(RowsOf(threads', id))
<1>1. Init => SentIsDraft
  BY DEF Init, SentIsDraft, EmptyTable
<1>2. IInv /\ SentIsDraft /\ [Next]_vars => SentIsDraft'
  BY NextSends
<1>3. ASSUME SentIsDraft, [Next]_vars
      PROVE  Goes
  <2>1. CASE drafts' = drafts
    BY <2>1 DEF SetOf
  <2>2. ASSUME NEW q, FinishSubmit(q)
        PROVE  Goes
    <3>1. PICK own : own = jobs[q].review
      OBVIOUS
    <3>2. SetOf(drafts, own) \subseteq jobs[q].input
      BY <1>3, <2>2, <3>1 DEF SentIsDraft, FinishSubmit, At
    <3>3. ASSUME NEW id \in DOMAIN drafts, NEW text \in drafts[id]
          PROVE  text \in SetOf(drafts', id) \/ text \in Written(RowsOf(threads', id))
      <4>1. CASE id = own
        <5>1. text \in jobs[q].input
          BY <3>2, <3>3, <4>1 DEF SetOf
        <5>2. QED
          BY <2>2, <3>1, <4>1, <5>1, SubmitWrites
      <4>2. CASE id # own
        <5>1. drafts' = Without(drafts, {own})
          BY <2>2, <3>1 DEF FinishSubmit
        <5>2. QED
          BY <3>3, <4>2, <5>1 DEF Without, Restrict, SetOf
      <4>3. QED
        BY <4>1, <4>2
    <3>4. QED
      BY <3>3
  <2>3. ASSUME NEW own, DeleteLocalReview(own)
        PROVE  Goes
    <3>1. SetOf(drafts, own) = {} /\ drafts' = Without(drafts, {own})
      BY <2>3 DEF DeleteLocalReview, Draft
    <3>2. QED
      BY <3>1 DEF Without, Restrict, SetOf
  <2>4. \/ drafts' = drafts
        \/ \E q \in Requests : FinishSubmit(q)
        \/ \E id \in Ids : DeleteLocalReview(id)
        \/ \E id \in Ids : DiscardDraft(id) \/ \E texts \in SUBSET Texts : SaveDraft(id, texts)
    <3>1. \A q : Begin(q) \/ ServeListing(q) \/ RejectListing(q) => drafts' = drafts
      BY DEF Begin, StartSync, StartSubmit, StartReply, ServeListing, RejectListing, tables
    <3>2. \A q : Advance(q) => FinishSubmit(q) \/ drafts' = drafts
      BY DEF Advance, Deadline, MarkArchived, EnterSync, LandSync, FailSync, BreakSubmit,
             FinishReply, BreakReply, RefuseWrite, tables
    <3>3. \A p : CreateLocalReview(p) => drafts' = drafts
      BY DEF CreateLocalReview
    <3>4. \A id, t : ResolveThread(id, t) => drafts' = drafts
      BY DEF ResolveThread
    <3>5. Restart \/ (\E p \in Pairs, n \in Pulls : OpenPull(p, n) \/ ClosePull(p, n))
            \/ UNCHANGED vars => drafts' = drafts
      BY DEF Restart, OpenPull, ClosePull, vars, tables
    <3>6. QED
      BY <1>3, <3>1, <3>2, <3>3, <3>4, <3>5 DEF Next, Act
  <2>5. QED
    BY <2>1, <2>2, <2>3, <2>4
<1>4. SentIsDraft /\ [Next]_vars => [Goes]_vars
  BY <1>3
<1>5. QED
  BY <1>1, <1>2, <1>4, IdsAreNotReissued, PTL DEF Spec, TextLeavesByHandOrLands

=============================================================================
