---------------------------- MODULE LocalReview ----------------------------
(***************************************************************************)
(* The life of local reviews in one daemon: a pair of local branches is    *)
(* reviewed, threads are written into it, and a pull request over the same *)
(* pair archives it.  A request is a process, and one step of it is what   *)
(* runs between two awaits: the archive check awaits GitHub, a sync awaits *)
(* git, and submit and reply await the resolution of the head.             *)
(*                                                                         *)
(* The stored snapshot (the envelope) repeats what other tables hold: the  *)
(* branch pair and the archived state of the review's row, and its         *)
(* threads.  Nothing but the order of the writes keeps them together.      *)
(***************************************************************************)
EXTENDS Integers, FiniteSets, Tables

CONSTANTS
  Requests,       \* request slots
  Pairs,          \* branch pairs of the repository
  Pulls,          \* numbers of the pull requests that may cover a pair
  Texts,          \* what a reviewer types
  EditsMidSubmit, \* may a draft be saved while its submit is in flight?
  MaxReviews,     \* bound: reviews ever created
  MaxEntities,    \* bound: comments and review summaries ever minted
  None

ASSUME LocalAssumption ==
  /\ Pulls \subseteq Nat \ {0}
  /\ None \notin Pulls
  /\ IsFiniteSet(Texts)
  /\ EditsMidSubmit \in BOOLEAN
  /\ MaxReviews \in Nat /\ MaxEntities \in Nat

VARIABLES
  reviews,   \* table local_reviews: id -> branch pair and archived_pr
  marks,     \* table meta: the two id high-water marks
  envelopes, \* table local_snapshots: id -> what the snapshot says
  threads,   \* table local_threads: id -> thread id -> thread
  summaries, \* table local_reviews_submitted: id -> summary ids
  drafts,    \* table local_drafts: id -> the texts of the pending comments
  jobs,      \* request slot -> the request it is serving
  opens,     \* GitHub: pair -> the open pull requests that cover it
  acked      \* history: id -> the comments a client was told are written

tables == <<reviews, marks, envelopes, threads, summaries, drafts>>
vars   == <<tables, jobs, opens, acked>>

Ids      == 1..MaxReviews
Entities == 1..MaxEntities

(* A thread is named after its root comment.  `resolved` stands for what   *)
(* resolveThread and addReaction change in a thread: all but its comments. *)
IsThread(thread) ==
  /\ IsTable(thread.comments, Entities, Texts)
  /\ thread = [comments |-> thread.comments, resolved |-> thread.resolved]
  /\ thread.resolved \in BOOLEAN

Row == [pair: Pairs, archived: Pulls \cup {None}]
NoRow == [pair |-> None, archived |-> None]
NoEnvelope == [pair |-> None, open |-> FALSE, threads |-> EmptyTable, authors |-> {}]

Steps == {"listing", "listed", "enter", "git", "submitting", "replying"}

(* What a request carries across its awaits: a sync, the number the        *)
(* listing gave, the row it entered with and the snapshot to close should  *)
(* its catch-up fail; a write, what the client sent.                       *)
NewJob(id, step) ==
  [step |-> step, review |-> id, found |-> None, row |-> NoRow, stored |-> NoEnvelope,
   input |-> {}, thread |-> 0]

At(q, step) == q \in DOMAIN jobs /\ jobs[q].step = step
Idle(q) == q \notin DOMAIN jobs
Start(q, job) == jobs' = Upsert(jobs, q, job)
Finish(q) == jobs' = Without(jobs, {q})

Archived(id) == reviews[id].archived # None
Draft(id) == SetOf(drafts, id)

(* The comments a submit creates for its pending texts, one thread each.   *)
Opened(text) ==
  [c \in DOMAIN text |-> [comments |-> Upsert(EmptyTable, c, text[c]), resolved |-> FALSE]]
SubmitIds(input) == marks.entity + 2 .. marks.entity + 1 + Cardinality(input)
MintMany(n) == marks' = [marks EXCEPT !.entity = @ + n]

----------------------------------------------------------------------------

Init ==
  /\ reviews = EmptyTable /\ envelopes = EmptyTable /\ threads = EmptyTable
  /\ summaries = EmptyTable /\ drafts = EmptyTable
  /\ marks = [review |-> 0, entity |-> 0]
  /\ jobs = EmptyTable
  /\ opens \in [Pairs -> SUBSET Pulls]
  /\ acked = EmptyTable

(* Fault: the id is one past the highest in the table, not one past the    *)
(* highest ever handed out.                                                *)
CreateAtTop(p) ==
  /\ \A id \in DOMAIN reviews : reviews[id].pair # p
  /\ \E id \in Ids :
       /\ \A other \in DOMAIN reviews : other < id
       /\ id = 1 \/ id - 1 \in DOMAIN reviews
       /\ marks' = [marks EXCEPT !.review = id]
       /\ reviews' = Upsert(reviews, id, [pair |-> p, archived |-> None])
  /\ UNCHANGED <<envelopes, threads, summaries, drafts, jobs, opens, acked>>

(* createLocalReview for a pair that has no review: one transaction takes  *)
(* the next id and inserts the row.  A pair that has one gets it back.     *)
CreateLocalReview(p) ==
  /\ \A id \in DOMAIN reviews : reviews[id].pair # p
  /\ marks.review < MaxReviews
  /\ marks' = [marks EXCEPT !.review = @ + 1]
  /\ reviews' = Upsert(reviews, marks.review + 1, [pair |-> p, archived |-> None])
  /\ UNCHANGED <<envelopes, threads, summaries, drafts, jobs, opens, acked>>

(* syncPull: a review that is not archived is checked against GitHub first.*)
StartSync(q, id) ==
  /\ Idle(q) /\ id \in DOMAIN reviews
  /\ Start(q, [NewJob(id, IF Archived(id) THEN "enter" ELSE "listing")
                 EXCEPT !.row = reviews[id]])
  /\ UNCHANGED <<tables, opens, acked>>

(* GitHub serves the listing: of the pull requests that cover the pair at  *)
(* that moment, the one with the lowest number supersedes the review.      *)
ServeListing(q) ==
  /\ At(q, "listing")
  /\ LET covering == opens[jobs[q].row.pair] IN
       \/ /\ covering = {}
          /\ jobs' = [jobs EXCEPT ![q].step = "enter"]
       \/ \E n \in covering :
            /\ \A m \in covering : n <= m
            /\ jobs' = [jobs EXCEPT ![q].found = n, ![q].step = "listed"]
  /\ UNCHANGED <<tables, opens, acked>>

(* The listing rejects, or the daemon runs with no GitHub client at all.   *)
RejectListing(q) ==
  /\ At(q, "listing")
  /\ jobs' = [jobs EXCEPT ![q].step = "enter"]
  /\ UNCHANGED <<tables, opens, acked>>

(* Fault: the deadline is looked at only once an answer has arrived.       *)
DeadlineAfterAnswer(q) ==
  /\ At(q, "listed")
  /\ jobs' = [jobs EXCEPT ![q].step = "enter"]
  /\ UNCHANGED <<tables, opens, acked>>

(* withDeadline: the listing has not settled in time; the review stays     *)
(* live, and a later answer is dropped.                                    *)
Deadline(q) ==
  /\ At(q, "listing")
  /\ jobs' = [jobs EXCEPT ![q].step = "enter"]
  /\ UNCHANGED <<tables, opens, acked>>

(* Fault: the number is written whether or not the row has one.            *)
MarkAgain(q) ==
  /\ At(q, "listed")
  /\ reviews' = IF jobs[q].review \in DOMAIN reviews
                  THEN [reviews EXCEPT ![jobs[q].review].archived = jobs[q].found]
                  ELSE reviews
  /\ jobs' = [jobs EXCEPT ![q].found = None, ![q].step = "enter"]
  /\ UNCHANGED <<marks, envelopes, threads, summaries, drafts, opens, acked>>

(* markLocalReviewArchived: UPDATE ... WHERE id = ? AND archived_pr IS NULL*)
MarkArchived(q) ==
  /\ At(q, "listed")
  /\ LET id == jobs[q].review
     IN  reviews' = IF id \in DOMAIN reviews /\ ~ Archived(id)
                      THEN [reviews EXCEPT ![id].archived = jobs[q].found]
                      ELSE reviews
  /\ jobs' = [jobs EXCEPT ![q].found = None, ![q].step = "enter"]
  /\ UNCHANGED <<marks, envelopes, threads, summaries, drafts, opens, acked>>

(* syncLocalReview: no row, no sync; an archived review whose snapshot     *)
(* already says so is frozen; any other goes to git, and an archived one   *)
(* takes its stored snapshot along, to close it should git fail.           *)
EnterSync(q) ==
  /\ At(q, "enter")
  /\ LET id == jobs[q].review IN
       \/ /\ id \notin DOMAIN reviews
          /\ Finish(q)
       \/ /\ id \in DOMAIN reviews /\ Archived(id)
          /\ id \in DOMAIN envelopes /\ ~ envelopes[id].open
          /\ Finish(q)
       \/ /\ id \in DOMAIN reviews /\ Archived(id)
          /\ id \in DOMAIN envelopes /\ envelopes[id].open
          /\ jobs' = [jobs EXCEPT ![q].row = reviews[id], ![q].step = "git",
                                  ![q].stored = envelopes[id]]
       \/ /\ id \in DOMAIN reviews
          /\ ~ Archived(id) \/ id \notin DOMAIN envelopes
          /\ jobs' = [jobs EXCEPT ![q].row = reviews[id], ![q].step = "git"]
  /\ UNCHANGED <<tables, opens, acked>>

(* Fault: the envelope is rebuilt without the authorship map.              *)
LandForgetsAuthors(q) ==
  /\ At(q, "git")
  /\ LET id == jobs[q].review
     IN  envelopes' = Upsert(envelopes, id,
           [pair |-> jobs[q].row.pair, open |-> jobs[q].row.archived = None,
            threads |-> RowsOf(threads, id), authors |-> {}])
  /\ Finish(q)
  /\ UNCHANGED <<reviews, marks, threads, summaries, drafts, opens, acked>>

(* performSync after its last await: threads and authors as they are now,  *)
(* pair and archived state as the row was when the sync entered.           *)
LandSync(q) ==
  /\ At(q, "git")
  /\ LET id == jobs[q].review
         authors == IF id \in DOMAIN envelopes THEN envelopes[id].authors ELSE {}
     IN  envelopes' = Upsert(envelopes, id,
           [pair |-> jobs[q].row.pair, open |-> jobs[q].row.archived = None,
            threads |-> RowsOf(threads, id), authors |-> authors])
  /\ Finish(q)
  /\ UNCHANGED <<reviews, marks, threads, summaries, drafts, opens, acked>>

(* git cannot answer.  A catch-up then writes back, closed, the snapshot   *)
(* it took along when it entered.                                          *)
FailSync(q) ==
  /\ At(q, "git")
  /\ \/ /\ jobs[q].stored = NoEnvelope
        /\ UNCHANGED envelopes
     \/ /\ jobs[q].stored # NoEnvelope
        /\ envelopes' = Upsert(envelopes, jobs[q].review,
                               [jobs[q].stored EXCEPT !.open = FALSE])
  /\ Finish(q)
  /\ UNCHANGED <<reviews, marks, threads, summaries, drafts, opens, acked>>

(* submitLocalReview up to its await: refused on an archived review, and   *)
(* on one with no snapshot.  The client sends the comments of its draft.   *)
StartSubmit(q, id) ==
  /\ Idle(q) /\ id \in DOMAIN reviews /\ ~ Archived(id)
  /\ id \in DOMAIN envelopes /\ Draft(id) # {}
  /\ Start(q, [NewJob(id, "submitting") EXCEPT !.input = Draft(id)])
  /\ UNCHANGED <<tables, opens, acked>>

(* After the await: the ids are minted, the snapshot is read again, and    *)
(* threads, summary, envelope and draft are written, in that order.        *)
FinishSubmit(q) ==
  /\ At(q, "submitting")
  /\ LET id == jobs[q].review
         input == jobs[q].input
         ids == SubmitIds(input)
     IN  /\ ids \subseteq Entities
         /\ id \in DOMAIN envelopes
         /\ MintMany(1 + Cardinality(input))
         /\ \E text \in Bijection(ids, input) :
              /\ threads' = Upsert(threads, id, Joined(RowsOf(threads, id), Opened(text)))
              /\ envelopes' = [envelopes EXCEPT ![id].threads = Joined(@, Opened(text)),
                                                ![id].authors = @ \cup ids]
         /\ summaries' = Upsert(summaries, id, SetOf(summaries, id) \cup {marks.entity + 1})
         /\ drafts' = Without(drafts, {id})
         /\ acked' = Upsert(acked, id, SetOf(acked, id) \cup ids)
  /\ Finish(q)
  /\ UNCHANGED <<reviews, opens>>

(* Fault: the draft goes first.                                            *)
BreakSubmitDraftFirst(q) ==
  /\ At(q, "submitting")
  /\ jobs[q].review \in DOMAIN envelopes
  /\ drafts' = Without(drafts, {jobs[q].review})
  /\ Finish(q)
  /\ UNCHANGED <<reviews, marks, envelopes, threads, summaries, opens, acked>>

(* The same, when one of those writes fails, or the machine does: only     *)
(* what came before it is on disk, and the client is told of no success.   *)
BreakSubmit(q) ==
  /\ At(q, "submitting")
  /\ LET id == jobs[q].review
         input == jobs[q].input
         ids == SubmitIds(input)
     IN  /\ ids \subseteq Entities
         /\ id \in DOMAIN envelopes
         /\ MintMany(1 + Cardinality(input))
         /\ \E text \in Bijection(ids, input), last \in ids, reached \in 0..2 :
              LET put == Restrict(text, {c \in ids : reached > 0 \/ c < last}) IN
              /\ threads' = Upsert(threads, id, Joined(RowsOf(threads, id), Opened(put)))
              /\ summaries' = IF reached = 0 THEN summaries
                  ELSE Upsert(summaries, id, SetOf(summaries, id) \cup {marks.entity + 1})
              /\ envelopes' = IF reached < 2 THEN envelopes
                  ELSE [envelopes EXCEPT ![id].threads = Joined(@, Opened(text)),
                                         ![id].authors = @ \cup ids]
  /\ Finish(q)
  /\ UNCHANGED <<reviews, drafts, opens, acked>>

(* replyToLocalThread up to its await.                                     *)
StartReply(q, id, t, text) ==
  /\ Idle(q) /\ id \in DOMAIN reviews /\ ~ Archived(id)
  /\ id \in DOMAIN envelopes /\ t \in DOMAIN envelopes[id].threads
  /\ Start(q, [NewJob(id, "replying") EXCEPT !.thread = t, !.input = {text}])
  /\ UNCHANGED <<tables, opens, acked>>

(* Fault: only the envelope is written, not the thread's own row.          *)
PersistEnvelopeAlone(id, thread, t, by) ==
  /\ UNCHANGED threads
  /\ envelopes' = [envelopes EXCEPT ![id].threads[t] = thread, ![id].authors = @ \cup by]

(* persistThread: the thread's row, then the envelope with it in place.    *)
PersistThread(id, thread, t, by) ==
  /\ threads' = Upsert(threads, id, Upsert(RowsOf(threads, id), t, thread))
  /\ envelopes' = [envelopes EXCEPT ![id].threads[t] = thread, ![id].authors = @ \cup by]

StillHolds(id, t) == id \in DOMAIN envelopes /\ t \in DOMAIN envelopes[id].threads

(* After the await: the thread is looked up again, in the envelope, and    *)
(* written back with the reply at its end.                                 *)
FinishReply(q) ==
  /\ At(q, "replying")
  /\ LET id == jobs[q].review
         t == jobs[q].thread
         c == marks.entity + 1
     IN  /\ c \in Entities /\ StillHolds(id, t)
         /\ MintMany(1)
         /\ \E text \in jobs[q].input :
              PersistThread(id, [envelopes[id].threads[t] EXCEPT
                                   !.comments = Upsert(@, c, text)], t, {c})
         /\ acked' = Upsert(acked, id, SetOf(acked, id) \cup {c})
  /\ Finish(q)
  /\ UNCHANGED <<reviews, summaries, drafts, opens>>

(* The reply's row is written and its envelope is not.                     *)
BreakReply(q) ==
  /\ At(q, "replying")
  /\ LET id == jobs[q].review
         t == jobs[q].thread
         c == marks.entity + 1
     IN  /\ c \in Entities /\ StillHolds(id, t)
         /\ MintMany(1)
         /\ \E text \in jobs[q].input :
              threads' = Upsert(threads, id, Upsert(RowsOf(threads, id), t,
                [envelopes[id].threads[t] EXCEPT !.comments = Upsert(@, c, text)]))
  /\ Finish(q)
  /\ UNCHANGED <<reviews, envelopes, summaries, drafts, opens, acked>>

(* The write is refused after its await: the head moved or could not be    *)
(* resolved, or what it was aimed at is gone.  Ids that a refused submit   *)
(* had minted are wasted; the model does not count them.                   *)
RefuseWrite(q) ==
  /\ At(q, "submitting") \/ At(q, "replying")
  /\ Finish(q)
  /\ UNCHANGED <<tables, opens, acked>>

(* resolveLocalThread, and addLocalReaction, which has the same shape: no  *)
(* await, the archive check first.                                         *)
ResolveThread(id, t) ==
  /\ id \in DOMAIN reviews /\ ~ Archived(id) /\ StillHolds(id, t)
  /\ PersistThread(id, [envelopes[id].threads[t] EXCEPT !.resolved = ~ @], t, {})
  /\ UNCHANGED <<reviews, marks, summaries, drafts, jobs, opens, acked>>

(* The client saves its whole draft, or discards it.                       *)
SaveDraft(id, texts) ==
  /\ id \in DOMAIN reviews
  /\ EditsMidSubmit \/ \A q \in DOMAIN jobs : ~ (At(q, "submitting") /\ jobs[q].review = id)
  /\ drafts' = Upsert(drafts, id, texts)
  /\ UNCHANGED <<reviews, marks, envelopes, threads, summaries, jobs, opens, acked>>

DiscardDraft(id) ==
  /\ id \in DOMAIN reviews
  /\ drafts' = Without(drafts, {id})
  /\ UNCHANGED <<reviews, marks, envelopes, threads, summaries, jobs, opens, acked>>

(* deleteLocalReview: refused while a draft of the review holds text; else *)
(* the rows of all its tables go in one transaction.                       *)
DeleteLocalReview(id) ==
  /\ id \in DOMAIN reviews /\ Draft(id) = {}
  /\ reviews' = Without(reviews, {id})
  /\ envelopes' = Without(envelopes, {id})
  /\ threads' = Without(threads, {id})
  /\ summaries' = Without(summaries, {id})
  /\ drafts' = Without(drafts, {id})
  /\ acked' = Without(acked, {id})
  /\ UNCHANGED <<marks, jobs, opens>>

(* On GitHub a pull request is opened over a pair, or closed.              *)
OpenPull(p, n) ==
  /\ \A other \in Pairs : n \notin opens[other]
  /\ opens' = [opens EXCEPT ![p] = @ \cup {n}]
  /\ UNCHANGED <<tables, jobs, acked>>

ClosePull(p, n) ==
  /\ n \in opens[p]
  /\ opens' = [opens EXCEPT ![p] = @ \ {n}]
  /\ UNCHANGED <<tables, jobs, acked>>

(* The daemon is stopped and started again.                                *)
Restart ==
  /\ jobs' = EmptyTable
  /\ UNCHANGED <<tables, opens, acked>>

----------------------------------------------------------------------------

(* What the daemon does for a request it has started.                      *)
Advance(q) ==
  \/ Deadline(q) \/ MarkArchived(q) \/ EnterSync(q) \/ LandSync(q) \/ FailSync(q)
  \/ FinishSubmit(q) \/ BreakSubmit(q) \/ FinishReply(q) \/ BreakReply(q) \/ RefuseWrite(q)

Begin(q) ==
  \E id \in Ids :
    \/ StartSync(q, id) \/ StartSubmit(q, id)
    \/ \E t \in Entities, text \in Texts : StartReply(q, id, t, text)

Act ==
  \E id \in Ids :
    \/ \E t \in Entities : ResolveThread(id, t)
    \/ \E texts \in SUBSET Texts : SaveDraft(id, texts)
    \/ DiscardDraft(id) \/ DeleteLocalReview(id)

Next ==
  \/ \E p \in Pairs : CreateLocalReview(p)
  \/ \E q \in Requests : Begin(q) \/ ServeListing(q) \/ RejectListing(q) \/ Advance(q)
  \/ Act
  \/ \E p \in Pairs, n \in Pulls : OpenPull(p, n) \/ ClosePull(p, n)
  \/ Restart

Spec == Init /\ [][Next]_vars

(* The event loop runs what it can run, timers fire and local git exits.   *)
(* GitHub promises nothing: a listing may stay unanswered for ever.        *)
FairSpec == Spec /\ \A q \in Requests : WF_vars(Advance(q))

----------------------------------------------------------------------------

Written(rows) == UNION {{rows[t].comments[c] : c \in DOMAIN rows[t].comments} : t \in DOMAIN rows}

(* Types: rows, ids and what requests carry are of their kinds.            *)
TypeOK ==
  /\ IsTable(reviews, Ids, Row)
  /\ marks \in [review: 0..MaxReviews, entity: 0..MaxEntities]
  /\ DOMAIN envelopes \subseteq Ids /\ DOMAIN threads \subseteq Ids
  /\ \A id \in DOMAIN envelopes :
       /\ envelopes[id].pair \in Pairs /\ envelopes[id].open \in BOOLEAN
       /\ \A t \in DOMAIN envelopes[id].threads : IsThread(envelopes[id].threads[t])
       /\ envelopes[id].authors \subseteq Entities
  /\ \A id \in DOMAIN threads : \A t \in DOMAIN threads[id] : IsThread(threads[id][t])
  /\ IsTable(summaries, Ids, SUBSET Entities)
  /\ IsTable(drafts, Ids, SUBSET Texts)
  /\ DOMAIN jobs \subseteq Requests
  /\ \A q \in DOMAIN jobs : jobs[q].step \in Steps /\ jobs[q].review \in Ids
  /\ opens \in [Pairs -> SUBSET Pulls]

(* A review never shows the snapshot of another: ids are not reissued, so  *)
(* what a late sync of a deleted review leaves behind belongs to nobody.   *)
EnvelopeBelongs ==
  \A id \in DOMAIN reviews \cap DOMAIN envelopes : envelopes[id].pair = reviews[id].pair

(* What the snapshot of a live review shows is on disk in the review's own *)
(* rows too: any comment of the envelope is in the row of its thread,      *)
(* whatever write failed half-way, so the next sync, which rebuilds the    *)
(* envelope from the rows, cannot make it disappear.  (Archived reviews    *)
(* are left out: see AcknowledgedStays and the catch-up.)                  *)
ShownIsOnDisk ==
  \A id \in DOMAIN reviews \cap DOMAIN envelopes : ~ Archived(id) =>
    \A t \in DOMAIN envelopes[id].threads :
      /\ t \in DOMAIN RowsOf(threads, id)
      /\ DOMAIN envelopes[id].threads[t].comments \subseteq DOMAIN threads[id][t].comments

(* A comment whose write was answered with success stays in the snapshot   *)
(* and keeps its author, however syncs, writes and restarts interleave.    *)
AcknowledgedStays ==
  \A id \in DOMAIN acked \cap DOMAIN reviews :
    /\ id \in DOMAIN envelopes
    /\ \A c \in acked[id] :
         /\ \E t \in DOMAIN envelopes[id].threads : c \in DOMAIN envelopes[id].threads[t].comments
         /\ c \in envelopes[id].authors

(* The number a review is archived under is written once: of two checks    *)
(* that raced, the second does not overwrite it (... archived_pr IS NULL). *)
ArchiveNumberStays ==
  [][\A id \in DOMAIN reviews \cap DOMAIN reviews' :
       Archived(id) => reviews'[id].archived = reviews[id].archived]_vars

(* Text leaves a draft by the reviewer's hand, or by landing in a thread;  *)
(* no failure, no delete and no race takes it (README: "The draft survives *)
(* everything until it lands").                                            *)
TextLeavesByHandOrLands ==
  [][\/ \E id \in Ids : DiscardDraft(id) \/ \E texts \in SUBSET Texts : SaveDraft(id, texts)
     \/ \A id \in DOMAIN drafts : \A text \in drafts[id] :
          text \in SetOf(drafts', id) \/ text \in Written(RowsOf(threads', id))]_vars

(* Once the snapshot of an archived review says so, it stands: "the review *)
(* freezes at the sync that found the PR" (LOCAL_REVIEWS.md).              *)
FrozenStays ==
  [][\A id \in DOMAIN reviews \cap DOMAIN reviews' \cap DOMAIN envelopes :
       Archived(id) /\ ~ envelopes[id].open => envelopes'[id] = envelopes[id]]_vars

(* A review a pull request covers is read-only (local-writes.ts, D1): no   *)
(* thread of it changes.                                                   *)
ArchivedIsReadOnly ==
  [][\A id \in DOMAIN reviews \cap DOMAIN reviews' :
       Archived(id) => RowsOf(threads', id) = RowsOf(threads, id)]_vars

(* Every request is answered, whatever GitHub does: the archive check has  *)
(* a deadline, and no other await depends on the network.                  *)
EveryRequestEnds ==
  \A q \in Requests : (q \in DOMAIN jobs) ~> (q \notin DOMAIN jobs)

=============================================================================
