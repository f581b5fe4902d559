---------------------------- MODULE GithubWrites ----------------------------
(***************************************************************************)
(* The writes of a daemon to GitHub: submit a review, reply to a thread,   *)
(* resolve a thread, react to a comment, and what each records.            *)
(*                                                                         *)
(* A request is a process; a step is what it runs between two calls to     *)
(* GitHub.  GitHub applies a call at a moment of its own, and the answer   *)
(* may be lost before or after that.  A broker's daemon journals the id    *)
(* of every write GitHub confirms; a direct daemon journals nothing.       *)
(***************************************************************************)
EXTENDS Integers, FiniteSets, Sequences, Tables

CONSTANTS
  Slots,        \* request slots of the daemon
  MaxHeads,     \* bound: commits the pull request's branch shows, one after the other
  Summaries,    \* what a review says besides its inline comments: verdict, body
  Comments,     \* inline comments: path, side, lines and body
  Approving,    \* the summaries whose verdict is not COMMENT
  Viewer,       \* the login the daemon believes it writes as
  Author,       \* the login that opened the pull request
  Broker,       \* is every write stamped and journalled?
  SerialSubmits,\* a submit starts only when none is being served
  MaxReviews,   \* bound: reviews ever posted
  MaxReplies,   \* bound: replies ever posted
  MaxDrafts,    \* bound: drafts the reviewer starts
  None

ASSUME WritesAssumption ==
  /\ Approving \subseteq Summaries
  /\ Broker \in BOOLEAN /\ SerialSubmits \in BOOLEAN
  /\ MaxHeads \in Nat \ {0}
  /\ MaxReviews \in Nat /\ MaxReplies \in Nat /\ MaxDrafts \in Nat
  /\ None \notin Slots

VARIABLES
  head,     \* GitHub: the branch's commit
  reviews,  \* GitHub: the reviews, in the order they landed
  thread,   \* GitHub: replies, resolution and reaction of the one thread
  draft,    \* table drafts: the human's row for this pull request
  journal,  \* table audit_log: the ids recorded
  jobs,     \* slot -> the request it is serving
  calls,    \* POSTs on their way to GitHub or answered by it: slot -> call
  started,   \* history: drafts started so far
  confirmed  \* history: the ids GitHub confirmed to requests that were not
             \* answered with the failure to record them

github == <<head, reviews, thread>>
disk   == <<draft, journal>>
vars   == <<head, reviews, thread, draft, journal, jobs, calls, started, confirmed>>

Heads == 1..MaxHeads

(* What a human wrote.  `of` numbers the draft, so that two drafts that    *)
(* happen to say the same are two intentions.                              *)
Says == [summary: Summaries, comments: SUBSET Comments]
Draft == [of: 1..MaxDrafts, says: Says]
Review == [author: {Viewer}, commit: Heads, says: Says, of: 1..MaxDrafts]

(* Ids live in the id-space of their kind: a review's inline comment has   *)
(* one of its own.                                                         *)
ReviewId(i) == [kind |-> "review", id |-> i, comment |-> None]
CommentId(i, c) == [kind |-> "comment", id |-> i, comment |-> c]
ReplyId(i) == [kind |-> "reply", id |-> i, comment |-> None]
RootId(endpoint) == [kind |-> endpoint, id |-> 1, comment |-> None]

NewJob(step) ==
  [step |-> step, draft |-> None, expected |-> 0, commit |-> 0,
   candidates |-> {}, review |-> 0]
At(q, step) == q \in DOMAIN jobs /\ jobs[q].step = step
End(q) == jobs' = Without(jobs, {q}) /\ calls' = Without(calls, {q})
Submits == {q \in DOMAIN jobs : jobs[q].draft # None}

(* recordWrite: a direct daemon's decorator keeps nothing.                 *)
Recorded(ids) == journal \cup IF Broker THEN ids ELSE {}

----------------------------------------------------------------------------

Init ==
  /\ head = 1
  /\ reviews = <<>>
  /\ thread = [replies |-> 0, resolved |-> FALSE, reacted |-> FALSE]
  /\ draft = None /\ journal = {}
  /\ jobs = EmptyTable /\ calls = EmptyTable
  /\ started = 0 /\ confirmed = {}

(* PUT of the draft: the row is replaced whole.  While a submit is served  *)
(* the reviewer leaves the draft alone (DraftPersistence has the races).   *)
PutDraft(says) ==
  /\ Submits = {}
  /\ \/ draft = None /\ started < MaxDrafts /\ started' = started + 1
     \/ draft # None /\ started' = started
  /\ draft' = [of |-> started', says |-> says]
  /\ UNCHANGED <<github, journal, jobs, calls, confirmed>>

DiscardDraft ==
  /\ Submits = {} /\ draft # None
  /\ draft' = None
  /\ UNCHANGED <<github, journal, jobs, calls, started, confirmed>>

(* POST of the draft against the head the client last saw.                 *)
StartSubmit(q, h) ==
  /\ h <= head
  /\ q \notin DOMAIN jobs /\ draft # None
  /\ SerialSubmits => Submits = {}
  /\ jobs' = Upsert(jobs, q, [NewJob("guard") EXCEPT !.draft = draft, !.expected = h])
  /\ UNCHANGED <<github, disk, calls, started, confirmed>>

(* A request ends with nothing written: GitHub could not be reached, or    *)
(* answered an error.                                                      *)
FailCall(q) ==
  /\ q \in DOMAIN jobs /\ jobs[q].step \in {"guard", "list", "match"}
  /\ End(q)
  /\ UNCHANGED <<github, disk, started, confirmed>>

(* 1. Head guard: a mismatch is the value head_moved, and nothing is sent. *)
HeadMoved(q) ==
  /\ At(q, "guard") /\ head # jobs[q].expected
  /\ End(q)
  /\ UNCHANGED <<github, disk, started, confirmed>>

(* 2. Approve gating: nobody approves a pull request of their own.         *)
CanApprove == Author # Viewer
Forbidden(q) ==
  /\ At(q, "guard") /\ head = jobs[q].expected
  /\ jobs[q].draft.says.summary \in Approving /\ ~CanApprove
  /\ End(q)
  /\ UNCHANGED <<github, disk, started, confirmed>>

PassGuard(q) ==
  /\ At(q, "guard") /\ head = jobs[q].expected
  /\ jobs[q].draft.says.summary \in Approving => CanApprove
  /\ jobs' = [jobs EXCEPT ![q].commit = head, ![q].step = "list"]
  /\ UNCHANGED <<github, disk, calls, started, confirmed>>

(* The review-level half of the retry check: who, which commit, and the    *)
(* verdict and body as posted.                                             *)
ReviewMatches(review, job) ==
  /\ review.author = Viewer
  /\ review.commit = job.commit
  /\ review.says.summary = job.draft.says.summary

(* The comment-level half: the posted comments, as placed when posted, are *)
(* exactly those of this submit.                                           *)
CommentsMatch(review, job) == review.says.comments = job.draft.says.comments

(* 4. The POST leaves once no candidate is left.                           *)
Pursue(q, candidates) ==
  /\ jobs' = [jobs EXCEPT ![q].candidates = candidates,
                          ![q].step = IF candidates = {} THEN "posting" ELSE "match"]
  /\ calls' = IF candidates # {} THEN calls
              ELSE Upsert(calls, q, [landed |-> FALSE,
                     review |-> [author |-> Viewer, commit |-> jobs[q].commit,
                                 says |-> jobs[q].draft.says, of |-> jobs[q].draft.of]])

(* Fault: nothing is looked up, every submit posts.                        *)
PostUnchecked(q) ==
  /\ At(q, "list")
  /\ Pursue(q, {})
  /\ UNCHANGED <<github, disk, started, confirmed>>

(* 3. Retry check, first call: every page of the pull request's reviews.   *)
ListReviews(q) ==
  /\ At(q, "list")
  /\ Pursue(q, {i \in DOMAIN reviews : ReviewMatches(reviews[i], jobs[q])})
  /\ UNCHANGED <<github, disk, started, confirmed>>

(* The comments of the next candidate, in listing order, are not these.    *)
Candidate(q) == CHOOSE i \in jobs[q].candidates : \A j \in jobs[q].candidates : i <= j
RejectCandidate(q) ==
  /\ At(q, "match") /\ ~CommentsMatch(reviews[Candidate(q)], jobs[q])
  /\ Pursue(q, jobs[q].candidates \ {Candidate(q)})
  /\ UNCHANGED <<github, disk, started, confirmed>>

(* The write is recorded, then the inline comments' ids are read back.     *)
(* Fault: a review found by the retry check is not recorded again.         *)
AdoptUnrecorded(q, i) ==
  /\ jobs' = [jobs EXCEPT ![q].review = i, ![q].step = "comments"]
  /\ calls' = Without(calls, {q})
  /\ confirmed' = confirmed \cup {ReviewId(i)}
  /\ UNCHANGED journal
Adopt(q, i) ==
  /\ journal' = Recorded({ReviewId(i)})
  /\ jobs' = [jobs EXCEPT ![q].review = i, ![q].step = "comments"]
  /\ calls' = Without(calls, {q})
  /\ confirmed' = confirmed \cup {ReviewId(i)}

(* A full match: the review did land, on a first attempt whose answer was  *)
(* lost.  From here it is handled like a fresh success.                    *)
AcceptCandidate(q) ==
  /\ At(q, "match") /\ CommentsMatch(reviews[Candidate(q)], jobs[q])
  /\ Adopt(q, Candidate(q))
  /\ UNCHANGED <<github, draft, started>>

(* GitHub creates the review.  A commit that is no longer the head is      *)
(* accepted as long as its comments can be placed.                         *)
LandReview(q) ==
  /\ q \in DOMAIN calls /\ ~calls[q].landed /\ Len(reviews) < MaxReviews
  /\ reviews' = Append(reviews, calls[q].review)
  /\ calls' = [calls EXCEPT ![q].landed = TRUE]
  /\ jobs' = [jobs EXCEPT ![q].review = Len(reviews')]
  /\ UNCHANGED <<head, thread, disk, started, confirmed>>

(* 422: a comment could not be placed on the diff the push left behind.    *)
(* The request ends as a conflict.                                         *)
(* Fault: the draft of a refused review is dropped.                        *)
ConflictDropsDraft(q) ==
  /\ At(q, "posting") /\ ~calls[q].landed
  /\ head # jobs[q].commit /\ jobs[q].draft.says.comments # {}
  /\ End(q)
  /\ draft' = None
  /\ UNCHANGED <<github, journal, started, confirmed>>
Conflict(q) ==
  /\ At(q, "posting") /\ ~calls[q].landed
  /\ head # jobs[q].commit /\ jobs[q].draft.says.comments # {}
  /\ End(q)
  /\ UNCHANGED <<github, disk, started, confirmed>>

(* The call fails at the daemon, before GitHub acted or after it.          *)
LoseAnswer(q) ==
  /\ At(q, "posting")
  /\ End(q)
  /\ UNCHANGED <<github, disk, started, confirmed>>

ReviewConfirmed(q) ==
  /\ At(q, "posting") /\ calls[q].landed
  /\ Adopt(q, jobs[q].review)
  /\ UNCHANGED <<github, draft, started>>

(* The journal's row could not be written: the request ends as             *)
(* persist_failed with the review on GitHub and the draft kept.            *)
RecordFails(q) ==
  /\ Broker
  /\ \/ At(q, "posting") /\ calls[q].landed
     \/ At(q, "match") /\ CommentsMatch(reviews[Candidate(q)], jobs[q])
  /\ End(q)
  /\ UNCHANGED <<github, disk, started, confirmed>>

(* The comment ids are read page by page and journalled; whatever goes     *)
(* wrong there is logged and forgotten, so any part of them may be.  Then, *)
(* and only then, the draft's row goes and the client is answered `ok`.    *)
FinishSubmit(q) ==
  /\ At(q, "comments")
  /\ \E read \in SUBSET jobs[q].draft.says.comments :
       journal' = Recorded({CommentId(jobs[q].review, c) : c \in read})
  /\ draft' = None
  /\ End(q)
  /\ UNCHANGED <<github, started, confirmed>>

(* The row could not be deleted: the request fails with the review posted. *)
DeleteFails(q) ==
  /\ At(q, "comments")
  /\ End(q)
  /\ UNCHANGED <<github, disk, started, confirmed>>

(* The other three writes are one POST each.  The thread and the comment   *)
(* are found in the cached snapshot before anything is sent.               *)
Effects == [reply   |-> [thread EXCEPT !.replies = @ + 1],
            resolve |-> [thread EXCEPT !.resolved = TRUE],
            unresolve |-> [thread EXCEPT !.resolved = FALSE],
            react   |-> [thread EXCEPT !.reacted = TRUE]]
StartWrite(q, verb) ==
  /\ q \notin DOMAIN jobs
  /\ jobs' = Upsert(jobs, q, NewJob(verb))
  /\ UNCHANGED <<github, disk, calls, started, confirmed>>

LandWrite(q) ==
  /\ q \in DOMAIN jobs /\ jobs[q].step \in DOMAIN Effects /\ q \notin DOMAIN calls
  /\ jobs[q].step = "reply" => thread.replies < MaxReplies
  /\ thread' = Effects[jobs[q].step]
  /\ calls' = Upsert(calls, q, [landed |-> TRUE, review |-> None])
  /\ jobs' = [jobs EXCEPT ![q].review = thread'.replies]
  /\ UNCHANGED <<head, reviews, disk, started, confirmed>>

WrittenId(q) ==
  IF jobs[q].step = "reply" THEN ReplyId(jobs[q].review) ELSE RootId(jobs[q].step)

(* A reaction is recorded when its POST is confirmed, before the rollup is *)
(* read back; the read-back may still fail the request.                    *)
(* Fault: it is recorded after the read-back.                              *)
RecordAfterReadBack(q) ==
  /\ q \in DOMAIN jobs /\ jobs[q].step \in DOMAIN Effects /\ q \in DOMAIN calls
  /\ \/ journal' = Recorded({WrittenId(q)}) /\ confirmed' = confirmed \cup {WrittenId(q)}
     \/ /\ jobs[q].step = "react"
        /\ journal' = journal /\ confirmed' = confirmed \cup {WrittenId(q)}
     \/ Broker /\ UNCHANGED <<journal, confirmed>>
  /\ End(q)
  /\ UNCHANGED <<github, draft, started>>
WriteConfirmed(q) ==   \* the last case: the row was refused, or a resolved
                       \* thread came back without a comment to name
  /\ q \in DOMAIN jobs /\ jobs[q].step \in DOMAIN Effects /\ q \in DOMAIN calls
  /\ \/ journal' = Recorded({WrittenId(q)}) /\ confirmed' = confirmed \cup {WrittenId(q)}
     \/ Broker /\ UNCHANGED <<journal, confirmed>>
  /\ End(q)
  /\ UNCHANGED <<github, draft, started>>

LoseWrite(q) ==
  /\ q \in DOMAIN jobs /\ jobs[q].step \in DOMAIN Effects
  /\ End(q)
  /\ UNCHANGED <<github, disk, started, confirmed>>

(* The environment: a push, which makes a commit of its own, and the       *)
(* daemon's process ending.                                                *)
Push ==
  /\ head < MaxHeads /\ head' = head + 1
  /\ UNCHANGED <<reviews, thread, disk, jobs, calls, started, confirmed>>
Restart ==
  /\ jobs # EmptyTable
  /\ jobs' = EmptyTable /\ calls' = EmptyTable
  /\ UNCHANGED <<github, disk, started, confirmed>>

SubmitStep(q) ==
  \/ \E h \in Heads : StartSubmit(q, h)
  \/ FailCall(q) \/ HeadMoved(q) \/ Forbidden(q) \/ PassGuard(q)
  \/ ListReviews(q) \/ RejectCandidate(q) \/ AcceptCandidate(q)
  \/ LandReview(q) \/ Conflict(q) \/ LoseAnswer(q) \/ ReviewConfirmed(q)
  \/ RecordFails(q) \/ FinishSubmit(q) \/ DeleteFails(q)

WriteStep(q) ==
  \/ \E verb \in DOMAIN Effects : StartWrite(q, verb)
  \/ LandWrite(q) \/ WriteConfirmed(q) \/ LoseWrite(q)

Next ==
  \/ \E says \in Says : PutDraft(says)
  \/ DiscardDraft
  \/ \E q \in Slots : SubmitStep(q) \/ WriteStep(q)
  \/ Push
  \/ Restart

Spec == Init /\ [][Next]_vars

----------------------------------------------------------------------------

TypeOK ==
  /\ head \in Heads
  /\ reviews \in Seq(Review) /\ Len(reviews) <= MaxReviews
  /\ thread \in [replies: 0..MaxReplies, resolved: BOOLEAN, reacted: BOOLEAN]
  /\ draft \in Draft \cup {None}
  /\ DOMAIN calls \subseteq DOMAIN jobs /\ DOMAIN jobs \subseteq Slots
  /\ started \in 0..MaxDrafts

(* writes.ts: "Submit is idempotent under a retry-after-timeout": whatever *)
(* is lost, failed or retried, one draft posted against one commit is one  *)
(* review on GitHub.                                                       *)
PostedOncePerHead ==
  \A i, j \in DOMAIN reviews :
    reviews[i].of = reviews[j].of /\ reviews[i].commit = reviews[j].commit
      /\ reviews[i].says = reviews[j].says => i = j

(* The same sentence without the commit: a draft becomes one review.       *)
PostedOnce ==
  \A i, j \in DOMAIN reviews :
    reviews[i].of = reviews[j].of /\ reviews[i].says = reviews[j].says => i = j

(* "A draft SURVIVES everything": a submit that makes the draft's row go   *)
(* leaves a review on GitHub that says what the row said.                  *)
DraftGoesWithItsReview ==
  [][\A q \in DOMAIN jobs \ DOMAIN jobs' :
       draft # None /\ draft' = None =>
         \E i \in DOMAIN reviews : reviews[i].says = draft.says]_vars

(* "The audit journal must cover every write that reached GitHub,          *)
(* including one whose response was lost": what GitHub confirmed to this   *)
(* daemon is in the journal, unless the request was answered with the      *)
(* failure to record it.                                                   *)
ConfirmedIsJournalled == Broker => confirmed \subseteq journal
=============================================================================
