-------------------------- MODULE OutOfBandWrites --------------------------
(***************************************************************************)
(* The detector of writes made past revu: what one pull request shows on   *)
(* GitHub against what the journal can account for.                        *)
(*                                                                         *)
(* Review ids, comment ids and issue-comment ids are numbers of three      *)
(* spaces, and the same number may occur in each.                          *)
(***************************************************************************)
EXTENDS Integers

(* A write endpoint either created the artifact it journals or touched one *)
(* that was there.                                                         *)
Endpoints == {"submitReview", "submitReviewComment", "replyToThread",
              "resolveThread", "addReaction"}

IdsOf(rows, endpoints) == {row.id : row \in {r \in rows : r.endpoint \in endpoints}}

(* Fault: every comment a row names counts as created by revu.             *)
SplitTouchAbsolves(rows) ==
  [reviewIds         |-> IdsOf(rows, {"submitReview"}),
   createdCommentIds |-> IdsOf(rows, Endpoints \ {"submitReview"}),
   touchedIds        |-> {}]
splitJournaledIds(rows) ==
  [reviewIds         |-> IdsOf(rows, {"submitReview"}),
   createdCommentIds |-> IdsOf(rows, {"replyToThread"}),
   touchedIds        |-> IdsOf(rows, Endpoints \ {"submitReview", "replyToThread"})]

(* GitHub wraps a lone reply in a review of its own; the journalled reply  *)
(* vouches for the review it names as its parent.                          *)
(* Fault: the wrapping review is judged by its own id alone.               *)
VouchedByNobody(journaled, comments) == {}
VouchedByReplies(journaled, comments) ==
  {c.reviewId : c \in {d \in comments : d.reviewId # 0 /\ d.id \in journaled.createdCommentIds}}

(* found: what each of the three listings showed.                          *)
outOfBand(journaled, found) ==
  LET bots(listed) == {a \in listed : a.author = "bot"}
      vouched == VouchedByReplies(journaled, found.reviewComments)
  IN      {a \in bots(found.reviews) : a.id \notin journaled.reviewIds \cup vouched}
     \cup {a \in bots(found.reviewComments) :
             /\ a.id \notin journaled.createdCommentIds
             /\ a.reviewId = 0 \/ a.reviewId \notin journaled.reviewIds}
     \cup bots(found.issueComments)

(* The informational inverse: journalled ids that match nothing listed.    *)
unmatchedJournal(journaled, found) ==
  LET comments == {c.id : c \in found.reviewComments \cup found.issueComments}
  IN      {<<"review", i>> : i \in journaled.reviewIds \ {r.id : r \in found.reviews}}
     \cup {<<"comment", i>> :
             i \in (journaled.createdCommentIds \cup journaled.touchedIds) \ comments}

detectOutOfBandWrites(journaled, found) ==
  [outOfBand        |-> outOfBand(journaled, found),
   unmatchedJournal |-> unmatchedJournal(journaled, found)]

=============================================================================
