------------------------------ MODULE Reconcile ------------------------------
(****************************************************************************)
(* A review whose pull request moves under it: the draft and the anchors of *)
(* its comments, the compare the store holds, the compare the tab shows,    *)
(* and the dialogs that take a refused submit through sync, reconcile,      *)
(* decisions and apply.  The review is of one file.  GitHub, the store and  *)
(* another tab move between any two requests of the tab that is modelled.   *)
(*                                                                          *)
(* The parts that have modules of their own are taken whole: a submit       *)
(* posts against the head it expects or answers that the head moved         *)
(* (GithubWrites), and a flush saves the draft (DraftPersistence).          *)
(****************************************************************************)
EXTENDS Anchor, Tables

CONSTANTS Keys,       \* the local keys of comments
          Texts,      \* the texts of lines
          Heads,      \* what a push may leave of the file: [lines, renamed]
          Trees,      \* what a merge base may hold of it: [lines, listed]
          MaxMoves    \* bound: the times the compare moves

\* A file that exists has a line; one that was renamed away is gone.
ASSUME FilesAssumption ==
  /\ Heads \subseteq [lines : Seq(Texts), renamed : BOOLEAN]
  /\ \A head \in Heads : head.renamed => head.lines = NoBlob
  /\ Trees \subseteq [lines : Seq(Texts), listed : BOOLEAN]
  /\ MaxMoves \in Nat

VARIABLES commits,  \* [lines, renamed] of each head the branch has had
          bases,    \* [lines, listed] of each merge base it is compared with
          stored,   \* the store's snapshot: [compare, gone]
          cached,   \* the compare the tab has loaded: [base, head]
          draft,    \* NoDraft, or [head, key, comments]
          view,     \* "files", or the step of the dialogs the tab is at
          report,   \* NoReport, or the dialog's report
          request,  \* NoRequest, or the submit in flight
          posted    \* the comments of the submitted review

vars == <<commits, bases, stored, cached, draft, view, report, request, posted>>

NoDraft == [head |-> 0]
NoReport == [head |-> 0]
NoRequest == [by |-> "nobody"]

Sides == {"LEFT", "RIGHT"}

\* What GitHub compares now.
Latest == [base |-> Len(bases), head |-> Len(commits)]

\* A compare as the file's path sees it.  Where GitHub cuts the listing of the
\* base tree short, the blob index has no base side for the file.
CompareOf(compare) ==
  LET before == bases[compare.base].lines
      after  == commits[compare.head].lines
  IN  [status |-> IF commits[compare.head].renamed /\ before # NoBlob THEN "renamed"
                  ELSE IF before = after THEN "unlisted"
                  ELSE IF before = NoBlob THEN "added"
                  ELSE IF after = NoBlob THEN "removed"
                  ELSE "modified",
       base   |-> IF bases[compare.base].listed THEN before ELSE NoBlob,
       head   |-> after]

\* The lines a comment on this side of the loaded compare is shown on.
Shown(side) == SelectAnchorBlob(CompareOf(cached), side)

Init ==
  /\ \E head \in Heads : commits = <<head>>
  /\ \E tree \in Trees : bases = <<tree>>
  /\ cached = Latest
  /\ stored = [compare |-> Latest, gone |-> {}]
  /\ draft = NoDraft
  /\ view = "files"
  /\ report = NoReport
  /\ request = NoRequest
  /\ posted = {}

-----------------------------------------------------------------------------
(* GitHub and the store.  Nothing is modelled after the review is posted. *)

tab == <<cached, draft, view, report, request, posted>>

MayMove == posted = {} /\ Len(commits) + Len(bases) < MaxMoves + 2

\* A push: the file is rewritten, removed, or renamed away.
Push ==
  /\ MayMove
  /\ \E head \in Heads : commits' = Append(commits, head)
  /\ UNCHANGED <<bases, stored, tab>>

\* The base branch is changed or rewritten under the same head.
MoveBase ==
  /\ MayMove
  /\ \E tree \in Trees : bases' = Append(bases, tree)
  /\ UNCHANGED <<commits, stored, tab>>

\* The snapshot of a sync that ends now.
Synced == stored' = [compare |-> Latest, gone |-> {}]

\* The sync of another tab of the same daemon.
OtherTabSync ==
  /\ posted = {}
  /\ Synced
  /\ stored' # stored
  /\ UNCHANGED <<commits, bases, tab>>

\* A blob that a comment depends on leaves the store, or its sync never got it.
LoseBlob ==
  /\ posted = {} /\ draft # NoDraft
  /\ \E side \in {draft.comments[k].side : k \in DOMAIN draft.comments} \ stored.gone :
       stored' = [stored EXCEPT !.gone = @ \cup {side}]
  /\ UNCHANGED <<commits, bases, tab>>

-----------------------------------------------------------------------------
(* The files page and the review bar. *)

\* useSyncPull: the snapshot of the sync replaces the one the tab shows.
SyncTab ==
  /\ Synced
  /\ cached' = Latest

\* Re-sync on the files page, in the header or in the palette.
Resync ==
  /\ view = "files" /\ request = NoRequest /\ posted = {}
  /\ SyncTab
  /\ cached' # cached
  /\ UNCHANGED <<commits, bases, draft, view, report, request, posted>>

\* ensureDraft, then upsertComment: the draft's head is the one it is born on.
WriteComment(k) ==
  /\ view = "files" /\ request = NoRequest /\ posted = {}
  /\ \E side \in Sides : \E line \in 1..Len(Shown(side)) : \E start \in {NoStart} \cup 1..(line - 1) :
       LET comment == [side |-> side, line |-> line, start |-> start,
                       anchor |-> CaptureAnchor(Shown(side), line, start)]
           born == IF draft = NoDraft
                   THEN [head |-> cached.head, key |-> <<cached.base, cached.head>>,
                         comments |-> EmptyTable]
                   ELSE draft
       IN  /\ k \notin DOMAIN born.comments
           /\ draft' = [born EXCEPT !.comments = Upsert(@, k, comment)]
  /\ UNCHANGED <<commits, bases, stored, cached, view, report, request, posted>>

\* handleSubmit: the comments as they stand, on the head the tab shows.
SubmitFromBar ==
  /\ view = "files" /\ request = NoRequest /\ draft # NoDraft
  /\ DOMAIN draft.comments # {}
  /\ request' = [by |-> "bar", base |-> cached.base, head |-> cached.head,
                 comments |-> draft.comments,
                 texts |-> [k \in DOMAIN draft.comments |-> draft.comments[k].anchor.text]]
  /\ UNCHANGED <<commits, bases, stored, cached, draft, view, report, posted>>

-----------------------------------------------------------------------------
(* The answers to a submit. *)

\* The review is posted on the head it names and the draft is deleted.
SubmitOk ==
  /\ request # NoRequest
  /\ request.head = Len(commits)
  /\ posted' = {[by |-> request.by, head |-> request.head, rebased |-> request.base # Len(bases),
                 comment |-> request.comments[k], text |-> request.texts[k]] :
                k \in DOMAIN request.comments}
  /\ request' = NoRequest
  /\ draft' = NoDraft
  /\ view' = "files"
  /\ UNCHANGED <<commits, bases, stored, cached, report>>

\* head_moved opens the first dialog, or takes the second one round its loop.
SubmitHeadMoved ==
  /\ request # NoRequest
  /\ request.head # Len(commits)
  /\ view' = IF request.by = "bar" THEN "moved" ELSE "movedAgain"
  /\ report' = IF request.by = "bar" THEN NoReport ELSE report
  /\ request' = NoRequest
  /\ UNCHANGED <<commits, bases, stored, cached, draft, posted>>

\* A conflict or a failed request: the draft stays as it is.
SubmitFailed ==
  /\ request # NoRequest
  /\ request' = NoRequest
  /\ UNCHANGED <<commits, bases, stored, cached, draft, view, report, posted>>

-----------------------------------------------------------------------------
(* The dialogs. *)

\* The loop of the second dialog keeps its report until it has a fresh one.
Resting == IF report = NoReport THEN "moved" ELSE "report"

DialogSync ==
  /\ view \in {"moved", "movedAgain"}
  /\ SyncTab
  /\ view' = "synced"
  /\ UNCHANGED <<commits, bases, draft, report, request, posted>>

\* Fault: no pre-flight.
MissesNothing == FALSE

\* The draft's comments depend on a blob that the store does not hold.
MissesBlob ==
  \E k \in DOMAIN draft.comments :
    LET side == draft.comments[k].side
    IN  /\ SelectAnchorBlob(CompareOf(stored.compare), side) # NoBlob
        /\ side \in stored.gone

\* The lines the store can produce for a side of its snapshot.
Readable ==
  [CompareOf(stored.compare) EXCEPT
     !.base = IF "LEFT" \in stored.gone THEN NoBlob ELSE @,
     !.head = IF "RIGHT" \in stored.gone THEN NoBlob ELSE @]

ReconcileDraft ==
  [head    |-> stored.compare.head,
   compare |-> stored.compare,
   results |-> [k \in DOMAIN draft.comments |->
                  ClassifyPendingComment(draft.comments[k], Readable)]]

\* The second request of the dialogs, answered from what the store holds now.
DialogReconcile ==
  /\ view = "synced"
  /\ ~MissesBlob
  /\ report' = ReconcileDraft
  /\ view' = "report"
  /\ UNCHANGED <<commits, bases, stored, cached, draft, request, posted>>

\* The sync or the reconcile is refused: the dialog is where it was.
DialogFailed ==
  /\ view \in {"synced", "movedAgain"}
  /\ view' = Resting
  /\ UNCHANGED <<commits, bases, stored, cached, draft, report, request, posted>>

DialogClosed ==
  /\ view \in {"moved", "report"} /\ request = NoRequest
  /\ view' = "files"
  /\ report' = NoReport
  /\ UNCHANGED <<commits, bases, stored, cached, draft, request, posted>>

-----------------------------------------------------------------------------
(* Apply. *)

\* What the human may decide on a row: a clean one is kept, a drifted one may
\* be accepted, and one with lines on screen may be put on any of them.
Decisions(result) ==
  LET pinned == {[kind |-> "reanchor", line |-> i] : i \in 1..Len(Shown(result.comment.side))}
      drop   == [kind |-> "drop", line |-> 0]
      accept == [kind |-> "accept", line |-> result.line]
  IN  CASE result.kind = "clean"   -> {[kind |-> "keep", line |-> 0]}
        [] result.kind = "drifted" -> {accept, drop} \cup pinned
        [] result.kind = "lost"    -> {drop} \cup pinned

\* An accepted row takes the span of the report; one a human puts on a line
\* keeps its length, and does not start before the file.
NewStart(comment, result, decision) ==
  IF decision.kind = "accept" THEN result.start
  ELSE IF comment.start = NoStart THEN NoStart
  ELSE Larger(1, comment.start + (decision.line - comment.line))

\* Fault: the head's blob is read for every side.
ReanchoredOnHead(comment, result, decision) ==
  LET start == NewStart(comment, result, decision)
  IN  [side |-> comment.side, line |-> decision.line, start |-> start,
       anchor |-> CaptureAnchor(Shown("RIGHT"), decision.line, start)]

\* A row that moved, with its anchor taken again from the blob the tab shows.
Reanchored(comment, result, decision) ==
  LET start == NewStart(comment, result, decision)
  IN  [side |-> comment.side, line |-> decision.line, start |-> start,
       anchor |-> CaptureAnchor(Shown(comment.side), decision.line, start)]

\* planReconcileApply: the comments that are left, the moved ones rewritten.
\* A comment the report does not know is carried along.
Updated(comments, results, decisions) ==
  LET kept == {k \in DOMAIN comments :
                 k \in DOMAIN results => decisions[k].kind # "drop"}
  IN  [k \in kept |->
         IF k \notin DOMAIN results \/ decisions[k].kind = "keep" THEN comments[k]
         ELSE Reanchored(comments[k], results[k], decisions[k])]

\* (History.)  The text each comment is to land on: the one its anchor had when
\* it was classified, or none when a human chose the line.
Promised(comments, results, decisions) ==
  [k \in DOMAIN comments |->
     IF k \notin DOMAIN results THEN comments[k].anchor.text
     ELSE IF decisions[k].kind \in {"keep", "accept"} THEN results[k].comment.anchor.text
     ELSE NoText]

\* coherentDraftHead: the tab's compare key has to end in the report's head.
Coherent == cached.head = report.head

\* Fault: the head the tab shows, as the review bar sends it.
ExpectedShownHead == cached.head

\* The head the comments were classified on, not the one the tab shows.
ExpectedHead == report.head

\* The draft is rewritten and saved, then submitted.
Apply ==
  /\ view = "report" /\ request = NoRequest /\ draft # NoDraft
  /\ \E decisions \in [DOMAIN report.results ->
                         UNION {Decisions(report.results[k]) : k \in DOMAIN report.results}] :
       /\ \A k \in DOMAIN report.results : decisions[k] \in Decisions(report.results[k])
       /\ LET updated == Updated(draft.comments, report.results, decisions)
          IN  /\ draft' = [head |-> IF Coherent THEN report.head ELSE draft.head,
                           key  |-> IF Coherent THEN <<cached.base, cached.head>> ELSE draft.key,
                           comments |-> updated]
              /\ request' = [by |-> "apply", base |-> report.compare.base, head |-> ExpectedHead,
                             comments |-> updated,
                             texts |-> Promised(draft.comments, report.results, decisions)]
  /\ UNCHANGED <<commits, bases, stored, cached, view, report, posted>>

Next ==
  \/ Push \/ MoveBase \/ OtherTabSync \/ LoseBlob
  \/ Resync \/ (\E k \in Keys : WriteComment(k)) \/ SubmitFromBar
  \/ SubmitOk \/ SubmitHeadMoved \/ SubmitFailed
  \/ DialogSync \/ DialogReconcile \/ DialogFailed \/ DialogClosed
  \/ Apply

Spec == Init /\ [][Next]_vars

-----------------------------------------------------------------------------
(* Properties. *)

\* A comment covers a line, or a span that ends in it and does not start
\* after it or before the file.
Anchors == [text : Texts \cup {NoText}, before : Seq(Texts), after : Seq(Texts),
            first : Texts \cup {NoText}]
Comments == {c \in [side : Sides, line : Nat \ {0}, start : Nat, anchor : Anchors] :
               c.start <= c.line}
Results == {r \in [kind : {"clean", "drifted", "lost"},
                    reason : {"none", "deleted", "renamed", "added", "line-deleted"},
                    comment : Comments, line : Nat \ {0}, start : Nat, uncertain : BOOLEAN] :
              r.start <= r.line}
Compares == [base : 1..Len(bases), head : 1..Len(commits)]

\* Every position is a line, or a span whose start is not after its end: in
\* the draft, in a report and in a request alike (resolveRangedStart's clamps,
\* anchor.ts:203, and planReconcileApply's floor, reconcile-plan.ts:236).
TypeOK ==
  /\ commits \in Seq(Heads)
  /\ bases \in Seq(Trees)
  /\ cached \in Compares
  /\ stored \in [compare : Compares, gone : SUBSET Sides]
  /\ draft # NoDraft => IsTable(draft.comments, Keys, Comments)
  /\ view \in {"files", "moved", "movedAgain", "synced", "report"}
  /\ view \in {"report", "movedAgain"} => report # NoReport
  /\ report # NoReport =>
       /\ report.compare \in Compares
       /\ report.head = report.compare.head
       /\ IsTable(report.results, Keys, Results)
  /\ request # NoRequest =>
       /\ request.by \in {"bar", "apply"}
       /\ IsTable(request.comments, Keys, Comments)

\* What the two sides of a compare held.
SideOf(compare, side) ==
  IF side = "LEFT" THEN bases[compare.base].lines ELSE commits[compare.head].lines

\* A comment is posted on a line that reads as its anchor does, on the head it
\* is posted on; a base that moved under the same head is not looked at.
ReadsAsPromised(p) ==
  \/ p.text = NoText
  \/ p.comment.side = "LEFT" /\ p.rebased
  \/ Reads(IF p.comment.side = "LEFT" THEN bases[Len(bases)].lines ELSE commits[p.head].lines,
           p.comment.line, p.text)

\* A comment that went through reconcile and that its human kept or accepted is
\* posted on the text it was written about, whatever was pushed, synced or
\* refused meanwhile: the submit names the head the report looked at
\* (reconcile-dialog.tsx:183), not the one the tab shows.
ReconciledCommentsLand == \A p \in posted : p.by = "apply" => ReadsAsPromised(p)

\* An anchor that is what this very place of the reported file reads as is
\* clean: nobody is asked about a comment whose neighbourhood has not moved,
\* and a row that was re-anchored is not asked about again (anchor.ts:290-302).
UntouchedIsClean ==
  report # NoReport =>
    \A k \in DOMAIN report.results :
      LET r == report.results[k]
          c == r.comment
          lines == SelectAnchorBlob(CompareOf(report.compare), c.side)
      IN  (/\ c.line <= Len(lines)
           /\ c.anchor = CaptureAnchor(lines, c.line, c.start)
           /\ ResolveFilePresence(CompareOf(report.compare), c.side) = "present")
          => r.kind = "clean"

\* A row says that its line no longer exists only when no line of the window
\* reads like it: a blob that is missing from the store is refused, not
\* reported (reconcile.ts:105-133).  Where the listing of the base tree was cut
\* short there is no blob to miss, and the row does say so.
LostMeansGone ==
  report # NoReport =>
    \A k \in DOMAIN report.results :
      LET r == report.results[k]
          c == r.comment
      IN  (/\ r.reason = "line-deleted"
           /\ c.side = "RIGHT" \/ bases[report.compare.base].listed)
          => Candidates(SideOf(report.compare, c.side), c.anchor.text, c.line) = {}

Applies == request = NoRequest /\ request' # NoRequest /\ view = "report"

Decided == DOMAIN report.results \cap DOMAIN draft'.comments

\* A draft that survives a refused submit describes the head its comments
\* belong to: when the tab shows the compare the report looked at, every row
\* that Apply leaves in the draft reads, on the compare the draft now names, as
\* its anchor says (reconcile-dialog.tsx:173-179).
AppliedDraftIsCoherent ==
  [][(Applies /\ cached = report.compare) =>
       /\ draft'.key = <<report.compare.base, report.compare.head>>
       /\ draft'.head = report.head
       /\ \A k \in Decided :
            LET c == draft'.comments[k]
            IN  Reads(SideOf(report.compare, c.side), c.line, c.anchor.text)]_vars

\* A re-captured anchor reads the same content the report classified against
\* (reconcile-plan.ts:113-114).  The code takes it from the compare the tab
\* shows, and nothing but the head is compared with the report's.
RecapturedFromTheReport ==
  [][Applies =>
       \A k \in Decided :
         LET c == draft'.comments[k]
         IN  (c.side = "RIGHT" /\ c # draft.comments[k]) =>
               Reads(SideOf(report.compare, c.side), c.line, c.anchor.text)]_vars

\* "Submitting against a moved head routes through reconcile" (README.md:92): a
\* comment on the head is posted from the bar only on the text it was written
\* about.  The bar compares GitHub's head with the one the tab shows, and a
\* plain re-sync moves that one under the draft.
MovedHeadsAreReconciled ==
  \A p \in posted : p.by = "bar" /\ p.comment.side = "RIGHT" => ReadsAsPromised(p)
=============================================================================
