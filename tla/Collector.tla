----------------------------- MODULE Collector -----------------------------
(***************************************************************************)
(* The host's collector over one pull request: workspaces write to GitHub  *)
(* as the shared bot and journal what they wrote; now and then a tick      *)
(* pulls every workspace, lands what it pulled, and looks on GitHub for    *)
(* bot writes that no journal accounts for.                                *)
(*                                                                         *)
(* Landing a workspace is synchronous; listing GitHub is three awaited     *)
(* calls, between which anything may be written or deleted.                *)
(***************************************************************************)
EXTENDS FiniteSets, OutOfBandWrites, HostStore

CONSTANTS
  MaxEvents,  \* bound: what people do, in workspaces, on GitHub and on the
              \* host, and ticks started, together
  None        \* no report yet

(* The last conjunct keeps apart the names of those who write.             *)
ASSUME CollectorAssumption ==
  /\ MaxEvents \in Nat
  /\ {"bypass", "person"} \cap Owners = {}

VARIABLES
  made,      \* history: every artifact ever created, and who made it
  present,   \* GitHub: the artifacts that are there
  journals,  \* owner -> its workspace's local audit_log
  owing,     \* owner -> writes GitHub took, each the rows its journal lacks so far
  work,      \* owner -> version of the draft and marks in its workspace
  bound,     \* the owners the host's registry knows
  host,      \* the host's tables
  tick,      \* the tick being run
  report,    \* what the last tick concluded
  events,    \* bound's counter
  kept       \* history: <<owner, row>> a landing reported no error for

discussion == <<made, present>>
workspaces == <<journals, owing, work>>
hosted == <<bound, host>>
vars == <<made, present, journals, owing, work, bound, host, tick, report, events, kept>>

(* `by` says who made an artifact: an owner, a person, or someone with the *)
(* bot's token who went past revu.                                         *)
Makers == Owners \cup {"bypass", "person"}
Kinds == {"review", "review_comment", "issue_comment"}
Artifact == [kind : Kinds, id : Nat, reviewId : Nat, author : {"bot", "person"},
             by : Makers]
Mediated(a) == a.by \in Owners
Bypass(a) == a.by = "bypass"

OfKind(artifacts, kind) == {a \in artifacts : a.kind = kind}
NextId(kind) == Cardinality(OfKind(made, kind)) + 1
New(kind, reviewId, by) ==
  [kind |-> kind, id |-> NextId(kind), reviewId |-> reviewId, by |-> by,
   author |-> IF by = "person" THEN "person" ELSE "bot"]

Event == events < MaxEvents /\ events' = events + 1
Create(artifacts) ==
  /\ Event
  /\ made' = made \cup artifacts
  /\ present' = present \cup artifacts

NoTick == [step |-> "idle", pulled |-> EmptyTable, toLand |-> {},
           found |-> [reviews |-> {}, reviewComments |-> {}, issueComments |-> {}],
           before |-> {}, committed |-> EmptyTable]

----------------------------------------------------------------------------

Init ==
  /\ made = {} /\ present = {}
  /\ journals = [o \in Owners |-> {}] /\ owing = [o \in Owners |-> {}]
  /\ work = [o \in Owners |-> 0]
  /\ bound = Owners /\ host = EmptyHost
  /\ tick = NoTick /\ report = None /\ events = 0
  /\ kept = {}

(* A review and its inline comments appear in one POST.  A lone comment    *)
(* or reply brings a review that wraps it.                                 *)
ReviewWith(comments, by) ==
  {New("review", 0, by)} \cup
  IF comments THEN {New("review_comment", NextId("review"), by)} ELSE {}
Owe(o, rows) ==
  /\ owing' = [owing EXCEPT ![o] = @ \cup {rows}]
  /\ UNCHANGED <<journals, work, hosted, tick, report, kept>>
Row(endpoint, id) == [endpoint |-> endpoint, id |-> id]

SubmitReview(o, comments) ==
  /\ Create(ReviewWith(comments, o))
  /\ Owe(o, {Row("submitReview", NextId("review"))} \cup
            IF comments THEN {Row("submitReviewComment", NextId("review_comment"))} ELSE {})
ReplyToThread(o) ==
  /\ Create(ReviewWith(TRUE, o))
  /\ Owe(o, {Row("replyToThread", NextId("review_comment"))})

(* GitHub's answer reaches the daemon and the rows are appended.  It never *)
(* does when the answer is lost, a row is refused or the daemon ends.      *)
Record(o, rows) ==
  /\ rows \in owing[o]
  /\ journals' = [journals EXCEPT ![o] = @ \cup rows]
  /\ owing' = [owing EXCEPT ![o] = @ \ {rows}]
  /\ UNCHANGED <<discussion, work, hosted, tick, report, events, kept>>

(* A reaction, or the resolution of a thread, names a comment that is      *)
(* there, whoever wrote it.                                                *)
Touch(o, a) ==
  /\ a \in present /\ a.kind # "review" /\ Event
  /\ \E endpoint \in IF a.kind = "review_comment" THEN {"addReaction", "resolveThread"}
                     ELSE {"addReaction"} :
       journals' = [journals EXCEPT ![o] = @ \cup {Row(endpoint, a.id)}]
  /\ UNCHANGED <<discussion, owing, work, hosted, tick, report, kept>>

(* Writes revu has no part in: by a person as themselves, by the bot past  *)
(* revu, and deletions.  A wrapping review may or may not go with its      *)
(* comment.                                                                *)
WriteElsewhere(by) ==
  /\ \/ Create(ReviewWith(TRUE, by))
     \/ by = "bypass" /\ Create(ReviewWith(FALSE, by))
     \/ by = "bypass" /\ Create({New("issue_comment", 0, by)})
  /\ UNCHANGED <<workspaces, hosted, tick, report, kept>>
Delete(a) ==
  /\ a \in present /\ a.kind # "review" /\ Event
  /\ \E gone \in {{a}, {a} \cup {r \in OfKind(present, "review") : r.id = a.reviewId}} :
       present' = present \ gone
  /\ UNCHANGED <<made, workspaces, hosted, tick, report, kept>>

(* The owner works on: a new version of draft and marks, or none left.     *)
Edit(o) ==
  /\ Event
  /\ \/ work' = [work EXCEPT ![o] = @ + 1]
     \/ work[o] > 0 /\ work' = [work EXCEPT ![o] = 0]
  /\ UNCHANGED <<discussion, journals, owing, hosted, tick, report, kept>>

----------------------------------------------------------------------------

resolves(o) == o \in bound

StartTick ==
  /\ tick.step = "idle" /\ Event
  /\ tick' = [NoTick EXCEPT !.step = "pull",
                            !.before = {a \in present : Bypass(a)}]
  /\ report' = None
  /\ UNCHANGED <<discussion, workspaces, hosted, kept>>

(* A container's state is read, with the identity its draft claims.        *)
Pull(o, claimed) ==
  /\ tick.step = "pull" /\ o \notin DOMAIN tick.pulled
  /\ work[o] = 0 => claimed = EmailOf[o]
  /\ tick' = [tick EXCEPT
       !.pulled = Upsert(@, o,
          [rows |-> journals[o], version |-> work[o], humanId |-> claimed]),
       !.toLand = @ \cup {o}]
  /\ UNCHANGED <<discussion, workspaces, hosted, report, events, kept>>

(* The pull is over; a container that could not be reached is not in it.   *)
PullEnds ==
  /\ tick.step = "pull"
  /\ tick' = [tick EXCEPT !.step = "land"]
  /\ UNCHANGED <<discussion, workspaces, hosted, report, events, kept>>

(* What a container's landings leave, if the first `n` of its kinds of     *)
(* record land: drafts, then viewed marks, then the journal.               *)
LandKinds(o, n) ==
  LET pulled == tick.pulled[o]
      text == [humanId |-> pulled.humanId, text |-> <<o, pulled.version>>]
      h1 == IF n >= 1 /\ pulled.version > 0 THEN landDraft(host, o, text) ELSE host
      h2 == IF n >= 2 /\ pulled.version > 0 THEN landViewed(h1, o, text.text) ELSE h1
  IN  IF n = 3 THEN landAudit(h2, o, pulled.rows) ELSE h2
Landed(o) == tick' = [tick EXCEPT !.toLand = @ \ {o}]
NotLanded(o) == tick' = [tick EXCEPT !.toLand = @ \ {o}, !.pulled = Without(@, {o})]

Land(o) ==
  /\ tick.step = "land" /\ o \in tick.toLand /\ resolves(o)
  /\ host' = LandKinds(o, 3)
  /\ kept' = kept \cup {<<o, row>> : row \in tick.pulled[o].rows}
  /\ Landed(o)
  /\ UNCHANGED <<discussion, workspaces, bound, report, events>>

(* The host's tables refuse a write: what landed before it stays, and the  *)
(* next container is landed all the same.                                  *)
LandFails(o) ==
  /\ tick.step = "land" /\ o \in tick.toLand /\ resolves(o)
  /\ tick.pulled[o].rows # {} \/ tick.pulled[o].version > 0
  /\ \E n \in 0..2 : host' = LandKinds(o, n)
  /\ NotLanded(o)
  /\ UNCHANGED <<discussion, workspaces, bound, report, events, kept>>

(* UnboundOwnerError on the first landing: nothing of it lands.            *)
LandUnbound(o) ==
  /\ tick.step = "land" /\ o \in tick.toLand /\ ~resolves(o)
  /\ NotLanded(o)
  /\ UNCHANGED <<discussion, workspaces, hosted, report, events, kept>>

(* Phase 2: the three listings, each paged to its end.                     *)
ListReviews ==
  /\ tick.step = "land" /\ tick.toLand = {}
  /\ tick' = [tick EXCEPT !.step = "comments", !.committed = journals,
                          !.found.reviews = OfKind(present, "review")]
  /\ UNCHANGED <<discussion, workspaces, hosted, report, events, kept>>
ListReviewComments ==
  /\ tick.step = "comments"
  /\ tick' = [tick EXCEPT !.step = "issues",
                          !.found.reviewComments = OfKind(present, "review_comment")]
  /\ UNCHANGED <<discussion, workspaces, hosted, report, events, kept>>
ListIssueComments ==
  /\ tick.step = "issues"
  /\ tick' = [tick EXCEPT !.step = "detect",
                          !.found.issueComments = OfKind(present, "issue_comment")]
  /\ UNCHANGED <<discussion, workspaces, hosted, report, events, kept>>

(* The journal is read after the listings, and the tick ends.              *)
Detect ==
  /\ tick.step = "detect"
  /\ report' = detectOutOfBandWrites(splitJournaledIds(listAuditUnion(host)), tick.found)
  /\ tick' = NoTick
  /\ UNCHANGED <<discussion, workspaces, hosted, events, kept>>

(* A listing fails, or the collector's process ends: no report, and what   *)
(* landed stays.                                                           *)
TickFails ==
  /\ tick.step # "idle"
  /\ tick' = NoTick
  /\ UNCHANGED <<discussion, workspaces, hosted, report, events, kept>>

(* An owner's entry leaves the registry; a tick reads the registry once.   *)
Unbind(o) ==
  /\ tick.step = "idle" /\ resolves(o) /\ Event
  /\ bound' = bound \ {o}
  /\ UNCHANGED <<discussion, workspaces, host, tick, report, kept>>

(* A person leaves: run beside the ticks, while the binding still knows    *)
(* the owner.                                                              *)
offboardHuman(o) ==
  /\ resolves(o) /\ Event
  /\ host' = purgeWorkingState(host, o)
  /\ UNCHANGED <<discussion, workspaces, bound, tick, report, kept>>

WorkspaceStep(o) ==
  \/ \E comments \in BOOLEAN : SubmitReview(o, comments)
  \/ ReplyToThread(o) \/ Edit(o)
  \/ \E rows \in owing[o] : Record(o, rows)
  \/ \E a \in present : Touch(o, a)
GitHubStep ==
  \/ \E by \in {"bypass", "person"} : WriteElsewhere(by)
  \/ \E a \in present : Delete(a)
TickStep ==
  \/ StartTick \/ PullEnds \/ ListReviews \/ ListReviewComments
  \/ ListIssueComments \/ Detect \/ TickFails
  \/ \E o \in Owners :
       \/ \E p \in Owners : Pull(o, EmailOf[p])
       \/ Land(o) \/ LandFails(o) \/ LandUnbound(o)
Next ==
  \/ GitHubStep \/ TickStep
  \/ \E o \in Owners : WorkspaceStep(o) \/ offboardHuman(o) \/ Unbind(o)
Spec == Init /\ [][Next]_vars

----------------------------------------------------------------------------

TypeOK ==
  /\ made \subseteq Artifact /\ present \subseteq made
  /\ \A o \in Owners : \A row \in journals[o] \cup UNION owing[o] : row.endpoint \in Endpoints
  /\ bound \subseteq Owners
  /\ work \in [Owners -> 0..MaxEvents]
  /\ tick.step \in {"idle", "pull", "land", "comments", "issues", "detect"}
  /\ tick.toLand \subseteq DOMAIN tick.pulled
  /\ tick.step \notin {"pull", "land"} => tick.toLand = {}
  /\ events \in 0..MaxEvents

(* Whatever a payload claims, a row of the host's tables under a human was *)
(* pulled from the workspace bound to that human (host-store.ts:100-120);  *)
(* and the journal keeps a row once, however often the workspace hands it  *)
(* over and whichever landing of it failed (host-store.ts:395-404).        *)
RowsBelongToTheirHuman ==
  LET from(o, human) == o \in Owners /\ EmailOf[o] = human
  IN  /\ \A e \in DOMAIN host.drafts :
           host.drafts[e].humanId = e /\ from(host.drafts[e].text[1], e)
      /\ \A e \in DOMAIN host.viewed : from(host.viewed[e][1], e)
      /\ \A row \in ToSet(host.audit) :
           /\ from(row.workspace, row.human)
           /\ Row(row.endpoint, row.id) \in journals[row.workspace]
      /\ \A i, j \in DOMAIN host.audit : host.audit[i] = host.audit[j] => i = j

(* Attribution outlives everything: no tick, failure or off-boarding takes *)
(* a row out of the journal or reorders it (offboard.ts:9-12).             *)
AttributionStays == [][IsPrefix(host.audit, host'.audit)]_vars

Concludes == report' # None /\ report' # report

(* A bot write made past revu before the tick began and not deleted since  *)
(* is in its report, whatever was touched, mediated or journalled around   *)
(* it (out-of-band-writes.ts:288-318).                                     *)
BypassIsFound ==
  [][Concludes =>
       tick.before \cap present \subseteq report'.outOfBand]_vars

(* A write made through revu is accused only if the row that accounts for  *)
(* it was never landed, or if it is the wrapping review of a reply that    *)
(* was deleted; people are never accused (collector.ts:35-43,              *)
(* out-of-band-writes.ts:258-287).                                         *)
Accounts(a) ==
  CASE a.kind = "review" ->
         {Row("submitReview", a.id)} \cup
         {Row("replyToThread", c.id) :
            c \in {d \in OfKind(present, "review_comment") : d.reviewId = a.id}}
    [] a.kind = "review_comment" ->
         {Row("submitReview", a.reviewId), Row("replyToThread", a.id)}
    [] OTHER -> {}
LandedIsCleared ==
  [][Concludes =>
       \A a \in report'.outOfBand :
         /\ a.author = "bot"
         /\ \A row \in Accounts(a) : <<a.by, row>> \notin kept]_vars

(* The detector's header: listing before reading the journal leaves only   *)
(* the window in which a write shows on GitHub and its row has not yet     *)
(* been committed.  So with every workspace pulled and landed, a write     *)
(* whose row was committed when the listings began is not accused          *)
(* (out-of-band-writes.ts:60-68).                                          *)
OnlyInFlightIsAccused ==
  [][Concludes /\ DOMAIN tick.pulled = Owners =>
       \A a \in report'.outOfBand :
         \A row \in Accounts(a) : Mediated(a) => row \notin tick.committed[a.by]]_vars

=============================================================================
