-------------------------- MODULE DraftPersistence --------------------------
(***************************************************************************)
(* How the client keeps one draft: the query cache is what the reviewer    *)
(* edits, the daemon's row is the durable copy, and debounced saves carry  *)
(* one to the other while the draft is flushed, submitted or discarded.    *)
(*                                                                         *)
(* A draft is its version: every mutator makes a new document, and the     *)
(* code compares documents by identity.  0 is no draft.  Requests are      *)
(* numbered in the order the page sends them; the daemon may serve them in *)
(* another order unless InOrder.  A review of two local branches can also  *)
(* be deleted, with the reviewer's own draft discarded on the way.         *)
(***************************************************************************)
EXTENDS Integers, FiniteSets, Tables

CONSTANTS
  InOrder,      \* are saves and discards served in the order they were sent?
  EditsMidWrite,\* may the reviewer edit while a submit or discard is in flight?
  SyncsMidEdit, \* may a sync land while an edit or a write is unsettled?
  MaxEdits,     \* bound: edits ever made
  MaxSubmits,   \* bound: times Submit is ever pressed
  MaxHides,     \* bound: times the tab is ever hidden, closed or discarded in
  MaxSyncs      \* bound: syncs that ever land

ASSUME DraftAssumption ==
  /\ {InOrder, EditsMidWrite, SyncsMidEdit} \subseteq BOOLEAN
  /\ {MaxEdits, MaxSubmits, MaxHides, MaxSyncs} \subseteq Nat

VARIABLES
  open,     \* is the page loaded?
  cache,    \* the query cache's draft
  entry,    \* PersistEntry: the two timers, `pending`, `dirty`
  saves,    \* PUTs sent and not settled: number -> save
  sent,     \* requests sent so far
  submits,  \* presses of Submit being handled: press -> its state
  discard,  \* the DELETE of the draft in flight
  removal,  \* how far the deletion of the review has come
  exists,   \* is there still a review?
  reading,  \* the GET of the draft a sync has caused
  row,      \* the daemon's draft row
  landed,   \* the versions whose review was posted
  edits, presses, hides, syncs, \* counters
  owed,     \* history: the version the reviewer may rely on
  forsaken  \* history: a discard failed since the last edit

client == <<open, cache, entry>>
wire   == <<saves, sent, submits, discard, removal, reading>>
ghosts == <<edits, presses, hides, syncs, owed, forsaken>>
draftVars   == <<open, cache, entry, saves, sent, submits, discard, removal, reading, exists, row,
            landed, edits, presses, hides, syncs, owed, forsaken>>

Versions == 0..MaxEdits
Idle == [saveTimer |-> FALSE, retryTimer |-> FALSE, pending |-> 0, dirty |-> FALSE]
Quiet == [step |-> "none", number |-> 0]
Unread == [step |-> "none", number |-> 0, version |-> 0]

DraftInit ==
  /\ open = TRUE /\ cache = 0 /\ entry = Idle
  /\ saves = EmptyTable /\ sent = 0 /\ submits = EmptyTable /\ discard = Quiet
  /\ removal = "none" /\ reading = Unread
  /\ exists = TRUE /\ row = 0 /\ landed = {}
  /\ edits = 0 /\ presses = 0 /\ hides = 0 /\ syncs = 0 /\ owed = 0 /\ forsaken = FALSE

Busy == submits # EmptyTable \/ discard # Quiet \/ removal # "none"
Reading == reading # Unread

(* Any mutator: the cache changes at once, the save is (re)scheduled.      *)
(* The first one creates the draft (ensureDraft).                          *)
Edit ==
  /\ open /\ edits < MaxEdits
  /\ Busy => EditsMidWrite
  /\ Reading => SyncsMidEdit
  /\ edits' = edits + 1
  /\ cache' = edits'
  /\ entry' = [entry EXCEPT !.pending = edits', !.saveTimer = TRUE, !.retryTimer = FALSE]
  /\ owed' = edits' /\ forsaken' = FALSE
  /\ UNCHANGED <<open, wire, exists, row, landed, presses, hides, syncs>>

(* attemptSave: the PUT carries what is pending now.                       *)
SaveOf(retry) == [version |-> entry.pending, retry |-> retry, applied |-> FALSE]
Attempt(retry) ==
  IF entry.pending = 0 THEN UNCHANGED <<saves, sent>>
  ELSE /\ sent' = sent + 1
       /\ saves' = Upsert(saves, sent + 1, SaveOf(retry))

SaveTimerFires ==
  /\ open /\ entry.saveTimer
  /\ entry' = [entry EXCEPT !.saveTimer = FALSE]
  /\ Attempt(FALSE)
  /\ UNCHANGED <<reading, removal, exists, open, cache, submits, discard, row, landed, ghosts>>

RetryTimerFires ==
  /\ open /\ entry.retryTimer
  /\ entry' = [entry EXCEPT !.retryTimer = FALSE]
  /\ Attempt(TRUE)
  /\ UNCHANGED <<reading, removal, exists, open, cache, submits, discard, row, landed, ghosts>>

(* flushSave: with something pending, the timers go and it is sent now.    *)
ClearTimers(e) == [e EXCEPT !.saveTimer = FALSE, !.retryTimer = FALSE]
Flushed == IF entry.pending = 0 THEN entry ELSE ClearTimers(entry)

HideTab ==
  /\ open /\ hides < MaxHides /\ entry.pending # 0
  /\ hides' = hides + 1
  /\ entry' = Flushed
  /\ Attempt(FALSE)
  /\ UNCHANGED <<reading, removal, exists, open, cache, submits, discard, row, landed,
                 edits, presses, owed, forsaken, syncs>>

(* putDraft, once the daemon has read the body.                            *)
ApplySave(n) ==
  /\ exists
  /\ n \in DOMAIN saves /\ ~saves[n].applied
  /\ InOrder => /\ \A m \in DOMAIN saves : m < n => saves[m].applied
                /\ discard.step = "sent" => discard.number > n
  /\ row' = saves[n].version
  /\ saves' = [saves EXCEPT ![n].applied = TRUE]
  /\ UNCHANGED <<reading, removal, exists, client, sent, submits, discard, landed, ghosts>>

(* Fault: any save that succeeds marks the draft clean, a newer edit or    *)
(* not.                                                                    *)
AnswerCleansAll(n) ==
  /\ n \in DOMAIN saves /\ saves[n].applied
  /\ saves' = Without(saves, {n})
  /\ entry' = IF open THEN [entry EXCEPT !.pending = 0, !.dirty = FALSE] ELSE entry
  /\ UNCHANGED <<reading, removal, exists, open, cache, sent, submits, discard, row,
                 landed, ghosts>>
SaveAnswered(n) ==
  /\ n \in DOMAIN saves /\ saves[n].applied
  /\ saves' = Without(saves, {n})
  /\ entry' = IF open /\ entry.pending = saves[n].version
                THEN [entry EXCEPT !.pending = 0, !.dirty = FALSE] ELSE entry
  /\ UNCHANGED <<reading, removal, exists, open, cache, sent, submits, discard, row,
                 landed, ghosts>>

(* Fault: the retry's failure goes unreported.                             *)
FailsInSilence(n) ==
  /\ n \in DOMAIN saves
  /\ saves' = Without(saves, {n})
  /\ entry' = IF ~open \/ entry.pending # saves[n].version \/ saves[n].retry THEN entry
              ELSE [entry EXCEPT !.retryTimer = TRUE]
  /\ UNCHANGED <<reading, removal, exists, open, cache, sent, submits, discard, row,
                 landed, ghosts>>

(* The PUT fails, before the daemon wrote or after it: one retry after two *)
(* seconds, then `dirty`; nothing if a newer edit has taken over.          *)
SaveFails(n) ==
  /\ n \in DOMAIN saves
  /\ saves' = Without(saves, {n})
  /\ entry' = IF ~open \/ entry.pending # saves[n].version THEN entry
              ELSE IF saves[n].retry THEN [entry EXCEPT !.dirty = TRUE]
              ELSE [entry EXCEPT !.retryTimer = TRUE]
  /\ UNCHANGED <<reading, removal, exists, open, cache, sent, submits, discard, row,
                 landed, ghosts>>

----------------------------------------------------------------------------
(* Submit.  The handler flushes, waits for that one save to settle, and    *)
(* sends what the page had rendered when it was pressed.  It is disabled   *)
(* only while the request itself is out.                                   *)
IsPending == \E p \in DOMAIN submits : submits[p].step \in {"sent", "ok", "refused"}
PressSubmit ==
  /\ open /\ cache # 0 /\ presses < MaxSubmits /\ ~IsPending
  /\ discard = Quiet /\ removal = "none"
  /\ Reading => SyncsMidEdit
  /\ presses' = presses + 1
  /\ entry' = Flushed
  /\ Attempt(FALSE)
  /\ submits' = Upsert(submits, presses',
       [version |-> cache, flush |-> sent', step |-> IF sent' = sent THEN "sent" ELSE "flushing"])
  /\ UNCHANGED <<reading, removal, exists, open, cache, discard, row, landed, edits,
                 hides, owed, forsaken, syncs>>

SendSubmit(p) ==
  /\ p \in DOMAIN submits /\ submits[p].step = "flushing"
  /\ submits[p].flush \notin DOMAIN saves
  /\ submits' = [submits EXCEPT ![p].step = "sent"]
  /\ UNCHANGED <<reading, removal, exists, client, saves, sent, discard, row, landed, ghosts>>

(* The daemon's submitReview as GithubWrites has it: the review lands and  *)
(* the row goes, or neither.                                               *)
ServeSubmit(p) ==
  /\ exists
  /\ p \in DOMAIN submits /\ submits[p].step = "sent"
  /\ \/ /\ submits' = [submits EXCEPT ![p].step = "ok"]
        /\ landed' = landed \cup {submits[p].version}
        /\ row' = 0
     \/ /\ submits' = [submits EXCEPT ![p].step = "refused"]
        /\ UNCHANGED <<row, landed>>
  /\ UNCHANGED <<reading, removal, exists, client, saves, sent, discard, ghosts>>

(* dropPersistState: nothing pending, no timer, not dirty.                 *)
(* `ok`: the draft is consumed.  head_moved, forbidden: it stays.          *)
(* Fault: the draft is cleared whatever the answer.                        *)
AnyAnswerClears(p) ==
  /\ p \in DOMAIN submits /\ submits[p].step \in {"ok", "refused"}
  /\ submits' = Without(submits, {p})
  /\ entry' = Idle /\ cache' = 0
  /\ UNCHANGED <<reading, removal, exists, open, saves, sent, discard, row, landed, ghosts>>
SubmitAnswered(p) ==
  /\ p \in DOMAIN submits /\ submits[p].step \in {"ok", "refused"}
  /\ submits' = Without(submits, {p})
  /\ IF submits[p].step = "ok" THEN entry' = Idle /\ cache' = 0
                               ELSE UNCHANGED <<entry, cache>>
  /\ UNCHANGED <<reading, removal, exists, open, saves, sent, discard, row, landed, ghosts>>

SubmitFails(p) ==
  /\ p \in DOMAIN submits /\ submits[p].step \in {"sent", "ok"}
  /\ submits' = Without(submits, {p})
  /\ UNCHANGED <<reading, removal, exists, client, saves, sent, discard, row, landed, ghosts>>

(* Discard: pending saves are dropped first, then the row is deleted, then *)
(* the cache; a refusal leaves the cache as it was.                        *)
BeginDiscard ==
  /\ entry' = Idle
  /\ sent' = sent + 1
  /\ discard' = [step |-> "sent", number |-> sent + 1]

PressDiscard ==
  /\ open /\ cache # 0 /\ ~Busy /\ hides < MaxHides
  /\ Reading => SyncsMidEdit
  /\ hides' = hides + 1
  /\ BeginDiscard
  /\ UNCHANGED <<reading, removal, exists, open, cache, saves, submits, row, landed,
                 edits, presses, owed, forsaken, syncs>>

ServeDiscard ==
  /\ exists
  /\ discard.step = "sent"
  /\ InOrder => \A m \in DOMAIN saves : m < discard.number => saves[m].applied
  /\ row' = 0
  /\ discard' = [discard EXCEPT !.step = "served"]
  /\ owed' = IF entry.pending = 0 THEN 0 ELSE owed
  /\ UNCHANGED <<reading, removal, exists, client, saves, sent, submits, landed, edits,
                 presses, hides, forsaken, syncs>>

(* Answered, a discard that was the first half of a deletion sends the     *)
(* second.                                                                 *)
DiscardAnswered ==
  /\ discard.step = "served"
  /\ discard' = Quiet
  /\ cache' = 0
  /\ removal' = IF removal = "discarding" THEN "sent" ELSE removal
  /\ UNCHANGED <<reading, exists, open, entry, saves, sent, submits, row, landed, ghosts>>

(* Fault: the draft's entry is dropped because a discard was asked for.    *)
DroppedAsAsked ==
  /\ discard # Quiet
  /\ discard' = Quiet /\ removal' = "none"
  /\ forsaken' = TRUE
  /\ cache' = IF removal = "discarding" THEN 0 ELSE cache
  /\ UNCHANGED <<reading, exists, open, entry, saves, sent, submits, row, landed, edits,
                 presses, hides, owed, syncs>>
(* Refused or lost, a discard ends the deletion it was a part of.          *)
DiscardFails ==
  /\ discard # Quiet
  /\ discard' = Quiet /\ removal' = "none"
  /\ forsaken' = TRUE
  /\ UNCHANGED <<reading, exists, client, saves, sent, submits, row, landed, edits,
                 presses, hides, owed, syncs>>

----------------------------------------------------------------------------
(* Deleting a local review: the reviewer's own draft, if it holds text, is *)
(* discarded first, and only then is the deletion sent.                    *)
PressDelete ==
  /\ open /\ exists /\ ~Busy /\ hides < MaxHides
  /\ Reading => SyncsMidEdit
  /\ hides' = hides + 1
  /\ IF cache = 0 THEN removal' = "sent" /\ UNCHANGED <<entry, sent, discard>>
                  ELSE removal' = "discarding" /\ BeginDiscard
  /\ UNCHANGED <<reading, exists, open, cache, saves, submits, row, landed, edits,
                 presses, owed, forsaken, syncs>>

(* The daemon deletes no review whose drafts hold text, whoever wrote them *)
(* (another's is why it may refuse without a row of this reviewer's).      *)
ServeDelete ==
  /\ removal = "sent"
  /\ \/ row = 0 /\ exists /\ exists' = FALSE /\ removal' = "deleted"
     \/ exists' = exists /\ removal' = "refused"
  /\ UNCHANGED <<reading, client, saves, sent, submits, discard, row, landed, ghosts>>

(* Deleted: everything cached of the review goes, and so does the page.    *)
DeleteAnswered ==
  /\ removal \in {"deleted", "refused"}
  /\ IF removal = "deleted"
       THEN open' = FALSE /\ cache' = 0 /\ entry' = Idle /\ reading' = Unread
       ELSE UNCHANGED <<client, reading>>
  /\ removal' = "none"
  /\ UNCHANGED <<exists, saves, sent, submits, discard, row, landed, ghosts>>

DeleteFails ==
  /\ removal \in {"sent", "deleted"}
  /\ removal' = "none"
  /\ UNCHANGED <<reading, exists, client, saves, sent, submits, discard, row, landed, ghosts>>

----------------------------------------------------------------------------
(* The page is closed or reloaded: what is pending is flushed on the way   *)
(* out, and only what the daemon has comes back.  A reload is not pressed  *)
(* while a submit or discard is out, and comes after the old page's        *)
(* requests settled.                                                       *)
CloseTab ==
  /\ open /\ ~Busy /\ hides < MaxHides
  /\ hides' = hides + 1
  /\ Attempt(FALSE)
  /\ open' = FALSE /\ cache' = 0 /\ entry' = Idle /\ reading' = Unread
  /\ owed' = IF entry.pending = 0 /\ ~forsaken THEN owed ELSE 0
  /\ forsaken' = FALSE
  /\ UNCHANGED <<submits, discard, removal, exists, row, landed, edits, presses, syncs>>

OpenTab ==
  /\ ~open /\ exists /\ saves = EmptyTable
  /\ open' = TRUE /\ cache' = row
  /\ UNCHANGED <<entry, wire, exists, row, landed, ghosts>>

(* A sync has landed, and the draft entry is read again (useSyncPull's     *)
(* invalidation); what the daemon has replaces what the page has.          *)
Settled == entry.pending = 0 /\ saves = EmptyTable /\ ~Busy /\ ~forsaken
SyncLands ==
  /\ open /\ exists /\ syncs < MaxSyncs /\ ~Reading
  /\ SyncsMidEdit \/ Settled
  /\ syncs' = syncs + 1
  /\ sent' = sent + 1
  /\ reading' = [step |-> "sent", number |-> sent', version |-> 0]
  /\ UNCHANGED <<client, saves, submits, discard, removal, exists, row, landed, edits,
                 presses, hides, owed, forsaken>>

ServeRead ==
  /\ exists
  /\ reading.step = "sent"
  /\ InOrder => \A m \in DOMAIN saves : m < reading.number => saves[m].applied
  /\ reading' = [reading EXCEPT !.step = "served", !.version = row]
  /\ UNCHANGED <<client, saves, sent, submits, discard, removal, exists, row, landed, ghosts>>

ReadAnswered ==
  /\ reading.step = "served"
  /\ cache' = reading.version
  /\ reading' = Unread
  /\ UNCHANGED <<open, entry, saves, sent, submits, discard, removal, exists, row,
                 landed, ghosts>>

ReadFails ==
  /\ Reading
  /\ reading' = Unread
  /\ UNCHANGED <<client, saves, sent, submits, discard, removal, exists, row, landed, ghosts>>

ReadStep == ServeRead \/ ReadAnswered \/ ReadFails
SaveStep(n) == ApplySave(n) \/ SaveAnswered(n) \/ SaveFails(n)
SubmitStep(p) == SendSubmit(p) \/ ServeSubmit(p) \/ SubmitAnswered(p) \/ SubmitFails(p)
DiscardStep == ServeDiscard \/ DiscardAnswered \/ DiscardFails
DeleteStep == ServeDelete \/ DeleteAnswered \/ DeleteFails
Timers == SaveTimerFires \/ RetryTimerFires

DraftNext ==
  \/ Edit \/ HideTab \/ PressSubmit \/ PressDiscard \/ PressDelete \/ CloseTab \/ OpenTab
  \/ Timers
  \/ \E n \in DOMAIN saves : SaveStep(n)
  \/ \E p \in DOMAIN submits : SubmitStep(p)
  \/ DiscardStep
  \/ DeleteStep
  \/ SyncLands \/ ReadStep

DraftSpec == DraftInit /\ [][DraftNext]_draftVars

(* Timers fire and requests settle: the browser and the daemon's server    *)
(* see to both.                                                            *)
DraftFairSpec ==
  /\ DraftSpec
  /\ WF_draftVars(SaveTimerFires) /\ WF_draftVars(RetryTimerFires)
  /\ WF_draftVars(\E n \in DOMAIN saves : SaveStep(n))
  /\ WF_draftVars(\E p \in DOMAIN submits : SubmitStep(p))
  /\ WF_draftVars(DiscardStep) /\ WF_draftVars(DeleteStep) /\ WF_draftVars(ReadStep)

----------------------------------------------------------------------------

DraftTypeOK ==
  /\ {open, forsaken, exists} \subseteq BOOLEAN
  /\ removal \in {"none", "discarding", "sent", "deleted", "refused"}
  /\ {cache, row, owed, entry.pending, reading.version} \subseteq Versions
  /\ landed \subseteq Versions
  /\ \A n \in DOMAIN saves : n \in 1..sent /\ saves[n].version \in Versions \ {0}

(* "The editable text itself is never at risk": what the reviewer typed    *)
(* last is in the page, or, once the page that had it saved is gone, in    *)
(* the daemon's row, until it is posted or discarded.                      *)
TextSurvives ==
  owed = 0 \/ owed \in landed \/ owed = (IF open THEN cache ELSE row)

(* The client never falls behind in silence: a row that is not what the    *)
(* page shows is being saved, is about to be, or the bar says "not saved". *)
(* A failed discard is the documented exception, until the next edit.      *)
BehindIsTold ==
  open /\ cache \notin {0, row} =>
    \/ entry.saveTimer \/ entry.retryTimer \/ entry.dirty
    \/ saves # EmptyTable \/ Busy
    \/ cache \in landed \/ forsaken

(* A save settles: with or without the daemon, every edit ends up saved,   *)
(* superseded, or reported as not saved.                                   *)
SaveSettles ==
  (entry.pending # 0) ~> (entry.pending = 0 \/ entry.dirty)

(* dropPersistState: "a stale debounce timer cannot resurrect a deleted    *)
(* draft in the broker store": when everything has settled and the page    *)
(* has no draft, neither has the daemon.                                   *)
DeletedStaysDeleted ==
  open /\ cache = 0 /\ saves = EmptyTable /\ ~Busy /\ entry = Idle => row = 0
=============================================================================
