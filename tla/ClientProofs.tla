---------------------------- MODULE ClientProofs ----------------------------
(***************************************************************************)
(* What the client promises whoever writes in it, for any number of        *)
(* edits, requests, syncs, comments and threads.                           *)
(*                                                                         *)
(* The draft: versions grow, so among saves served in order a later one    *)
(* never carries less.  What is pending is the newest version, and it is   *)
(* either on its way, about to be, or reported; and when nothing is        *)
(* pending, the row is what the page shows and nothing older is still to   *)
(* come.                                                                   *)
(*                                                                         *)
(* The query cache: each request is followed from the press to its end,    *)
(* and what the page shows is what the server last said, with on top of    *)
(* it exactly the writes that are out.  A request that is answered takes   *)
(* its own mark off, a fetch that crossed a write is thrown away.          *)
(*                                                                         *)
(* The Files tab: a text kept for the anchor of the open composer is the   *)
(* one in it, so what is put over it there loses nothing.                  *)
(***************************************************************************)
EXTENDS DraftPersistence, ClientCache, FilesView,
        NaturalsInduction, WellFoundedInduction, SequenceTheorems, TLAPS

-----------------------------------------------------------------------------
(* Writing and deleting rows keeps a table a table of its type.            *)
LEMMA UpsertType ==
  ASSUME NEW K, NEW V, NEW t, IsTable(t, K, V), NEW k \in K, NEW v \in V
  PROVE  IsTable(Upsert(t, k, v), K, V) /\ DOMAIN Upsert(t, k, v) = DOMAIN t \cup {k}
BY DEF IsTable, Upsert

LEMMA WithoutType ==
  ASSUME NEW K, NEW V, NEW t, IsTable(t, K, V), NEW S
  PROVE  IsTable(Without(t, S), K, V) /\ DOMAIN Without(t, S) = DOMAIN t \ S
BY DEF IsTable, Without, Restrict

LEMMA EmptyTableIsTable ==
  ASSUME NEW K, NEW V
  PROVE  IsTable(EmptyTable, K, V) /\ DOMAIN EmptyTable = {}
BY DEF IsTable, EmptyTable

LEMMA ExceptTable ==
  ASSUME NEW K, NEW V, NEW t, IsTable(t, K, V), NEW k \in DOMAIN t, NEW v \in V
  PROVE  /\ IsTable([t EXCEPT ![k] = v], K, V)
         /\ DOMAIN [t EXCEPT ![k] = v] = DOMAIN t
         /\ [t EXCEPT ![k] = v][k] = v
         /\ \A x \in DOMAIN t : x # k => [t EXCEPT ![k] = v][x] = t[x]
BY DEF IsTable

-----------------------------------------------------------------------------
(* What is assumed of the browser, the daemon and the reviewer: without    *)
(* any one of the three a run finds text lost, or behind in silence.       *)
Orderly == InOrder /\ ~EditsMidWrite /\ ~SyncsMidEdit

-----------------------------------------------------------------------------
(* The inductive invariant. *)

PersistEntry == [saveTimer : BOOLEAN, retryTimer : BOOLEAN, pending : Nat, dirty : BOOLEAN]
Save == [version : Nat, retry : BOOLEAN, applied : BOOLEAN]
Submit == [version : Nat, flush : Nat, step : {"flushing", "sent", "ok", "refused"}]
Discard == [step : {"none", "sent", "served"}, number : Nat]
Read == [step : {"none", "sent", "served"}, number : Nat, version : Nat]

Typed ==
  /\ open \in BOOLEAN /\ exists \in BOOLEAN /\ forsaken \in BOOLEAN
  /\ cache \in Nat /\ row \in Nat /\ owed \in Nat /\ landed \in SUBSET Nat
  /\ entry \in PersistEntry /\ IsTable(saves, Nat, Save) /\ IsTable(submits, Nat, Submit)
  /\ discard \in Discard /\ reading \in Read
  /\ removal \in {"none", "discarding", "sent", "deleted", "refused"}
  /\ edits \in Nat /\ sent \in Nat /\ presses \in Nat /\ hides \in Nat /\ syncs \in Nat

\* Saves are numbered as sent, and a later one carries no less; they are served
\* in that order.
SavesAreInOrder ==
  /\ \A n \in DOMAIN saves : n <= sent /\ saves[n].version \in Nat \ {0}
                             /\ saves[n].version <= edits
  /\ \A m, n \in DOMAIN saves :
       m < n => /\ saves[m].version <= saves[n].version
                /\ saves[n].applied = TRUE => saves[m].applied = TRUE

\* What is pending is what was typed last, is what the page shows, and is on
\* its way, about to be, or reported; if a save of it was served, the row has it.
PendingIsNewest ==
  entry.pending # 0 =>
    /\ open /\ entry.pending = edits /\ cache = edits /\ owed = edits
    /\ \/ entry.saveTimer = TRUE \/ entry.retryTimer = TRUE \/ entry.dirty = TRUE
       \/ \E n \in DOMAIN saves : saves[n].version = edits
    /\ edits \notin landed =>
         \A n \in DOMAIN saves :
           saves[n].applied = TRUE /\ saves[n].version = edits => row = edits

\* Nothing pending: the row has what the page shows, and will keep it.
Unsaved(n) == saves[n].applied = FALSE
CleanIsStored ==
  open /\ entry.pending = 0 /\ ~forsaken /\ discard.step = "none" =>
    cache = 0 \/ cache \in landed \/
      (row = cache /\ \A n \in DOMAIN saves : Unsaved(n) => saves[n].version = cache)
ClosedIsStored ==
  ~open =>
    /\ entry.pending = 0
    /\ owed = 0 \/ owed \in landed \/
         (row = owed /\ \A n \in DOMAIN saves : Unsaved(n) => saves[n].version = owed)

\* One kind of write at a time, none of a closed page; a submit is of what the
\* page shows; a discard has nothing pending.
OneWrite ==
  /\ DOMAIN submits # {} => open /\ discard.step = "none" /\ removal = "none"
  /\ \A p \in DOMAIN submits :
       /\ cache = 0 \/ submits[p].version = cache
       /\ submits[p].step = "ok" => submits[p].version \in landed
  /\ discard.step # "none" =>
       open /\ entry.pending = 0 /\ removal \in {"none", "discarding"}
  /\ discard.step = "served" => owed = 0
  /\ discard.step = "none" => discard = Quiet
  /\ removal = "discarding" => discard.step # "none"
  /\ removal \in {"sent", "deleted", "refused"} => open /\ cache = 0

\* While the draft is read again, nothing moves.
ReadIsQuiet ==
  /\ reading.step = "none" => reading = Unread
  /\ reading.step # "none" =>
       /\ open /\ entry.pending = 0 /\ ~forsaken /\ DOMAIN saves = {} /\ DOMAIN submits = {}
       /\ discard.step = "none" /\ removal = "none"
  /\ reading.step = "served" => reading.version = row

DInv ==
  /\ Typed /\ SavesAreInOrder /\ PendingIsNewest /\ CleanIsStored /\ ClosedIsStored
  /\ OneWrite /\ ReadIsQuiet /\ TextSurvives

-----------------------------------------------------------------------------
(* What the parts of the state are. *)

LEMMA EntryFields ==
  ASSUME Typed
  PROVE  /\ entry = [saveTimer |-> entry.saveTimer, retryTimer |-> entry.retryTimer,
                     pending |-> entry.pending, dirty |-> entry.dirty]
         /\ entry.saveTimer \in BOOLEAN /\ entry.retryTimer \in BOOLEAN
         /\ entry.pending \in Nat /\ entry.dirty \in BOOLEAN
BY DEF Typed, PersistEntry

LEMMA SaveFields ==
  ASSUME Typed, NEW n \in DOMAIN saves
  PROVE  /\ n \in Nat /\ saves[n] \in Save
         /\ saves[n].version \in Nat /\ saves[n].retry \in BOOLEAN /\ saves[n].applied \in BOOLEAN
<1>1. n \in Nat /\ saves[n] \in Save
  BY DEF Typed, IsTable
<1> QED
  BY <1>1 DEF Save

LEMMA IdleIs ==
  /\ Idle \in PersistEntry /\ Idle.pending = 0
  /\ Idle.saveTimer = FALSE /\ Idle.retryTimer = FALSE /\ Idle.dirty = FALSE
BY DEF Idle, PersistEntry

\* What the timers and answers make of an entry.
LEMMA EntryMoves ==
  ASSUME NEW e \in PersistEntry
  PROVE  /\ [e EXCEPT !.saveTimer = FALSE] \in PersistEntry
         /\ [e EXCEPT !.saveTimer = FALSE].pending = e.pending
         /\ [e EXCEPT !.retryTimer = FALSE] \in PersistEntry
         /\ [e EXCEPT !.retryTimer = FALSE].pending = e.pending
         /\ ClearTimers(e) \in PersistEntry /\ ClearTimers(e).pending = e.pending
BY DEF PersistEntry, ClearTimers

LEMMA EntryAnswered ==
  ASSUME NEW e \in PersistEntry
  PROVE  /\ [e EXCEPT !.pending = 0, !.dirty = FALSE] \in PersistEntry
         /\ [e EXCEPT !.pending = 0, !.dirty = FALSE].pending = 0
         /\ [e EXCEPT !.dirty = TRUE] \in PersistEntry
         /\ [e EXCEPT !.dirty = TRUE].pending = e.pending
         /\ [e EXCEPT !.dirty = TRUE].dirty = TRUE
         /\ [e EXCEPT !.retryTimer = TRUE] \in PersistEntry
         /\ [e EXCEPT !.retryTimer = TRUE].pending = e.pending
         /\ [e EXCEPT !.retryTimer = TRUE].retryTimer = TRUE
BY DEF PersistEntry

LEMMA EntryScheduled ==
  ASSUME NEW e \in PersistEntry, NEW v \in Nat
  PROVE  LET f == [e EXCEPT !.pending = v, !.saveTimer = TRUE, !.retryTimer = FALSE]
         IN  f \in PersistEntry /\ f.pending = v /\ f.saveTimer = TRUE
BY DEF PersistEntry

LEMMA NewSave ==
  ASSUME NEW v \in Nat, NEW retry \in BOOLEAN, NEW s,
         s = [version |-> v, retry |-> retry, applied |-> FALSE]
  PROVE  s \in Save /\ s.version = v /\ s.applied = FALSE
BY DEF Save

LEMMA AppliedSave ==
  ASSUME NEW s \in Save
  PROVE  LET t == [s EXCEPT !.applied = TRUE]
         IN  t \in Save /\ t.version = s.version /\ t.applied = TRUE
BY DEF Save

(* A save is sent if something is pending: it carries what was typed last. *)
LEMMA AttemptSends ==
  ASSUME Typed, SavesAreInOrder, PendingIsNewest, NEW retry \in BOOLEAN, Attempt(retry),
         edits' = edits
  PROVE  /\ IsTable(saves', Nat, Save) /\ sent' \in Nat /\ SavesAreInOrder'
         /\ DOMAIN saves \subseteq DOMAIN saves'
         /\ \A n \in DOMAIN saves : saves'[n] = saves[n]
         /\ \A n \in DOMAIN saves' : n \in DOMAIN saves \/
              (saves'[n].version = edits /\ saves'[n].applied = FALSE)
         /\ entry.pending = 0 => saves' = saves
         /\ entry.pending # 0 => \E n \in DOMAIN saves' : saves'[n].version = edits
<1>1. IsTable(saves, Nat, Save) /\ sent \in Nat /\ edits \in Nat /\ entry.pending \in Nat
  BY EntryFields DEF Typed
<1>2. CASE entry.pending = 0
  <2>1. saves' = saves /\ sent' = sent
    BY <1>2 DEF Attempt
  <2> QED
    BY <1>1, <1>2, <2>1 DEF SavesAreInOrder
<1>3. CASE entry.pending # 0
  <2>1. PICK k : k = sent + 1
    OBVIOUS
  <2>2. PICK s : s = [version |-> entry.pending, retry |-> retry, applied |-> FALSE]
    OBVIOUS
  <2>3. s \in Save /\ s.version = edits /\ s.applied = FALSE
    <3>1. s \in Save /\ s.version = entry.pending /\ s.applied = FALSE
      BY <1>1, <2>2, NewSave
    <3>2. entry.pending = edits
      BY <1>3 DEF PendingIsNewest
    <3> QED
      BY <3>1, <3>2
  <2>4. saves' = Upsert(saves, k, s) /\ sent' = k /\ k \in Nat /\ sent < k
    BY <1>1, <1>3, <2>1, <2>2 DEF Attempt, SaveOf
  <2>5. IsTable(saves', Nat, Save)
    BY <1>1, <2>3, <2>4, UpsertType
  <2>6. /\ DOMAIN saves' = DOMAIN saves \cup {k}
        /\ saves'[k] = s
        /\ \A n \in DOMAIN saves : n # k => saves'[n] = saves[n]
    BY <2>4 DEF Upsert
  <2>7. \A n \in DOMAIN saves : n \in Nat /\ n <= sent /\ saves[n].version \in Nat \ {0}
                                /\ saves[n].version <= edits
    BY SaveFields DEF SavesAreInOrder
  <2>8. \A n \in DOMAIN saves : n < k /\ n # k
    BY <1>1, <2>4, <2>7
  <2>9. edits # 0
    BY <1>3 DEF PendingIsNewest
  <2>10. \A n \in DOMAIN saves' : n <= sent' /\ saves'[n].version \in Nat \ {0}
                                  /\ saves'[n].version <= edits
    BY <1>1, <2>3, <2>4, <2>6, <2>7, <2>8, <2>9
  <2>11. ASSUME NEW m \in DOMAIN saves', NEW n \in DOMAIN saves', m < n
         PROVE  /\ saves'[m].version <= saves'[n].version
                /\ saves'[n].applied = TRUE => saves'[m].applied = TRUE
    <3>1. CASE m \in DOMAIN saves /\ n \in DOMAIN saves
      BY <2>6, <2>8, <2>11, <3>1 DEF SavesAreInOrder
    <3>2. CASE n = k
      BY <2>3, <2>6, <2>10, <3>2
    <3>3. CASE m = k /\ n \in DOMAIN saves
      <4>1. n < k /\ n \in Nat /\ k \in Nat /\ k < n
        BY <2>4, <2>7, <2>8, <2>11, <3>3
      <4> QED
        BY <4>1
    <3> QED
      BY <2>6, <3>1, <3>2, <3>3
  <2>12. SavesAreInOrder'
    BY <2>10, <2>11 DEF SavesAreInOrder
  <2>13. /\ \A n \in DOMAIN saves : saves'[n] = saves[n]
         /\ \A n \in DOMAIN saves' : n \in DOMAIN saves \/
              (saves'[n].version = edits /\ saves'[n].applied = FALSE)
         /\ k \in DOMAIN saves' /\ saves'[k].version = edits
    BY <2>3, <2>6, <2>8
  <2> QED
    BY <1>3, <2>4, <2>5, <2>6, <2>12, <2>13
<1> QED
  BY <1>2, <1>3

-----------------------------------------------------------------------------
(* Edits and sends. *)

LEMMA NotBusy ==
  ASSUME DInv
  PROVE  /\ ~Busy => DOMAIN submits = {} /\ discard = Quiet /\ discard.step = "none"
                     /\ removal = "none"
         /\ ~Reading => reading = Unread /\ reading.step = "none"
<1>1. DOMAIN EmptyTable = {}
  BY DEF EmptyTable
<1>2. Quiet.step = "none" /\ Unread.step = "none"
  BY DEF Quiet, Unread
<1> QED
  BY <1>1, <1>2 DEF Busy, Reading

LEMMA EditStep ==
  ASSUME Orderly, DInv, Edit
  PROVE  DInv'
<1>1. /\ ~Busy /\ ~Reading
      /\ open = TRUE /\ open' = open /\ edits' = edits + 1 /\ cache' = edits' /\ owed' = edits'
      /\ forsaken' = FALSE
      /\ saves' = saves /\ sent' = sent /\ submits' = submits /\ discard' = discard
      /\ removal' = removal /\ reading' = reading /\ exists' = exists /\ row' = row
      /\ landed' = landed /\ presses' = presses /\ hides' = hides /\ syncs' = syncs
  BY DEF Edit, Orderly, wire, DInv, Typed
<1>2. /\ DOMAIN submits = {} /\ discard = Quiet /\ discard.step = "none" /\ removal = "none"
      /\ reading = Unread /\ reading.step = "none"
  BY <1>1, NotBusy
<1>3. edits \in Nat /\ edits' \in Nat /\ edits' # 0 /\ edits < edits'
  BY <1>1 DEF DInv, Typed
<1>4. /\ entry' \in PersistEntry /\ entry'.pending = edits' /\ entry'.saveTimer = TRUE
  <2>1. PICK v : v = edits'
    OBVIOUS
  <2>2. entry \in PersistEntry /\ v \in Nat
    BY <1>3, <2>1 DEF DInv, Typed
  <2>3. entry' = [entry EXCEPT !.pending = v, !.saveTimer = TRUE, !.retryTimer = FALSE]
    BY <2>1 DEF Edit
  <2> QED
    BY <2>1, <2>2, <2>3, EntryScheduled
<1>5. \A n \in DOMAIN saves : /\ n <= sent /\ saves[n].version \in Nat \ {0}
                              /\ saves[n].version <= edits
  BY DEF DInv, SavesAreInOrder
<1>6. Typed'
  BY <1>1, <1>3, <1>4 DEF DInv, Typed
<1>7. SavesAreInOrder'
  <2>1. \A n \in DOMAIN saves : saves[n].version <= edits'
    BY <1>3, <1>5
  <2> QED
    BY <1>1, <1>5, <2>1 DEF DInv, SavesAreInOrder
<1>8. PendingIsNewest'
  <2>1. \A n \in DOMAIN saves : saves[n].version # edits'
    BY <1>3, <1>5
  <2> QED
    BY <1>1, <1>4, <2>1 DEF PendingIsNewest
<1>9. CleanIsStored' /\ ClosedIsStored' /\ TextSurvives'
  BY <1>1, <1>3, <1>4 DEF CleanIsStored, ClosedIsStored, TextSurvives
<1>10. OneWrite' /\ ReadIsQuiet'
  BY <1>1, <1>2 DEF OneWrite, ReadIsQuiet, Quiet, Unread
<1> QED
  BY <1>6, <1>7, <1>8, <1>9, <1>10 DEF DInv

(* A send, whatever caused it: the timers aside, nothing else moves.       *)
LEMMA SendStep ==
  ASSUME DInv, NEW retry \in BOOLEAN, Attempt(retry), open = TRUE,
         UNCHANGED <<open, cache, discard, removal, reading, exists, row, landed, edits, owed,
                     forsaken, syncs>>,
         hides' \in Nat, presses' \in Nat,
         entry' \in PersistEntry, entry'.pending = entry.pending,
         IsTable(submits', Nat, Submit),
         submits' = submits \/ reading.step = "none", OneWrite'
  PROVE  DInv'
<1>1. /\ IsTable(saves', Nat, Save) /\ sent' \in Nat /\ SavesAreInOrder'
      /\ DOMAIN saves \subseteq DOMAIN saves'
      /\ \A n \in DOMAIN saves : saves'[n] = saves[n]
      /\ \A n \in DOMAIN saves' : n \in DOMAIN saves \/
           (saves'[n].version = edits /\ saves'[n].applied = FALSE)
      /\ entry.pending = 0 => saves' = saves
      /\ entry.pending # 0 => \E n \in DOMAIN saves' : saves'[n].version = edits
  BY AttemptSends DEF DInv
<1>2. Typed'
  BY <1>1 DEF DInv, Typed
<1>3. PendingIsNewest'
  <2> SUFFICES ASSUME entry.pending # 0
               PROVE  PendingIsNewest'
    BY DEF PendingIsNewest
  <2>1. \E n \in DOMAIN saves' : saves'[n].version = edits'
    BY <1>1
  <2>2. ASSUME edits \notin landed, NEW n \in DOMAIN saves',
               saves'[n].applied = TRUE, saves'[n].version = edits
        PROVE  row = edits
    <3>1. n \in DOMAIN saves /\ saves[n] = saves'[n]
      BY <1>1, <2>2
    <3> QED
      BY <2>2, <3>1 DEF DInv, PendingIsNewest
  <2>3. open /\ entry.pending = edits /\ cache = edits /\ owed = edits
    BY DEF DInv, PendingIsNewest
  <2> QED
    BY <2>1, <2>2, <2>3 DEF PendingIsNewest
<1>4. CleanIsStored'
  BY <1>1 DEF DInv, CleanIsStored, Unsaved
<1>5. ClosedIsStored' /\ TextSurvives'
  BY DEF DInv, ClosedIsStored, TextSurvives
<1>6. ReadIsQuiet'
  BY <1>1 DEF DInv, ReadIsQuiet, Unread
<1> QED
  BY <1>1, <1>2, <1>3, <1>4, <1>5, <1>6 DEF DInv

LEMMA TimerStep ==
  ASSUME DInv, Timers
  PROVE  DInv'
<1>1. entry \in PersistEntry
  BY DEF DInv, Typed
<1>2. entry' \in PersistEntry /\ entry'.pending = entry.pending
  BY <1>1, EntryMoves DEF Timers, SaveTimerFires, RetryTimerFires
<1>3. PICK retry \in BOOLEAN : Attempt(retry)
  BY DEF Timers, SaveTimerFires, RetryTimerFires
<1>4. /\ open = TRUE /\ UNCHANGED <<open, cache, discard, removal, reading, exists, row,
                                    landed, edits,
                                    owed, forsaken, syncs>>
      /\ submits' = submits /\ presses' = presses /\ hides' = hides
  BY DEF Timers, SaveTimerFires, RetryTimerFires, ghosts, DInv, Typed
<1>5. IsTable(submits', Nat, Submit) /\ hides' \in Nat /\ presses' \in Nat
  BY <1>4 DEF DInv, Typed
<1>6. OneWrite'
  BY <1>2, <1>4 DEF DInv, OneWrite, Quiet
<1> QED
  BY <1>2, <1>3, <1>4, <1>5, <1>6, SendStep

LEMMA FlushedIs ==
  ASSUME DInv
  PROVE  Flushed \in PersistEntry /\ Flushed.pending = entry.pending
BY EntryMoves DEF DInv, Typed, Flushed

LEMMA HideTabStep ==
  ASSUME DInv, HideTab
  PROVE  DInv'
<1>1. entry' \in PersistEntry /\ entry'.pending = entry.pending
  BY FlushedIs DEF HideTab
<1>2. Attempt(FALSE) /\ FALSE \in BOOLEAN
  BY DEF HideTab
<1>3. /\ open = TRUE /\ UNCHANGED <<open, cache, discard, removal, reading, exists, row,
                                    landed, edits,
                                    owed, forsaken, syncs>>
      /\ submits' = submits /\ presses' = presses /\ hides' = hides + 1
  BY DEF HideTab, DInv, Typed
<1>4. IsTable(submits', Nat, Submit) /\ hides' \in Nat /\ presses' \in Nat
  BY <1>3 DEF DInv, Typed
<1>5. OneWrite'
  BY <1>1, <1>3 DEF DInv, OneWrite, Quiet
<1> QED
  BY <1>1, <1>2, <1>3, <1>4, <1>5, SendStep

LEMMA PressSubmitStep ==
  ASSUME Orderly, DInv, PressSubmit
  PROVE  DInv'
<1>1. entry' \in PersistEntry /\ entry'.pending = entry.pending
  BY FlushedIs DEF PressSubmit
<1>2. Attempt(FALSE) /\ FALSE \in BOOLEAN
  BY DEF PressSubmit
<1>3. /\ open = TRUE /\ UNCHANGED <<open, cache, discard, removal, reading, exists, row,
                                    landed, edits,
                                    owed, forsaken, syncs>>
      /\ presses' = presses + 1 /\ hides' = hides
      /\ cache # 0 /\ discard = Quiet /\ removal = "none" /\ ~Reading
  BY DEF PressSubmit, DInv, Typed, Orderly
<1>4. hides' \in Nat /\ presses' \in Nat /\ cache \in Nat
  BY <1>3 DEF DInv, Typed
<1>5. reading.step = "none"
  BY <1>3, NotBusy
<1>6. edits' = edits
  BY <1>3
<1>7. sent' \in Nat
  BY <1>2, <1>6, AttemptSends DEF DInv
<1>8. PICK step : step = IF sent' = sent THEN "sent" ELSE "flushing"
  OBVIOUS
<1>9. PICK k : k = presses'
  OBVIOUS
<1>10. PICK s : s = [version |-> cache, flush |-> sent', step |-> step]
  OBVIOUS
<1>11. s \in Submit /\ s.version = cache /\ s.step # "ok"
  <2>1. step \in {"flushing", "sent", "ok", "refused"} /\ step # "ok"
    BY <1>8
  <2> QED
    BY <1>4, <1>7, <1>10, <2>1 DEF Submit
<1>12. submits' = Upsert(submits, k, s)
  BY <1>8, <1>9, <1>10 DEF PressSubmit
<1>13. IsTable(submits', Nat, Submit)
  <2>1. IsTable(submits, Nat, Submit) /\ k \in Nat
    BY <1>4, <1>9 DEF DInv, Typed
  <2> QED
    BY <1>11, <1>12, <2>1, UpsertType
<1>14. /\ DOMAIN submits' = DOMAIN submits \cup {k}
       /\ submits'[k] = s
       /\ \A p \in DOMAIN submits : p # k => submits'[p] = submits[p]
  BY <1>12 DEF Upsert
<1>15. OneWrite'
  <2>1. \A p \in DOMAIN submits' :
          /\ cache = 0 \/ submits'[p].version = cache
          /\ submits'[p].step = "ok" => submits'[p].version \in landed
    BY <1>11, <1>14 DEF DInv, OneWrite
  <2>2. Quiet.step = "none"
    BY DEF Quiet
  <2> QED
    BY <1>3, <2>1, <2>2 DEF OneWrite, Quiet
<1> QED
  BY <1>1, <1>2, <1>3, <1>4, <1>5, <1>13, <1>15, SendStep

-----------------------------------------------------------------------------
(* A save is served, and settles. *)

LEMMA ApplySaveStep ==
  ASSUME Orderly, DInv, NEW n \in DOMAIN saves, ApplySave(n)
  PROVE  DInv'
<1>1. /\ row' = saves[n].version
      /\ saves' = [saves EXCEPT ![n] = [saves[n] EXCEPT !.applied = TRUE]]
      /\ UNCHANGED <<reading, removal, exists, open, cache, entry, sent, submits, discard, landed,
                     edits, presses, hides, syncs, owed, forsaken>>
  BY DEF ApplySave, client, ghosts
<1>2. \A m \in DOMAIN saves : /\ m \in Nat /\ saves[m] \in Save /\ m <= sent
                              /\ saves[m].version \in Nat \ {0} /\ saves[m].version <= edits
  BY SaveFields DEF DInv, SavesAreInOrder
<1>3. saves[n].applied = FALSE /\ \A m \in DOMAIN saves : m < n => saves[m].applied = TRUE
  <2>1. \A m \in DOMAIN saves : saves[m].applied \in BOOLEAN
    BY SaveFields DEF DInv
  <2>2. ~saves[n].applied /\ \A m \in DOMAIN saves : m < n => saves[m].applied
    BY DEF ApplySave, Orderly
  <2> QED
    BY <2>1, <2>2
<1>4. PICK t : t = [saves[n] EXCEPT !.applied = TRUE]
  OBVIOUS
<1>5. t \in Save /\ t.version = saves[n].version /\ t.applied = TRUE
  BY <1>2, <1>4, AppliedSave
<1>6. /\ IsTable(saves', Nat, Save) /\ DOMAIN saves' = DOMAIN saves
      /\ saves'[n] = t /\ \A m \in DOMAIN saves : m # n => saves'[m] = saves[m]
  <2>1. saves' = [saves EXCEPT ![n] = t] /\ IsTable(saves, Nat, Save)
    BY <1>1, <1>4 DEF DInv, Typed
  <2> QED
    BY <1>5, <2>1, ExceptTable
<1>7. \A m \in DOMAIN saves : saves'[m].version = saves[m].version
  BY <1>5, <1>6
<1>8. \A m \in DOMAIN saves : saves'[m].applied = TRUE <=> (m = n \/ saves[m].applied = TRUE)
  BY <1>5, <1>6
<1>9. Typed'
  BY <1>1, <1>2, <1>6 DEF DInv, Typed
<1>10. SavesAreInOrder'
  <2>1. ASSUME NEW m \in DOMAIN saves, NEW k \in DOMAIN saves, m < k
        PROVE  /\ saves'[m].version <= saves'[k].version
               /\ saves'[k].applied = TRUE => saves'[m].applied = TRUE
    <3>1. /\ saves[m].version <= saves[k].version
          /\ saves[k].applied = TRUE => saves[m].applied = TRUE
      BY <2>1 DEF DInv, SavesAreInOrder
    <3> QED
      BY <1>3, <1>7, <1>8, <2>1, <3>1
  <2> QED
    BY <1>1, <1>2, <1>6, <1>7, <2>1 DEF SavesAreInOrder
<1>11. PendingIsNewest'
  <2> SUFFICES ASSUME entry.pending # 0
               PROVE  PendingIsNewest'
    BY <1>1 DEF PendingIsNewest
  <2>1. /\ open /\ entry.pending = edits /\ cache = edits /\ owed = edits
        /\ \/ entry.saveTimer = TRUE \/ entry.retryTimer = TRUE \/ entry.dirty = TRUE
           \/ \E m \in DOMAIN saves : saves[m].version = edits
    BY DEF DInv, PendingIsNewest
  <2>2. ASSUME NEW m \in DOMAIN saves, saves'[m].applied = TRUE, saves[m].version = edits
        PROVE  saves[n].version = edits
    <3>1. CASE m = n
      BY <2>2, <3>1
    <3>2. CASE m # n
      <4>1. ~(n < m)
        <5>1. saves[m].applied = TRUE
          BY <1>8, <2>2, <3>2
        <5> QED
          BY <1>3, <5>1 DEF DInv, SavesAreInOrder
      <4>2. m < n
        BY <1>2, <3>2, <4>1
      <4>3. saves[m].version <= saves[n].version /\ saves[n].version <= edits
        BY <1>2, <4>2 DEF DInv, SavesAreInOrder
      <4> QED
        BY <1>2, <2>1, <2>2, <4>3
    <3> QED
      BY <3>1, <3>2
  <2>3. \A m \in DOMAIN saves' :
          saves'[m].applied = TRUE /\ saves'[m].version = edits => row' = edits
    BY <1>1, <1>6, <1>7, <2>2
  <2> QED
    BY <1>1, <1>6, <1>7, <2>1, <2>3 DEF PendingIsNewest
<1>12. Unsaved(n) /\ \A m \in DOMAIN saves : Unsaved(m)' => Unsaved(m)
  BY <1>3, <1>5, <1>6 DEF Unsaved
<1>13. CleanIsStored'
  BY <1>1, <1>6, <1>7, <1>12 DEF DInv, CleanIsStored
<1>14. ClosedIsStored' /\ TextSurvives'
  BY <1>1, <1>6, <1>7, <1>12 DEF DInv, ClosedIsStored, TextSurvives
<1>15. OneWrite'
  BY <1>1 DEF DInv, OneWrite, Quiet
<1>16. ReadIsQuiet'
  BY <1>1 DEF DInv, ReadIsQuiet, Unread
<1> QED
  BY <1>9, <1>10, <1>11, <1>13, <1>14, <1>15, <1>16 DEF DInv

\* What the tables keep when a save is settled.
LEMMA SettledSaves ==
  ASSUME DInv, NEW n \in DOMAIN saves, saves' = Without(saves, {n}), UNCHANGED <<sent, edits>>
  PROVE  /\ IsTable(saves', Nat, Save) /\ SavesAreInOrder'
         /\ DOMAIN saves' = DOMAIN saves \ {n}
         /\ \A m \in DOMAIN saves' : saves'[m] = saves[m]
<1>1. IsTable(saves, Nat, Save)
  BY DEF DInv, Typed
<1>2. IsTable(saves', Nat, Save) /\ DOMAIN saves' = DOMAIN saves \ {n}
  BY <1>1, WithoutType
<1>3. \A m \in DOMAIN saves' : saves'[m] = saves[m]
  BY <1>2 DEF Without, Restrict
<1> QED
  BY <1>2, <1>3 DEF DInv, SavesAreInOrder

LEMMA SaveSettlesStep ==
  ASSUME DInv, NEW n \in DOMAIN saves, SaveAnswered(n) \/ SaveFails(n)
  PROVE  DInv'
<1>1. /\ saves' = Without(saves, {n})
      /\ UNCHANGED <<reading, removal, exists, open, cache, sent, submits, discard, row, landed,
                     edits, presses, hides, syncs, owed, forsaken>>
  BY DEF SaveAnswered, SaveFails, ghosts
<1>2. /\ IsTable(saves', Nat, Save) /\ SavesAreInOrder'
      /\ DOMAIN saves' = DOMAIN saves \ {n}
      /\ \A m \in DOMAIN saves' : saves'[m] = saves[m]
  BY <1>1, SettledSaves
<1>3. \A m \in DOMAIN saves : /\ m \in Nat /\ m <= sent
                              /\ saves[m].version \in Nat \ {0} /\ saves[m].version <= edits
  BY SaveFields DEF DInv, SavesAreInOrder
<1>4. entry \in PersistEntry /\ edits \in Nat
  BY DEF DInv, Typed
<1>5. \/ entry' = entry /\ (open => entry.pending # saves[n].version)
      \/ entry.pending = saves[n].version /\ entry'.pending = entry.pending
           /\ (entry'.dirty = TRUE \/ entry'.retryTimer = TRUE) /\ entry' \in PersistEntry
      \/ entry.pending = saves[n].version /\ entry'.pending = 0 /\ entry' \in PersistEntry
           /\ saves[n].applied /\ open
  <2>1. CASE SaveAnswered(n)
    BY <1>4, <2>1, EntryAnswered DEF SaveAnswered
  <2>2. CASE SaveFails(n)
    BY <1>4, <2>2, EntryAnswered DEF SaveFails
  <2> QED
    BY <2>1, <2>2
<1>6. entry' \in PersistEntry /\ entry'.pending \in {0, entry.pending}
  BY <1>4, <1>5
<1>7. Typed'
  BY <1>1, <1>2, <1>6 DEF DInv, Typed
<1>8. PendingIsNewest'
  <2> SUFFICES ASSUME entry'.pending # 0
               PROVE  PendingIsNewest'
    BY DEF PendingIsNewest
  <2>1. entry.pending # 0 /\ entry'.pending = entry.pending
    BY <1>6
  <2>2. /\ open /\ entry.pending = edits /\ cache = edits /\ owed = edits
        /\ \/ entry.saveTimer = TRUE \/ entry.retryTimer = TRUE \/ entry.dirty = TRUE
           \/ \E m \in DOMAIN saves : saves[m].version = edits
        /\ edits \notin landed =>
              \A m \in DOMAIN saves :
                saves[m].applied = TRUE /\ saves[m].version = edits => row = edits
    BY <2>1 DEF DInv, PendingIsNewest
  <2>3. \/ entry'.saveTimer = TRUE \/ entry'.retryTimer = TRUE \/ entry'.dirty = TRUE
        \/ \E m \in DOMAIN saves' : saves'[m].version = edits
    <3>1. CASE entry' = entry /\ entry.pending # saves[n].version
      <4>1. saves[n].version # edits
        BY <2>2, <3>1
      <4> QED
        BY <1>2, <2>2, <3>1, <4>1
    <3>2. CASE entry'.dirty = TRUE \/ entry'.retryTimer = TRUE
      BY <3>2
    <3> QED
      BY <1>5, <2>1, <2>2, <3>1, <3>2
  <2>4. edits \notin landed =>
          \A m \in DOMAIN saves' :
            saves'[m].applied = TRUE /\ saves'[m].version = edits => row = edits
    BY <1>2, <2>2
  <2> QED
    BY <1>1, <2>1, <2>2, <2>3, <2>4 DEF PendingIsNewest
<1>9. \A m \in DOMAIN saves' : Unsaved(m)' <=> Unsaved(m)
  BY <1>2 DEF Unsaved
<1>10. CleanIsStored'
  <2> SUFFICES ASSUME open, entry'.pending = 0, ~forsaken, discard.step = "none",
                      cache # 0, cache \notin landed
               PROVE  row = cache /\ \A m \in DOMAIN saves' : Unsaved(m)' => saves'[m].version = cache
    BY <1>1 DEF CleanIsStored
  <2>1. CASE entry.pending = 0
    <3>1. row = cache /\ \A m \in DOMAIN saves : Unsaved(m) => saves[m].version = cache
      BY <2>1 DEF DInv, CleanIsStored
    <3> QED
      BY <1>2, <1>9, <3>1
  <2>2. CASE entry.pending # 0
    <3>1. entry.pending = saves[n].version /\ saves[n].applied
      BY <1>5, <2>2
    <3>2. saves[n].applied = TRUE
      <4>1. saves[n].applied \in BOOLEAN
        BY SaveFields DEF DInv
      <4> QED
        BY <3>1, <4>1
    <3>3. /\ entry.pending = edits /\ cache = edits
          /\ edits \notin landed => (saves[n].applied = TRUE /\ saves[n].version = edits => row = edits)
      BY <2>2 DEF DInv, PendingIsNewest
    <3>4. row = cache
      BY <3>1, <3>2, <3>3
    <3>5. ASSUME NEW m \in DOMAIN saves, m # n, Unsaved(m)
          PROVE  saves[m].version = cache
      <4>1. saves[m].applied = FALSE
        BY <3>5 DEF Unsaved
      <4>2. ~(m < n)
        BY <3>2, <4>1 DEF DInv, SavesAreInOrder
      <4>3. n < m
        BY <1>3, <3>5, <4>2
      <4>4. saves[n].version <= saves[m].version
        BY <4>3 DEF DInv, SavesAreInOrder
      <4> QED
        BY <1>3, <1>4, <3>1, <3>3, <4>4
    <3> QED
      BY <1>2, <1>9, <3>4, <3>5
  <2> QED
    BY <2>1, <2>2
<1>11. ClosedIsStored' /\ TextSurvives'
  BY <1>1, <1>2, <1>6, <1>9 DEF DInv, ClosedIsStored, TextSurvives
<1>12. OneWrite'
  BY <1>1, <1>6 DEF DInv, OneWrite, Quiet
<1>13. ReadIsQuiet'
  BY <1>1 DEF DInv, ReadIsQuiet, Unread
<1> QED
  BY <1>2, <1>7, <1>8, <1>10, <1>11, <1>12, <1>13 DEF DInv

-----------------------------------------------------------------------------
(* A submit goes out, is served, and is answered. *)

\* One submit moves on, its version kept; the others stay.
LEMMA SubmitMoved ==
  ASSUME DInv, NEW p \in DOMAIN submits, NEW to \in {"flushing", "sent", "ok", "refused"},
         submits' = [submits EXCEPT ![p].step = to]
  PROVE  /\ IsTable(submits', Nat, Submit) /\ DOMAIN submits' = DOMAIN submits
         /\ submits'[p].step = to /\ submits'[p].version = submits[p].version
         /\ \A q \in DOMAIN submits : q # p => submits'[q] = submits[q]
<1>1. PICK t : t = [submits[p] EXCEPT !.step = to]
  OBVIOUS
<1>2. submits[p] \in Submit /\ IsTable(submits, Nat, Submit)
  BY DEF DInv, Typed, IsTable
<1>3. t \in Submit /\ t.step = to /\ t.version = submits[p].version
  BY <1>1, <1>2 DEF Submit
<1>4. submits' = [submits EXCEPT ![p] = t]
  BY <1>1
<1>5. /\ IsTable(submits', Nat, Submit) /\ DOMAIN submits' = DOMAIN submits
      /\ submits'[p] = t
      /\ \A q \in DOMAIN submits : q # p => submits'[q] = submits[q]
  <2>1. \A q \in DOMAIN submits : q \in Nat /\ submits[q] \in Submit
    BY <1>2 DEF IsTable
  <2>2. submits' = [q \in DOMAIN submits |-> IF q = p THEN t ELSE submits[q]]
    BY <1>2, <1>4 DEF IsTable
  <2>3. \A q \in DOMAIN submits : submits'[q] \in Submit
    BY <1>3, <2>1, <2>2
  <2> QED
    BY <2>1, <2>2, <2>3 DEF IsTable
<1> QED
  BY <1>3, <1>5

LEMMA SubmitIsOut ==
  ASSUME DInv, NEW p \in DOMAIN submits
  PROVE  /\ open = TRUE /\ discard.step = "none" /\ removal = "none" /\ reading.step = "none"
         /\ cache = 0 \/ submits[p].version = cache
         /\ submits[p].step = "ok" => submits[p].version \in landed
         /\ submits[p].version \in Nat
<1>1. DOMAIN submits # {}
  OBVIOUS
<1>2. submits[p].version \in Nat
  <2>1. submits[p] \in Submit
    BY DEF DInv, Typed, IsTable
  <2> QED
    BY <2>1 DEF Submit
<1> QED
  BY <1>1, <1>2 DEF DInv, OneWrite, ReadIsQuiet, Typed

LEMMA SendSubmitStep ==
  ASSUME DInv, NEW p \in DOMAIN submits, SendSubmit(p)
  PROVE  DInv'
<1>1. /\ submits' = [submits EXCEPT ![p].step = "sent"]
      /\ UNCHANGED <<reading, removal, exists, open, cache, entry, saves, sent, discard,
                     row, landed,
                     edits, presses, hides, syncs, owed, forsaken>>
  BY DEF SendSubmit, client, ghosts
<1>2. "sent" \in {"flushing", "sent", "ok", "refused"}
  OBVIOUS
<1>3. /\ IsTable(submits', Nat, Submit) /\ DOMAIN submits' = DOMAIN submits
      /\ submits'[p].step = "sent" /\ submits'[p].version = submits[p].version
      /\ \A q \in DOMAIN submits : q # p => submits'[q] = submits[q]
  BY <1>1, <1>2, SubmitMoved
<1>4. OneWrite'
  <2>1. \A q \in DOMAIN submits' :
          /\ cache = 0 \/ submits'[q].version = cache
          /\ submits'[q].step = "ok" => submits'[q].version \in landed
    BY <1>3 DEF DInv, OneWrite
  <2> QED
    BY <1>1, <1>3, <2>1 DEF DInv, OneWrite, Quiet
<1>5. Typed'
  BY <1>1, <1>3 DEF DInv, Typed
<1>6. SavesAreInOrder' /\ PendingIsNewest'
  BY <1>1 DEF DInv, SavesAreInOrder, PendingIsNewest
<1>7. CleanIsStored' /\ ClosedIsStored' /\ TextSurvives'
  BY <1>1 DEF DInv, CleanIsStored, ClosedIsStored, TextSurvives, Unsaved
<1>8. ReadIsQuiet'
  BY <1>1, <1>3 DEF DInv, ReadIsQuiet, Unread
<1> QED
  BY <1>4, <1>5, <1>6, <1>7, <1>8 DEF DInv

LEMMA ServeSubmitStep ==
  ASSUME DInv, NEW p \in DOMAIN submits, ServeSubmit(p)
  PROVE  DInv'
<1>1. UNCHANGED <<reading, removal, exists, open, cache, entry, saves, sent, discard,
                  edits, presses, hides, syncs, owed, forsaken>>
  BY DEF ServeSubmit, client, ghosts
<1>2. PICK to \in {"ok", "refused"} :
        /\ submits' = [submits EXCEPT ![p].step = to]
        /\ to = "ok" => landed' = landed \cup {submits[p].version} /\ row' = 0
        /\ to = "refused" => landed' = landed /\ row' = row
  BY DEF ServeSubmit
<1>3. /\ IsTable(submits', Nat, Submit) /\ DOMAIN submits' = DOMAIN submits
      /\ submits'[p].step = to /\ submits'[p].version = submits[p].version
      /\ \A q \in DOMAIN submits : q # p => submits'[q] = submits[q]
  BY <1>2, SubmitMoved
<1>4. /\ open = TRUE /\ discard.step = "none" /\ removal = "none" /\ reading.step = "none"
      /\ cache = 0 \/ submits[p].version = cache
      /\ submits[p].version \in Nat
  BY SubmitIsOut
<1>5. /\ landed \in SUBSET Nat /\ row \in Nat
      /\ landed' \in SUBSET Nat /\ row' \in Nat /\ landed \subseteq landed'
      /\ to = "ok" => submits[p].version \in landed'
      /\ row' = row \/ submits[p].version \in landed'
  BY <1>2, <1>4 DEF DInv, Typed
<1>6. Typed'
  BY <1>1, <1>3, <1>5 DEF DInv, Typed
<1>7. PendingIsNewest'
  <2> SUFFICES ASSUME entry.pending # 0
               PROVE  PendingIsNewest'
    BY <1>1 DEF PendingIsNewest
  <2>1. entry.pending = edits /\ cache = edits
    BY DEF DInv, PendingIsNewest
  <2>2. row' = row \/ edits \in landed'
    BY <1>4, <1>5, <2>1
  <2> QED
    BY <1>1, <1>5, <2>2 DEF DInv, PendingIsNewest
<1>8. CleanIsStored'
  BY <1>1, <1>4, <1>5 DEF DInv, CleanIsStored, Unsaved
<1>9. ClosedIsStored' /\ TextSurvives' /\ SavesAreInOrder'
  BY <1>1, <1>4, <1>5 DEF DInv, ClosedIsStored, TextSurvives, SavesAreInOrder
<1>10. OneWrite'
  <2>1. \A q \in DOMAIN submits' :
          /\ cache = 0 \/ submits'[q].version = cache
          /\ submits'[q].step = "ok" => submits'[q].version \in landed'
    BY <1>3, <1>5 DEF DInv, OneWrite
  <2> QED
    BY <1>1, <1>3, <2>1 DEF DInv, OneWrite, Quiet
<1>11. ReadIsQuiet'
  BY <1>1, <1>4 DEF DInv, ReadIsQuiet, Unread
<1> QED
  BY <1>6, <1>7, <1>8, <1>9, <1>10, <1>11 DEF DInv

LEMMA SubmitEndsStep ==
  ASSUME DInv, NEW p \in DOMAIN submits, SubmitAnswered(p) \/ SubmitFails(p)
  PROVE  DInv'
<1>1. /\ submits' = Without(submits, {p})
      /\ UNCHANGED <<reading, removal, exists, open, saves, sent, discard, row, landed,
                     edits, presses, hides, syncs, owed, forsaken>>
      /\ \/ entry' = entry /\ cache' = cache
         \/ entry' = Idle /\ cache' = 0 /\ submits[p].step = "ok"
  BY DEF SubmitAnswered, SubmitFails, client, ghosts
<1>2. /\ IsTable(submits', Nat, Submit) /\ DOMAIN submits' = DOMAIN submits \ {p}
      /\ \A q \in DOMAIN submits' : submits'[q] = submits[q]
  <2>1. IsTable(submits, Nat, Submit)
    BY DEF DInv, Typed
  <2>2. IsTable(submits', Nat, Submit) /\ DOMAIN submits' = DOMAIN submits \ {p}
    BY <1>1, <2>1, WithoutType
  <2> QED
    BY <1>1, <2>2 DEF Without, Restrict
<1>3. /\ open = TRUE /\ discard.step = "none" /\ removal = "none" /\ reading.step = "none"
      /\ cache = 0 \/ submits[p].version = cache
      /\ submits[p].step = "ok" => submits[p].version \in landed
  BY SubmitIsOut
<1>4. OneWrite'
  <2>1. cache' = cache \/ cache' = 0
    BY <1>1
  <2>2. \A q \in DOMAIN submits' :
          /\ cache' = 0 \/ submits'[q].version = cache'
          /\ submits'[q].step = "ok" => submits'[q].version \in landed
    BY <1>2, <2>1 DEF DInv, OneWrite
  <2> QED
    BY <1>1, <1>2, <1>3, <2>2 DEF DInv, OneWrite, Quiet
<1>5. ReadIsQuiet'
  BY <1>1, <1>3 DEF DInv, ReadIsQuiet, Unread
<1>6. CASE entry' = entry /\ cache' = cache
  <2>1. Typed' /\ SavesAreInOrder' /\ PendingIsNewest'
    BY <1>1, <1>2, <1>6 DEF DInv, Typed, SavesAreInOrder, PendingIsNewest
  <2>2. CleanIsStored' /\ ClosedIsStored' /\ TextSurvives'
    BY <1>1, <1>6 DEF DInv, CleanIsStored, ClosedIsStored, TextSurvives, Unsaved
  <2> QED
    BY <1>4, <1>5, <2>1, <2>2 DEF DInv
<1>7. CASE entry' = Idle /\ cache' = 0 /\ submits[p].step = "ok"
  <2>1. Idle \in PersistEntry /\ Idle.pending = 0 /\ 0 \in Nat
    BY IdleIs
  <2>2. Typed' /\ SavesAreInOrder' /\ PendingIsNewest'
    BY <1>1, <1>2, <1>7, <2>1 DEF DInv, Typed, SavesAreInOrder, PendingIsNewest
  <2>3. cache = 0 \/ cache \in landed
    BY <1>3, <1>7
  <2>4. CleanIsStored' /\ ClosedIsStored' /\ TextSurvives'
    BY <1>1, <1>3, <1>7, <2>3 DEF DInv, CleanIsStored, ClosedIsStored, TextSurvives
  <2> QED
    BY <1>4, <1>5, <2>2, <2>4 DEF DInv
<1> QED
  BY <1>1, <1>6, <1>7

-----------------------------------------------------------------------------
(* Discards and deletions. *)

LEMMA PressDiscardStep ==
  ASSUME Orderly, DInv, PressDiscard \/ PressDelete
  PROVE  DInv'
<1>1. /\ open = TRUE /\ ~Busy /\ ~Reading /\ hides' = hides + 1
      /\ UNCHANGED <<reading, exists, open, cache, saves, submits, row, landed, edits, presses,
                     owed, forsaken, syncs>>
      /\ \/ cache # 0 /\ BeginDiscard /\ removal' \in {"none", "discarding"}
         \/ cache = 0 /\ removal' = "sent" /\ UNCHANGED <<entry, sent, discard>>
  <2>1. open = TRUE /\ ~Busy /\ ~Reading
    BY DEF PressDiscard, PressDelete, Orderly, DInv, Typed
  <2>2. CASE PressDiscard
    <3>1. removal' = "none"
      BY <2>1, <2>2, NotBusy DEF PressDiscard
    <3> QED
      BY <2>1, <2>2, <3>1 DEF PressDiscard
  <2>3. CASE PressDelete
    BY <2>1, <2>3 DEF PressDelete
  <2> QED
    BY <2>2, <2>3
<1>2. /\ DOMAIN submits = {} /\ discard = Quiet /\ discard.step = "none" /\ removal = "none"
      /\ reading = Unread /\ reading.step = "none"
  BY <1>1, NotBusy
<1>3. hides' \in Nat /\ sent \in Nat
  BY <1>1 DEF DInv, Typed
<1>4. ReadIsQuiet'
  BY <1>1, <1>2 DEF ReadIsQuiet, Unread
<1>5. CASE cache # 0 /\ BeginDiscard /\ removal' \in {"none", "discarding"}
  <2>1. PICK k : k = sent + 1
    OBVIOUS
  <2>2. /\ k \in Nat /\ sent <= k /\ entry' = Idle /\ sent' = k
        /\ discard' = [step |-> "sent", number |-> k]
    BY <1>3, <1>5, <2>1 DEF BeginDiscard
  <2>3. discard' \in Discard /\ discard'.step = "sent"
    BY <2>2 DEF Discard
  <2>4. Idle \in PersistEntry /\ Idle.pending = 0
    BY IdleIs
  <2>5. Typed'
    BY <1>1, <1>3, <1>5, <2>2, <2>3, <2>4 DEF DInv, Typed
  <2>6. SavesAreInOrder'
    <3>1. \A n \in DOMAIN saves : n <= k
      <4>1. \A n \in DOMAIN saves : n \in Nat /\ n <= sent
        BY SaveFields DEF DInv, SavesAreInOrder
      <4> QED
        BY <1>3, <2>2, <4>1
    <3> QED
      BY <1>1, <2>2, <3>1 DEF DInv, SavesAreInOrder
  <2>7. PendingIsNewest' /\ CleanIsStored' /\ ClosedIsStored' /\ TextSurvives'
    BY <1>1, <2>2, <2>3, <2>4 DEF DInv, PendingIsNewest, CleanIsStored, ClosedIsStored, TextSurvives
  <2>8. OneWrite'
    BY <1>1, <1>2, <1>5, <2>2, <2>3, <2>4 DEF OneWrite
  <2> QED
    BY <1>4, <2>5, <2>6, <2>7, <2>8 DEF DInv
<1>6. CASE cache = 0 /\ removal' = "sent" /\ UNCHANGED <<entry, sent, discard>>
  <2>1. Typed' /\ SavesAreInOrder' /\ PendingIsNewest'
    BY <1>1, <1>3, <1>6 DEF DInv, Typed, SavesAreInOrder, PendingIsNewest
  <2>2. CleanIsStored' /\ ClosedIsStored' /\ TextSurvives'
    BY <1>1, <1>6 DEF DInv, CleanIsStored, ClosedIsStored, TextSurvives
  <2>3. OneWrite'
    BY <1>1, <1>2, <1>6 DEF OneWrite
  <2> QED
    BY <1>4, <2>1, <2>2, <2>3 DEF DInv
<1> QED
  BY <1>1, <1>5, <1>6

LEMMA DiscardIsOut ==
  ASSUME DInv, discard.step # "none"
  PROVE  /\ open = TRUE /\ entry.pending = 0 /\ removal \in {"none", "discarding"}
         /\ DOMAIN submits = {} /\ reading = Unread /\ reading.step = "none"
         /\ discard.step = "served" => owed = 0
<1>1. reading.step = "none"
  BY DEF DInv, ReadIsQuiet
<1> QED
  BY <1>1 DEF DInv, OneWrite, Typed, ReadIsQuiet

LEMMA QuietIs == Quiet \in Discard /\ Quiet.step = "none"
BY DEF Quiet, Discard

LEMMA DiscardStepStep ==
  ASSUME DInv, DiscardStep
  PROVE  DInv'
<1>1. discard.step # "none"
  BY QuietIs DEF DiscardStep, ServeDiscard, DiscardAnswered, DiscardFails, DInv, OneWrite
<1>2. /\ open = TRUE /\ entry.pending = 0 /\ removal \in {"none", "discarding"}
      /\ DOMAIN submits = {} /\ reading = Unread /\ reading.step = "none"
      /\ discard.step = "served" => owed = 0
  BY <1>1, DiscardIsOut
<1>3. UNCHANGED <<reading, exists, open, entry, saves, sent, submits, landed,
                  edits, presses, hides, syncs>>
  BY DEF DiscardStep, ServeDiscard, DiscardAnswered, DiscardFails, client, ghosts
<1>4. SavesAreInOrder' /\ PendingIsNewest' /\ ClosedIsStored' /\ ReadIsQuiet'
  BY <1>2, <1>3 DEF DInv, SavesAreInOrder, PendingIsNewest, ClosedIsStored, ReadIsQuiet, Unread
<1>5. CASE ServeDiscard
  <2>1. /\ row' = 0 /\ discard' = [discard EXCEPT !.step = "served"] /\ owed' = 0
        /\ UNCHANGED <<removal, cache, forsaken>>
    BY <1>2, <1>5 DEF ServeDiscard, client
  <2>2. discard' \in Discard /\ discard'.step = "served"
    BY <2>1 DEF DInv, Typed, Discard
  <2>3. Typed'
    BY <1>3, <2>1, <2>2 DEF DInv, Typed
  <2>4. CleanIsStored' /\ TextSurvives' /\ OneWrite'
    BY <1>2, <1>3, <2>1, <2>2 DEF CleanIsStored, TextSurvives, OneWrite
  <2> QED
    BY <1>4, <2>3, <2>4 DEF DInv
<1>6. CASE DiscardAnswered
  <2>1. /\ discard.step = "served" /\ discard' = Quiet /\ cache' = 0
        /\ removal' = (IF removal = "discarding" THEN "sent" ELSE removal)
        /\ UNCHANGED <<row, owed, forsaken>>
    BY <1>6 DEF DiscardAnswered, ghosts
  <2>2. Typed'
    BY <1>2, <1>3, <2>1, QuietIs DEF DInv, Typed
  <2>3. CleanIsStored' /\ TextSurvives' /\ OneWrite'
    BY <1>2, <1>3, <2>1, QuietIs DEF CleanIsStored, TextSurvives, OneWrite
  <2> QED
    BY <1>4, <2>2, <2>3 DEF DInv
<1>7. CASE DiscardFails
  <2>1. /\ discard' = Quiet /\ removal' = "none" /\ forsaken' = TRUE
        /\ UNCHANGED <<row, owed, cache>>
    BY <1>7 DEF DiscardFails, client
  <2>2. Typed'
    BY <1>3, <2>1, QuietIs DEF DInv, Typed
  <2>3. CleanIsStored' /\ TextSurvives' /\ OneWrite'
    BY <1>2, <1>3, <2>1, QuietIs DEF DInv, CleanIsStored, TextSurvives, OneWrite
  <2> QED
    BY <1>4, <2>2, <2>3 DEF DInv
<1> QED
  BY <1>5, <1>6, <1>7 DEF DiscardStep

LEMMA DeleteStepStep ==
  ASSUME DInv, DeleteStep
  PROVE  DInv'
<1>1. removal \in {"sent", "deleted", "refused"}
  BY DEF DeleteStep, ServeDelete, DeleteAnswered, DeleteFails
<1>2. /\ open = TRUE /\ cache = 0 /\ DOMAIN submits = {} /\ discard = Quiet
      /\ discard.step = "none" /\ reading = Unread /\ reading.step = "none"
  BY <1>1 DEF DInv, OneWrite, ReadIsQuiet, Typed
<1>3. UNCHANGED <<saves, sent, submits, discard, row, landed, edits, presses, hides, syncs, owed,
                  forsaken>>
  BY DEF DeleteStep, ServeDelete, DeleteAnswered, DeleteFails, ghosts
<1>4. SavesAreInOrder'
  BY <1>3 DEF DInv, SavesAreInOrder
<1>5. CASE /\ UNCHANGED <<open, cache, entry, reading>> /\ exists' \in BOOLEAN
           /\ removal' \in {"none", "deleted", "refused"}
  <2>1. Typed' /\ PendingIsNewest'
    BY <1>3, <1>5 DEF DInv, Typed, PendingIsNewest
  <2>2. CleanIsStored' /\ ClosedIsStored' /\ TextSurvives'
    BY <1>3, <1>5 DEF DInv, CleanIsStored, ClosedIsStored, TextSurvives, Unsaved
  <2>3. OneWrite' /\ ReadIsQuiet'
    BY <1>2, <1>3, <1>5 DEF OneWrite, ReadIsQuiet, Quiet, Unread
  <2> QED
    BY <1>4, <2>1, <2>2, <2>3 DEF DInv
<1>6. CASE /\ open' = FALSE /\ cache' = 0 /\ entry' = Idle /\ reading' = Unread
           /\ removal' = "none" /\ exists' = exists
  <2>1. Idle \in PersistEntry /\ Idle.pending = 0 /\ 0 \in Nat /\ Unread \in Read
    BY IdleIs DEF Unread, Read
  <2>2. Typed' /\ PendingIsNewest'
    BY <1>3, <1>6, <2>1 DEF DInv, Typed, PendingIsNewest
  <2>3. owed = 0 \/ owed \in landed
    BY <1>2 DEF DInv, TextSurvives
  <2>4. CleanIsStored' /\ ClosedIsStored' /\ TextSurvives'
    BY <1>3, <1>6, <2>1, <2>3 DEF CleanIsStored, ClosedIsStored, TextSurvives
  <2>5. OneWrite' /\ ReadIsQuiet'
    BY <1>2, <1>3, <1>6 DEF OneWrite, ReadIsQuiet, Quiet, Unread
  <2> QED
    BY <1>4, <2>2, <2>4, <2>5 DEF DInv
<1>7. exists \in BOOLEAN /\ FALSE \in BOOLEAN
  BY DEF DInv, Typed
<1>8. CASE ServeDelete
  BY <1>5, <1>7, <1>8 DEF ServeDelete, client
<1>9. CASE DeleteAnswered
  BY <1>5, <1>6, <1>7, <1>9 DEF DeleteAnswered, client
<1>10. CASE DeleteFails
  BY <1>5, <1>7, <1>10 DEF DeleteFails, client
<1> QED
  BY <1>8, <1>9, <1>10 DEF DeleteStep

-----------------------------------------------------------------------------
(* Tabs and syncs. *)

LEMMA CloseTabStep ==
  ASSUME Orderly, DInv, CloseTab
  PROVE  DInv'
<1>1. /\ open = TRUE /\ ~Busy /\ Attempt(FALSE) /\ FALSE \in BOOLEAN /\ hides' = hides + 1
      /\ open' = FALSE /\ cache' = 0 /\ entry' = Idle /\ reading' = Unread /\ forsaken' = FALSE
      /\ owed' = (IF entry.pending = 0 /\ ~forsaken THEN owed ELSE 0)
      /\ UNCHANGED <<submits, discard, removal, exists, row, landed, edits, presses, syncs>>
  BY DEF CloseTab, DInv, Typed
<1>2. /\ DOMAIN submits = {} /\ discard = Quiet /\ discard.step = "none" /\ removal = "none"
  BY <1>1, NotBusy
<1>3. /\ IsTable(saves', Nat, Save) /\ sent' \in Nat /\ SavesAreInOrder'
      /\ entry.pending = 0 => saves' = saves
  BY <1>1, AttemptSends DEF DInv
<1>4. Idle \in PersistEntry /\ Idle.pending = 0 /\ 0 \in Nat /\ Unread \in Read
  BY IdleIs DEF Unread, Read
<1>5. hides' \in Nat /\ owed' \in Nat
  BY <1>1 DEF DInv, Typed
<1>6. Typed'
  BY <1>1, <1>3, <1>4, <1>5 DEF DInv, Typed
<1>7. PendingIsNewest' /\ CleanIsStored'
  BY <1>1, <1>4 DEF PendingIsNewest, CleanIsStored
<1>8. \/ owed' = 0 \/ owed' \in landed
      \/ row = owed' /\ \A n \in DOMAIN saves' : Unsaved(n)' => saves'[n].version = owed'
  <2>1. CASE entry.pending = 0 /\ ~forsaken
    <3>1. \/ cache = 0 \/ cache \in landed
          \/ row = cache /\ \A n \in DOMAIN saves : Unsaved(n) => saves[n].version = cache
      BY <1>1, <1>2, <2>1 DEF DInv, CleanIsStored
    <3>2. owed = 0 \/ owed \in landed \/ owed = cache
      BY <1>1 DEF DInv, TextSurvives
    <3>3. owed' = owed /\ saves' = saves
      BY <1>1, <1>3, <2>1
    <3> QED
      BY <3>1, <3>2, <3>3 DEF Unsaved
  <2>2. CASE ~(entry.pending = 0 /\ ~forsaken)
    BY <1>1, <2>2
  <2> QED
    BY <2>1, <2>2
<1>9. ClosedIsStored' /\ TextSurvives'
  BY <1>1, <1>4, <1>8 DEF ClosedIsStored, TextSurvives
<1>10. OneWrite' /\ ReadIsQuiet'
  BY <1>1, <1>2 DEF OneWrite, ReadIsQuiet, Quiet, Unread
<1> QED
  BY <1>3, <1>6, <1>7, <1>9, <1>10 DEF DInv

LEMMA OpenTabStep ==
  ASSUME DInv, OpenTab
  PROVE  DInv'
<1>1. /\ open = FALSE /\ saves = EmptyTable /\ open' = TRUE /\ cache' = row
      /\ UNCHANGED <<entry, saves, sent, submits, discard, removal, reading, exists, row, landed,
                     edits, presses, hides, syncs, owed, forsaken>>
  BY DEF OpenTab, wire, ghosts, DInv, Typed
<1>2. /\ DOMAIN saves = {} /\ DOMAIN submits = {} /\ discard.step = "none" /\ discard = Quiet
      /\ removal = "none" /\ reading.step = "none" /\ entry.pending = 0
  BY <1>1 DEF DInv, OneWrite, ReadIsQuiet, ClosedIsStored, Typed, EmptyTable
<1>3. Typed'
  BY <1>1 DEF DInv, Typed
<1>4. SavesAreInOrder' /\ PendingIsNewest' /\ CleanIsStored' /\ ClosedIsStored'
  BY <1>1, <1>2 DEF DInv, SavesAreInOrder, PendingIsNewest, CleanIsStored, ClosedIsStored
<1>5. TextSurvives'
  BY <1>1 DEF DInv, TextSurvives
<1>6. OneWrite' /\ ReadIsQuiet'
  BY <1>1, <1>2 DEF DInv, OneWrite, ReadIsQuiet, Unread, Quiet
<1> QED
  BY <1>3, <1>4, <1>5, <1>6 DEF DInv

LEMMA SyncLandsStep ==
  ASSUME Orderly, DInv, SyncLands
  PROVE  DInv'
<1>1. /\ open = TRUE /\ Settled /\ syncs' = syncs + 1 /\ sent' = sent + 1
      /\ reading' = [step |-> "sent", number |-> sent', version |-> 0]
      /\ UNCHANGED <<open, cache, entry, saves, submits, discard, removal, exists, row, landed,
                     edits, presses, hides, owed, forsaken>>
  BY DEF SyncLands, Orderly, DInv, Typed, client
<1>2. /\ entry.pending = 0 /\ ~forsaken /\ DOMAIN saves = {} /\ DOMAIN submits = {}
      /\ discard.step = "none" /\ discard = Quiet /\ removal = "none"
  BY <1>1, NotBusy DEF Settled, EmptyTable
<1>3. sent' \in Nat /\ syncs' \in Nat /\ 0 \in Nat
  BY <1>1 DEF DInv, Typed
<1>4. reading' \in Read /\ reading'.step = "sent"
  BY <1>1, <1>3 DEF Read
<1>5. Typed'
  BY <1>1, <1>3, <1>4 DEF DInv, Typed
<1>6. SavesAreInOrder' /\ PendingIsNewest'
  BY <1>1, <1>2 DEF SavesAreInOrder, PendingIsNewest
<1>7. CleanIsStored' /\ ClosedIsStored' /\ TextSurvives'
  BY <1>1 DEF DInv, CleanIsStored, ClosedIsStored, TextSurvives, Unsaved
<1>8. OneWrite' /\ ReadIsQuiet'
  BY <1>1, <1>2, <1>4 DEF DInv, OneWrite, ReadIsQuiet
<1> QED
  BY <1>5, <1>6, <1>7, <1>8 DEF DInv

LEMMA ReadStepStep ==
  ASSUME DInv, ReadStep
  PROVE  DInv'
<1>1. reading.step # "none"
  BY DEF ReadStep, ServeRead, ReadAnswered, ReadFails, Reading, DInv, ReadIsQuiet
<1>2. /\ open = TRUE /\ entry.pending = 0 /\ ~forsaken /\ DOMAIN saves = {}
      /\ DOMAIN submits = {} /\ discard.step = "none" /\ discard = Quiet /\ removal = "none"
      /\ reading.step = "served" => reading.version = row
  BY <1>1 DEF DInv, ReadIsQuiet, OneWrite, Typed
<1>3. UNCHANGED <<open, entry, saves, sent, submits, discard, removal, exists, row, landed,
                  edits, presses, hides, syncs, owed, forsaken>>
  BY DEF ReadStep, ServeRead, ReadAnswered, ReadFails, client, ghosts
<1>4. SavesAreInOrder' /\ PendingIsNewest' /\ ClosedIsStored'
  BY <1>2, <1>3 DEF SavesAreInOrder, PendingIsNewest, ClosedIsStored
<1>5. CASE ServeRead
  <2>1. PICK v : v = row
    OBVIOUS
  <2>2. reading' = [reading EXCEPT !.step = "served", !.version = v] /\ cache' = cache
    BY <1>5, <2>1 DEF ServeRead, client
  <2>3. v \in Nat /\ reading \in Read
    BY <2>1 DEF DInv, Typed
  <2>4. reading' \in Read /\ reading'.step = "served" /\ reading'.version = v
    BY <2>2, <2>3 DEF Read
  <2>5. Typed'
    BY <1>3, <2>2, <2>4 DEF DInv, Typed
  <2>6. CleanIsStored' /\ TextSurvives' /\ OneWrite'
    BY <1>2, <1>3, <2>2 DEF DInv, CleanIsStored, TextSurvives, OneWrite, Unsaved
  <2>7. ReadIsQuiet'
    BY <1>2, <1>3, <2>1, <2>4 DEF ReadIsQuiet
  <2> QED
    BY <1>4, <2>5, <2>6, <2>7 DEF DInv
<1>6. CASE ReadAnswered
  <2>1. cache' = row /\ reading' = Unread
    BY <1>2, <1>6 DEF ReadAnswered
  <2>2. Unread \in Read /\ Unread.step = "none"
    BY DEF Unread, Read
  <2>3. Typed'
    BY <1>3, <2>1, <2>2 DEF DInv, Typed
  <2>4. CleanIsStored' /\ OneWrite'
    BY <1>2, <1>3, <2>1 DEF CleanIsStored, OneWrite
  <2>5. TextSurvives'
    <3>1. cache = 0 \/ cache \in landed \/ row = cache
      BY <1>2 DEF DInv, CleanIsStored
    <3> QED
      BY <1>2, <1>3, <2>1, <3>1 DEF DInv, TextSurvives
  <2>6. ReadIsQuiet'
    BY <2>1, <2>2 DEF ReadIsQuiet
  <2> QED
    BY <1>4, <2>3, <2>4, <2>5, <2>6 DEF DInv
<1>7. CASE ReadFails
  <2>1. cache' = cache /\ reading' = Unread
    BY <1>7 DEF ReadFails, client
  <2>2. Unread \in Read /\ Unread.step = "none"
    BY DEF Unread, Read
  <2>3. Typed'
    BY <1>3, <2>1, <2>2 DEF DInv, Typed
  <2>4. CleanIsStored' /\ TextSurvives' /\ OneWrite'
    BY <1>2, <1>3, <2>1 DEF DInv, CleanIsStored, TextSurvives, OneWrite, Unsaved
  <2>5. ReadIsQuiet'
    BY <2>1, <2>2 DEF ReadIsQuiet
  <2> QED
    BY <1>4, <2>3, <2>4, <2>5 DEF DInv
<1> QED
  BY <1>5, <1>6, <1>7 DEF ReadStep

-----------------------------------------------------------------------------
(* The properties. *)

LEMMA DInvInit == DraftInit => DInv
<1> SUFFICES ASSUME DraftInit
             PROVE  DInv
  OBVIOUS
<1>1. DOMAIN EmptyTable = {} /\ 0 \in Nat
  BY DEF EmptyTable
<1>2. Typed
  <2>1. IsTable(saves, Nat, Save) /\ IsTable(submits, Nat, Submit)
    BY EmptyTableIsTable DEF DraftInit
  <2>2. Quiet \in Discard /\ Unread \in Read /\ Idle \in PersistEntry
    BY QuietIs, IdleIs DEF Unread, Read
  <2> QED
    BY <1>1, <2>1, <2>2 DEF DraftInit, Typed
<1>3. SavesAreInOrder /\ PendingIsNewest /\ CleanIsStored /\ ClosedIsStored /\ TextSurvives
  BY <1>1, IdleIs
     DEF DraftInit, SavesAreInOrder, PendingIsNewest, CleanIsStored, ClosedIsStored, TextSurvives
<1>4. OneWrite /\ ReadIsQuiet
  BY <1>1 DEF DraftInit, OneWrite, ReadIsQuiet, Quiet, Unread
<1> QED
  BY <1>2, <1>3, <1>4 DEF DInv

LEMMA DInvNext == Orderly /\ DInv /\ [DraftNext]_draftVars => DInv'
<1> SUFFICES ASSUME Orderly, DInv, [DraftNext]_draftVars
             PROVE  DInv'
  OBVIOUS
<1>1. CASE Edit \/ HideTab \/ PressSubmit
  BY <1>1, EditStep, HideTabStep, PressSubmitStep
<1>2. CASE PressDiscard \/ PressDelete \/ CloseTab \/ OpenTab
  BY <1>2, PressDiscardStep, CloseTabStep, OpenTabStep
<1>3. CASE Timers
  BY <1>3, TimerStep
<1>4. CASE \E n \in DOMAIN saves : SaveStep(n)
  BY <1>4, ApplySaveStep, SaveSettlesStep DEF SaveStep
<1>5. CASE \E p \in DOMAIN submits : SubmitStep(p)
  BY <1>5, SendSubmitStep, ServeSubmitStep, SubmitEndsStep DEF SubmitStep
<1>6. CASE DiscardStep \/ DeleteStep
  BY <1>6, DiscardStepStep, DeleteStepStep
<1>7. CASE SyncLands \/ ReadStep
  BY <1>7, SyncLandsStep, ReadStepStep
<1>8. CASE UNCHANGED draftVars
  <2>1. UNCHANGED <<open, cache, entry, saves, sent, submits, discard, removal, reading,
                    exists, row,
                    landed, edits, presses, hides, syncs, owed, forsaken>>
    BY <1>8 DEF draftVars
  <2>2. Typed' /\ SavesAreInOrder' /\ PendingIsNewest'
    BY <2>1 DEF DInv, Typed, SavesAreInOrder, PendingIsNewest
  <2>3. CleanIsStored' /\ ClosedIsStored' /\ TextSurvives'
    BY <2>1 DEF DInv, CleanIsStored, ClosedIsStored, TextSurvives, Unsaved
  <2>4. OneWrite' /\ ReadIsQuiet'
    BY <2>1 DEF DInv, OneWrite, ReadIsQuiet, Quiet, Unread
  <2> QED
    BY <2>2, <2>3, <2>4 DEF DInv
<1> QED
  BY <1>1, <1>2, <1>3, <1>4, <1>5, <1>6, <1>7, <1>8 DEF DraftNext

LEMMA DInvHolds == ASSUME Orderly PROVE DraftSpec => []DInv
<1>1. DInv /\ [DraftNext]_draftVars => DInv'
  BY DInvNext
<1> QED
  BY <1>1, DInvInit, PTL DEF DraftSpec

(* "The editable text itself is never at risk" (drafts.ts:17-19): what the *)
(* reviewer typed last is in the page, or in the daemon's row once the     *)
(* page that had it saved is gone, until it is posted or discarded.        *)
THEOREM TextIsNeverAtRisk == ASSUME Orderly PROVE DraftSpec => []TextSurvives
<1>1. DInv => TextSurvives
  BY DEF DInv
<1> QED
  BY <1>1, DInvHolds, PTL

(* The client is never behind in silence (drafts.ts, attemptSave): a row   *)
(* that is not what the page shows is being saved, is about to be, or the  *)
(* bar says that it is not; unless a discard of it failed.                 *)
THEOREM BehindIsNeverSilent == ASSUME Orderly PROVE DraftSpec => []BehindIsTold
<1>1. DInv => BehindIsTold
  <2> SUFFICES ASSUME DInv, open, cache # 0, cache # row, ~Busy, cache \notin landed, ~forsaken,
                      saves = EmptyTable
               PROVE  entry.saveTimer \/ entry.retryTimer \/ entry.dirty
    BY DEF BehindIsTold
  <2>1. DOMAIN saves = {}
    BY DEF EmptyTable
  <2>2. discard.step = "none"
    BY NotBusy
  <2>3. entry.pending # 0
    BY <2>2 DEF DInv, CleanIsStored
  <2>4. entry.saveTimer = TRUE \/ entry.retryTimer = TRUE \/ entry.dirty = TRUE
    BY <2>1, <2>3 DEF DInv, PendingIsNewest
  <2> QED
    BY <2>4
<1> QED
  BY <1>1, DInvHolds, PTL

-----------------------------------------------------------------------------
(* The query cache.                                                        *)

(* An entry of the cache, and a request, whatever was counted so far.      *)
Shots == [version : Nat, copies : [Replies -> Nat], pending : SUBSET Replies,
          authors : SUBSET (Replies \X {"pending", "stored"}), resolved : BOOLEAN, hearts : Nat]
Threads == [posted : [Replies -> Nat], resolved : BOOLEAN, hearts : {0, 1}]
HasLanded(q) == q.outcome \in {"done", "lost"}
IsRequest(q) ==
  /\ q = [kind |-> q.kind, on |-> q.on, previous |-> q.previous, outcome |-> q.outcome,
          answer |-> q.answer, crossed |-> q.crossed]
  /\ q.kind \in {"reply", "resolve", "react", "toggle", "fetch"}
  /\ q.outcome \in {"out", "done", "refused", "lost"} /\ q.crossed \in BOOLEAN
  /\ q.kind = "reply" => q.on \in Replies
  /\ q.kind = "resolve" => q.on \in BOOLEAN
  /\ q.kind = "toggle" => q.on \in Paths \X BOOLEAN
  /\ IF OnThread(q) THEN q.previous \in Shots ELSE q.previous \in Entries
  /\ q.outcome = "refused" => q.kind # "fetch"
  /\ q.outcome = "lost" => OnThread(q)
  /\ q.outcome = "done" =>
       /\ q.kind = "resolve" => q.answer = q.on
       /\ q.kind = "react" => q.answer = 1
       /\ ~OnThread(q) => q.answer \in Marks
AreRequests(qs) ==
  /\ qs = [n \in DOMAIN qs |-> qs[n]] /\ DOMAIN qs \subseteq Nat
  /\ \E b \in Nat : \A n \in DOMAIN qs : n <= b
  /\ \A n \in DOMAIN qs : IsRequest(qs[n])
SyncType ==
  sync # Nothing => /\ sync = [read |-> sync.read, crossed |-> sync.crossed]
                    /\ sync.read \in Shots \cup {Nothing} /\ sync.crossed \in BOOLEAN

CacheTyped ==
  /\ github \in Threads /\ stored \in Shots /\ shown \in Shots
  /\ marks \in Marks /\ viewed \in Entries
  /\ box \in Replies \cup {Nothing} /\ written \subseteq Replies
  /\ AreRequests(requests) /\ SyncType /\ pullSyncs \in Nat
  /\ tangled \in BOOLEAN /\ smudged \in BOOLEAN

\* A text is in one place: the composer, or one reply that is out.
IsReply(n) == requests[n].kind = "reply"
TextInOnePlace ==
  /\ box # Nothing => box \in written
  /\ \A n \in DOMAIN requests : IsReply(n) =>
       /\ requests[n].on \in written /\ box # requests[n].on
       /\ \A m \in DOMAIN requests : IsReply(m) /\ requests[m].on = requests[n].on => m = n
       /\ HasLanded(requests[n]) => github.posted[requests[n].on] > 0

\* One reply at a time, and none while the composer is open.
OneReplyOut ==
  \A m, n \in DOMAIN requests : IsReply(m) /\ IsReply(n) => m = n /\ box = Nothing

TextInv == CacheTyped /\ TextInOnePlace /\ OneReplyOut /\ TypedTextIsKept

\* The marks: a read of them is the last request about them; they are served in order;
\* the last answer is the daemon's map, and so is what a lone toggle puts back.
OfMarks(n) == ~OnThread(requests[n])
IsToggle(n) == requests[n].kind = "toggle"
ReadIsLast ==
  \A m, n \in DOMAIN requests : requests[n].kind = "fetch" /\ OfMarks(m) => m <= n
MarksInOrder ==
  \A m, n \in DOMAIN requests :
    m < n /\ OfMarks(m) /\ OfMarks(n) /\ requests[n].outcome # "out" => requests[m].outcome # "out"
LastAnswerIsMarks ==
  \A n \in DOMAIN requests : OfMarks(n) /\ requests[n].outcome = "done" =>
    \/ requests[n].answer = marks
    \/ \E m \in DOMAIN requests : m > n /\ IsToggle(m) /\ requests[m].outcome = "done"
LoneToggle ==
  \A n \in DOMAIN requests : IsToggle(n) =>
    /\ requests[n].previous \in Marks /\ requests[n].previous # Nothing
    /\ requests[n].crossed = FALSE =>
         /\ \A m \in DOMAIN requests : IsToggle(m) => m = n
         /\ smudged = FALSE /\ ~HasLanded(requests[n]) => requests[n].previous = marks
NoToggle == \A n \in DOMAIN requests : ~IsToggle(n)
UntoggledShowsMarks == NoToggle /\ smudged = FALSE => viewed = marks

MarksInv ==
  /\ CacheTyped /\ viewed \in Marks
  /\ ReadIsLast /\ MarksInOrder /\ LastAnswerIsMarks /\ LoneToggle /\ UntoggledShowsMarks

\* The thread: the same for resolves; a lone write, and a sync that none crossed, hold
\* the thread as GitHub has it; and what is shown is that thread with what is out.
IsResolve(n) == requests[n].kind = "resolve"
IsReact(n) == requests[n].kind = "react"
OfThread(n) == OnThread(requests[n])
NoneOfThread == \A n \in DOMAIN requests : ~OfThread(n)
Faithful(snap) == snap = SnapshotOf(github, snap.version)
ResolvesInOrder ==
  \A m, n \in DOMAIN requests :
    m < n /\ IsResolve(m) /\ IsResolve(n) /\ requests[n].outcome # "out" => requests[m].outcome # "out"
LastResolveStands ==
  \A n \in DOMAIN requests : IsResolve(n) /\ HasLanded(requests[n]) =>
    \/ requests[n].on = github.resolved
    \/ \E m \in DOMAIN requests : m > n /\ IsResolve(m) /\ HasLanded(requests[m])
ReactsLand == \A n \in DOMAIN requests : IsReact(n) /\ HasLanded(requests[n]) => github.hearts = 1
LoneWrite ==
  \A n \in DOMAIN requests : OfThread(n) /\ requests[n].crossed = FALSE =>
    /\ \A m \in DOMAIN requests : OfThread(m) => m = n
    /\ tangled = FALSE /\ ~HasLanded(requests[n]) => Faithful(requests[n].previous)
LoneSync ==
  sync # Nothing /\ sync.crossed = FALSE =>
    NoneOfThread /\ (sync.read # Nothing => Faithful(sync.read))
PostedAndOut(r) == \E n \in DOMAIN requests : IsReply(n) /\ requests[n].on = r /\ HasLanded(requests[n])
IsOut(r) == \E n \in DOMAIN requests : IsReply(n) /\ requests[n].on = r
ShowsResolution == (\A n \in DOMAIN requests : ~IsResolve(n)) => shown.resolved = github.resolved
ShowsReactions == (\A n \in DOMAIN requests : ~IsReact(n)) => shown.hearts = github.hearts
ShowsPosted ==
  \A r \in Replies : /\ PostedAndOut(r) => github.posted[r] = shown.copies[r] + 1
                     /\ ~PostedAndOut(r) => github.posted[r] = shown.copies[r]
ShowsPending == \A r \in Replies : r \in shown.pending <=> IsOut(r)
ShowsAuthors ==
  \A r \in Replies : /\ <<r, "pending">> \in shown.authors <=> r \in shown.pending
                     /\ <<r, "stored">> \in shown.authors <=> shown.copies[r] > 0
ShownIsThread ==
  tangled = FALSE =>
    ShowsResolution /\ ShowsReactions /\ ShowsPosted /\ ShowsPending /\ ShowsAuthors

ThreadInv ==
  /\ CacheTyped /\ TextInOnePlace /\ ResolvesInOrder /\ LastResolveStands /\ ReactsLand
  /\ LoneWrite /\ LoneSync /\ ShownIsThread

-----------------------------------------------------------------------------
(* What the moves of requests are. *)

\* The same request, but for what crossed it.
Same(q, o) ==
  /\ o.kind = q.kind /\ o.on = q.on /\ o.previous = q.previous
  /\ o.outcome = q.outcome /\ o.answer = q.answer

LEMMA CrossedIs ==
  ASSUME NEW q, IsRequest(q), NEW b \in BOOLEAN
  PROVE  LET o == [q EXCEPT !.crossed = b]
         IN IsRequest(o) /\ Same(q, o) /\ o.crossed = b
<1> DEFINE o == [q EXCEPT !.crossed = b]
<1>1. o = [kind |-> q.kind, on |-> q.on, previous |-> q.previous, outcome |-> q.outcome,
           answer |-> q.answer, crossed |-> b]
  BY DEF IsRequest
<1>2. PICK p : p = o
  OBVIOUS
<1>3. Same(q, p) /\ p.crossed = b
  BY <1>1, <1>2 DEF Same
<1>4. p = [kind |-> p.kind, on |-> p.on, previous |-> p.previous, outcome |-> p.outcome,
           answer |-> p.answer, crossed |-> p.crossed]
  BY <1>1, <1>2
<1>5. OnThread(p) <=> OnThread(q)
  BY <1>3 DEF Same, OnThread
<1>6. IsRequest(p)
  BY <1>3, <1>4, <1>5 DEF IsRequest, Same
<1> QED
  BY <1>2, <1>3, <1>6

\* What may come of it.
MayEnd(q, outcome, answer) ==
  /\ outcome \in {"done", "refused", "lost"}
  /\ outcome = "refused" => q.kind # "fetch"
  /\ outcome = "lost" => OnThread(q)
  /\ outcome = "done" => /\ q.kind = "resolve" => answer = q.on
                         /\ q.kind = "react" => answer = 1
                         /\ ~OnThread(q) => answer \in Marks
Ended(q, outcome, answer) == [q EXCEPT !.outcome = outcome, !.answer = answer]

LEMMA AnsweredIs ==
  ASSUME NEW q, IsRequest(q), NEW outcome, NEW answer, MayEnd(q, outcome, answer),
         NEW o, o = Ended(q, outcome, answer)
  PROVE  /\ IsRequest(o) /\ o.kind = q.kind /\ o.on = q.on /\ o.previous = q.previous
         /\ o.outcome = outcome /\ o.answer = answer /\ o.crossed = q.crossed
<1>0. PICK a, b, c, d, e, f : q = [kind |-> a, on |-> b, previous |-> c, outcome |-> d,
                                   answer |-> e, crossed |-> f]
  BY DEF IsRequest
<1>1. PICK u : u = [q EXCEPT !.outcome = outcome]
  OBVIOUS
<1>2. u = [kind |-> a, on |-> b, previous |-> c, outcome |-> outcome, answer |-> e,
           crossed |-> f]
  BY <1>0, <1>1
<1>3. PICK p : p = [u EXCEPT !.answer = answer]
  OBVIOUS
<1>4. p = o
  BY <1>1, <1>3 DEF Ended
<1>5. p = [kind |-> a, on |-> b, previous |-> c, outcome |-> outcome, answer |-> answer,
           crossed |-> f]
  <2> HIDE <1>1
  <2> QED
    BY <1>2, <1>3
<1>6. /\ p.kind = q.kind /\ p.on = q.on /\ p.previous = q.previous
      /\ p.outcome = outcome /\ p.answer = answer /\ p.crossed = q.crossed
  BY <1>0, <1>5
<1>7. p = [kind |-> p.kind, on |-> p.on, previous |-> p.previous, outcome |-> p.outcome,
           answer |-> p.answer, crossed |-> p.crossed]
  BY <1>5
<1>8. OnThread(p) <=> OnThread(q)
  BY <1>6 DEF OnThread
<1>9. IsRequest(p)
  BY <1>6, <1>7, <1>8 DEF IsRequest, MayEnd
<1> QED
  BY <1>4, <1>6, <1>9

IsOf(kind, on) ==
  /\ kind = "reply" => on \in Replies
  /\ kind = "resolve" => on \in BOOLEAN
  /\ kind = "toggle" => on \in Paths \X BOOLEAN

LEMMA RequestIs ==
  ASSUME NEW kind \in {"reply", "resolve", "react", "toggle", "fetch"}, NEW on, NEW previous,
         IsOf(kind, on),
         kind \in {"reply", "resolve", "react"} => previous \in Shots,
         kind \in {"toggle", "fetch"} => previous \in Entries
  PROVE  LET q == Request(kind, on, previous)
         IN /\ IsRequest(q) /\ q.kind = kind /\ q.on = on /\ q.previous = previous
            /\ q.outcome = "out" /\ q.crossed = FALSE
<1>1. PICK q : q = Request(kind, on, previous)
  OBVIOUS
<1>2. q = [kind |-> kind, on |-> on, previous |-> previous, outcome |-> "out",
           answer |-> Nothing, crossed |-> FALSE]
  BY <1>1 DEF Request
<1>3. /\ q.kind = kind /\ q.on = on /\ q.previous = previous
      /\ q.outcome = "out" /\ q.answer = Nothing /\ q.crossed = FALSE
  BY <1>2
<1>4. q = [kind |-> q.kind, on |-> q.on, previous |-> q.previous, outcome |-> q.outcome,
           answer |-> q.answer, crossed |-> q.crossed]
  BY <1>2, <1>3
<1>5. IsRequest(q)
  BY <1>3, <1>4 DEF IsRequest, OnThread, IsOf
<1> QED
  BY <1>1, <1>3, <1>5

LEMMA FetchIs ==
  ASSUME NEW q, q = Request("fetch", Nothing, Nothing)
  PROVE  IsRequest(q) /\ q.kind = "fetch" /\ q.outcome = "out"
<1>1. Nothing \in Entries
  BY DEF Entries
<1>2. IsOf("fetch", Nothing)
  BY DEF IsOf
<1>3. "fetch" \in {"reply", "resolve", "react", "toggle", "fetch"}
  OBVIOUS
<1>4. "fetch" \in {"reply", "resolve", "react"} => Nothing \in Shots
  OBVIOUS
<1>5. IsRequest(q)
  BY <1>1, <1>2, <1>3, <1>4, RequestIs
<1> QED
  BY <1>5 DEF Request

\* The youngest of a set of numbers that has a bound.
LEMMA LeastNatural ==
  ASSUME NEW T \in SUBSET Nat, T # {}
  PROVE  \E n \in T : \A m \in T : n <= m
<1>1. PICK n \in T : \A m \in T : <<m, n>> \notin OpToRel(<, Nat)
  BY NatLessThanWellFounded, WFMin, Zenon
<1>2. \A m \in T : ~(m < n)
  BY <1>1 DEF OpToRel
<1>3. \A m \in T : n <= m
  BY <1>2
<1> QED
  BY <1>3

LEMMA YoungestIs ==
  ASSUME NEW qs, AreRequests(qs)
  PROVE  Youngest(qs) \in Nat /\ \A n \in DOMAIN qs : n <= Youngest(qs)
<1>1. PICK b \in Nat : \A n \in DOMAIN qs : n <= b
  BY DEF AreRequests
<1> DEFINE Bounds == {n \in Nat : \A m \in DOMAIN qs : m <= n}
<1>2. PICK u \in Bounds : \A n \in Bounds : u <= n
  BY <1>1, LeastNatural
<1>3. u \in DOMAIN qs \cup {0}
  <2> SUFFICES ASSUME u \notin DOMAIN qs, u # 0 PROVE FALSE
    OBVIOUS
  <2>1. u - 1 \in Nat /\ \A m \in DOMAIN qs : m <= u - 1
    BY DEF AreRequests
  <2> QED
    BY <2>1, <1>2
<1>4. \E n \in DOMAIN qs \cup {0} : \A m \in DOMAIN qs : m <= n
  BY <1>2, <1>3
<1>5. Youngest(qs) \in DOMAIN qs \cup {0} /\ \A m \in DOMAIN qs : m <= Youngest(qs)
  BY <1>4 DEF Youngest
<1> QED
  BY <1>5 DEF AreRequests

\* A table of requests stays one.
LEMMA SentIs ==
  ASSUME NEW qs, AreRequests(qs), NEW q, IsRequest(q)
  PROVE  LET s == Sent(qs, q)
             k == Youngest(qs) + 1
         IN /\ AreRequests(s) /\ k \in Nat /\ DOMAIN s = DOMAIN qs \cup {k}
            /\ \A n \in DOMAIN qs :
                 /\ n < k /\ Same(qs[n], s[n])
                 /\ s[n].crossed = FALSE <=> qs[n].crossed = FALSE /\ ~SameEntry(q, qs[n])
            /\ Same(q, s[k])
            /\ s[k].crossed = FALSE <=> \A n \in DOMAIN qs : ~SameEntry(q, qs[n])
<1> DEFINE k == Youngest(qs) + 1
           Put(n) == [qs[n] EXCEPT !.crossed = @ \/ SameEntry(q, qs[n])]
           fresh == [q EXCEPT !.crossed = \E n \in DOMAIN qs : SameEntry(q, qs[n])]
           s == [n \in DOMAIN qs \cup {k} |-> IF n = k THEN fresh ELSE Put(n)]
<1>1. k \in Nat /\ \A n \in DOMAIN qs : n \in Nat /\ n < k
  BY YoungestIs DEF AreRequests
<1>2. Sent(qs, q) = s
  BY DEF Sent, Upsert, Crossed
<1>3. ASSUME NEW n \in DOMAIN qs
      PROVE  /\ s[n] = Put(n) /\ IsRequest(Put(n)) /\ Same(qs[n], Put(n))
             /\ Put(n).crossed = FALSE <=> qs[n].crossed = FALSE /\ ~SameEntry(q, qs[n])
  <2>1. s[n] = Put(n)
    BY <1>1
  <2>2. IsRequest(qs[n]) /\ qs[n].crossed \in BOOLEAN
    BY DEF AreRequests, IsRequest
  <2>3. PICK b \in BOOLEAN : b = (qs[n].crossed \/ SameEntry(q, qs[n]))
    BY <2>2
  <2>4. Put(n) = [qs[n] EXCEPT !.crossed = b]
    BY <2>3
  <2>5. b = FALSE <=> qs[n].crossed = FALSE /\ ~SameEntry(q, qs[n])
    BY <2>2, <2>3
  <2> QED
    BY <2>1, <2>2, <2>4, <2>5, CrossedIs
<1>4. /\ s[k] = fresh /\ IsRequest(fresh) /\ Same(q, fresh)
      /\ fresh.crossed = FALSE <=> \A n \in DOMAIN qs : ~SameEntry(q, qs[n])
  <2>1. PICK b \in BOOLEAN : b = \E n \in DOMAIN qs : SameEntry(q, qs[n])
    OBVIOUS
  <2>2. fresh = [q EXCEPT !.crossed = b]
    BY <2>1
  <2> QED
    BY <2>1, <2>2, CrossedIs
<1>5. AreRequests(s)
  <2>1. \A n \in DOMAIN s : IsRequest(s[n])
    BY <1>3, <1>4
  <2>2. \A n \in DOMAIN s : n <= k
    BY <1>1
  <2> QED
    BY <1>1, <2>1, <2>2 DEF AreRequests
<1>6. DOMAIN s = DOMAIN qs \cup {k}
  OBVIOUS
<1> HIDE DEF s, Put, fresh, k
<1> QED
  BY <1>1, <1>2, <1>3, <1>4, <1>5, <1>6 DEF k

LEMMA CrossedByThreadIs ==
  ASSUME NEW qs, AreRequests(qs)
  PROVE  LET s == Crossed(qs, OnThread)
         IN /\ AreRequests(s) /\ DOMAIN s = DOMAIN qs
            /\ \A n \in DOMAIN qs :
                 /\ Same(qs[n], s[n])
                 /\ s[n].crossed = FALSE <=> qs[n].crossed = FALSE /\ ~OnThread(qs[n])
<1> DEFINE Put(n) == [qs[n] EXCEPT !.crossed = @ \/ OnThread(qs[n])]
           s == [n \in DOMAIN qs |-> Put(n)]
<1>1. Crossed(qs, OnThread) = s
  BY DEF Crossed
<1>2. ASSUME NEW n \in DOMAIN qs
      PROVE  /\ s[n] = Put(n) /\ IsRequest(Put(n)) /\ Same(qs[n], Put(n))
             /\ Put(n).crossed = FALSE <=> qs[n].crossed = FALSE /\ ~OnThread(qs[n])
  <2>2. IsRequest(qs[n]) /\ qs[n].crossed \in BOOLEAN
    BY DEF AreRequests, IsRequest
  <2>3. PICK b \in BOOLEAN : b = (qs[n].crossed \/ OnThread(qs[n]))
    BY <2>2
  <2>4. Put(n) = [qs[n] EXCEPT !.crossed = b]
    BY <2>3
  <2>5. b = FALSE <=> qs[n].crossed = FALSE /\ ~OnThread(qs[n])
    BY <2>2, <2>3
  <2> QED
    BY <2>2, <2>4, <2>5, CrossedIs
<1>3. AreRequests(s)
  BY <1>2 DEF AreRequests
<1> QED
  BY <1>1, <1>2, <1>3

LEMMA WithoutIs ==
  ASSUME NEW qs, AreRequests(qs), NEW S
  PROVE  LET s == Without(qs, S)
         IN /\ AreRequests(s) /\ DOMAIN s = DOMAIN qs \ S
            /\ \A n \in DOMAIN s : s[n] = qs[n]
<1>1. PICK s : s = [n \in DOMAIN qs \ S |-> qs[n]]
  OBVIOUS
<1>2. Without(qs, S) = s
  BY <1>1 DEF Without, Restrict
<1>3. AreRequests(s)
  BY <1>1 DEF AreRequests
<1> QED
  BY <1>1, <1>2, <1>3

LEMMA FetchedIs ==
  ASSUME NEW qs, AreRequests(qs)
  PROVE  LET s == Fetched(qs)
         IN /\ AreRequests(s)
            /\ \/ s = qs
               \/ \E k \in Nat :
                    /\ DOMAIN s = {n \in DOMAIN qs : qs[n].kind # "fetch"} \cup {k}
                    /\ \A n \in DOMAIN qs : n < k
                    /\ \A n \in DOMAIN s \ {k} : s[n] = qs[n]
                    /\ s[k].kind = "fetch" /\ s[k].outcome = "out"
<1>0. PICK fetch : fetch = Request("fetch", Nothing, Nothing)
  OBVIOUS
<1> DEFINE k == Youngest(qs) + 1
           s == [n \in DOMAIN Unfetched(qs) \cup {k} |-> IF n = k THEN fetch ELSE Unfetched(qs)[n]]
<1>1. k \in Nat /\ \A n \in DOMAIN qs : n \in Nat /\ n < k
  BY YoungestIs DEF AreRequests
<1>2. /\ DOMAIN Unfetched(qs) = {n \in DOMAIN qs : qs[n].kind # "fetch"}
      /\ \A n \in DOMAIN Unfetched(qs) : Unfetched(qs)[n] = qs[n]
  <2>1. PICK S : S = {n \in DOMAIN qs : qs[n].kind = "fetch"}
    OBVIOUS
  <2>2. Unfetched(qs) = [n \in DOMAIN qs \ S |-> qs[n]]
    BY <2>1 DEF Unfetched, Without, Restrict
  <2> QED
    BY <2>1, <2>2
<1>3. IsRequest(fetch) /\ fetch.kind = "fetch" /\ fetch.outcome = "out"
  BY <1>0, FetchIs
<1>4. AreRequests(s)
  <2>1. \A n \in DOMAIN s : IsRequest(s[n])
    BY <1>1, <1>2, <1>3 DEF AreRequests
  <2>2. \A n \in DOMAIN s : n \in Nat /\ n <= k
    BY <1>1, <1>2
  <2> QED
    BY <1>1, <2>1, <2>2 DEF AreRequests
<1>5. /\ DOMAIN s = {n \in DOMAIN qs : qs[n].kind # "fetch"} \cup {k}
      /\ \A n \in DOMAIN s \ {k} : s[n] = qs[n]
      /\ s[k] = fetch
  BY <1>1, <1>2
<1>6. Fetched(qs) = qs \/ Fetched(qs) = s
  BY <1>0 DEF Fetched, Upsert
<1> QED
  BY <1>1, <1>3, <1>4, <1>5, <1>6

-----------------------------------------------------------------------------
(* The writes into an entry. *)

LEMMA WithReplyIs ==
  ASSUME NEW snap \in Shots, NEW r \in Replies
  PROVE  LET s == WithReply(snap, r)
         IN /\ s \in Shots /\ s.version = snap.version /\ s.copies = snap.copies
            /\ s.resolved = snap.resolved /\ s.hearts = snap.hearts
            /\ s.pending = snap.pending \cup {r}
            /\ s.authors = snap.authors \cup {<<r, "pending">>}
<1>1. PICK u : u = [snap EXCEPT !.pending = @ \cup {r}]
  OBVIOUS
<1>2. /\ u \in Shots /\ u.version = snap.version /\ u.copies = snap.copies
      /\ u.resolved = snap.resolved /\ u.hearts = snap.hearts
      /\ u.pending = snap.pending \cup {r} /\ u.authors = snap.authors
  BY <1>1 DEF Shots
<1>3. WithReply(snap, r) = [u EXCEPT !.authors = @ \cup {<<r, "pending">>}]
  BY <1>1 DEF WithReply
<1>4. PICK s : s = [u EXCEPT !.authors = @ \cup {<<r, "pending">>}]
  OBVIOUS
<1>5. /\ s \in Shots /\ s.version = u.version /\ s.copies = u.copies
      /\ s.resolved = u.resolved /\ s.hearts = u.hearts
      /\ s.pending = u.pending /\ s.authors = u.authors \cup {<<r, "pending">>}
  <2> HIDE <1>1
  <2> QED
    BY <1>2, <1>4 DEF Shots
<1> QED
  BY <1>2, <1>3, <1>4, <1>5

LEMMA ResolvedIs ==
  ASSUME NEW snap \in Shots, NEW b \in BOOLEAN
  PROVE  LET s == [snap EXCEPT !.resolved = b]
         IN /\ s \in Shots /\ s.version = snap.version /\ s.copies = snap.copies
            /\ s.pending = snap.pending /\ s.authors = snap.authors
            /\ s.hearts = snap.hearts /\ s.resolved = b
BY DEF Shots

LEMMA HeartsAre ==
  ASSUME NEW snap \in Shots, NEW h \in Nat
  PROVE  LET s == [snap EXCEPT !.hearts = h]
         IN /\ s \in Shots /\ s.version = snap.version /\ s.copies = snap.copies
            /\ s.pending = snap.pending /\ s.authors = snap.authors
            /\ s.resolved = snap.resolved /\ s.hearts = h
BY DEF Shots

LEMMA SwappedIs ==
  ASSUME NEW snap \in Shots, NEW r \in Replies
  PROVE  LET s == Swapped(snap, r)
         IN /\ s \in Shots /\ s.version = snap.version
            /\ s.resolved = snap.resolved /\ s.hearts = snap.hearts
            /\ s.copies = [snap.copies EXCEPT ![r] = @ + 1]
            /\ s.pending = snap.pending \ {r}
            /\ s.authors = (snap.authors \ {<<r, "pending">>}) \cup {<<r, "stored">>}
<1> DEFINE copies == [snap.copies EXCEPT ![r] = @ + 1]
           authors == (snap.authors \ {<<r, "pending">>}) \cup {<<r, "stored">>}
<1>0. copies \in [Replies -> Nat] /\ authors \in SUBSET (Replies \X {"pending", "stored"})
  BY DEF Shots
<1>1. PICK u : u = [snap EXCEPT !.copies[r] = @ + 1]
  OBVIOUS
<1>2. /\ u \in Shots /\ u.version = snap.version /\ u.copies = copies
      /\ u.resolved = snap.resolved /\ u.hearts = snap.hearts
      /\ u.pending = snap.pending /\ u.authors = snap.authors
  BY <1>0, <1>1 DEF Shots
<1>3. PICK v : v = [u EXCEPT !.pending = @ \ {r}]
  OBVIOUS
<1>4. /\ v \in Shots /\ v.version = u.version /\ v.copies = u.copies
      /\ v.resolved = u.resolved /\ v.hearts = u.hearts
      /\ v.pending = u.pending \ {r} /\ v.authors = u.authors
  <2> HIDE <1>1 DEF copies, authors
  <2> QED
    BY <1>2, <1>3 DEF Shots
<1>5. PICK s : s = [v EXCEPT !.authors = (@ \ {<<r, "pending">>}) \cup {<<r, "stored">>}]
  OBVIOUS
<1>6. /\ s \in Shots /\ s.version = v.version /\ s.copies = v.copies
      /\ s.resolved = v.resolved /\ s.hearts = v.hearts
      /\ s.pending = v.pending /\ s.authors = authors
  <2> HIDE <1>1, <1>3 DEF copies
  <2> QED
    BY <1>0, <1>2, <1>4, <1>5 DEF Shots
<1>7. Swapped(snap, r) = s
  BY <1>1, <1>3, <1>5 DEF Swapped
<1> QED
  BY <1>2, <1>4, <1>6, <1>7

LEMMA SnapshotIs ==
  ASSUME NEW thread \in Threads, NEW n \in Nat
  PROVE  LET s == SnapshotOf(thread, n)
         IN /\ s \in Shots /\ s.version = n /\ s.copies = thread.posted /\ s.pending = {}
            /\ s.authors = {r \in Replies : thread.posted[r] > 0} \X {"stored"}
            /\ s.resolved = thread.resolved /\ s.hearts = thread.hearts
BY DEF SnapshotOf, Shots, Threads

(* What GitHub and the daemon make of a request. *)
LEMMA LandedIs ==
  ASSUME github \in Threads, NEW q, IsRequest(q)
  PROVE  LET g == Landed(q)
         IN /\ g \in Threads
            /\ q.kind = "reply" =>
                 /\ g.posted = [github.posted EXCEPT ![q.on] = @ + 1]
                 /\ g.resolved = github.resolved /\ g.hearts = github.hearts
            /\ q.kind = "resolve" =>
                 g.posted = github.posted /\ g.resolved = q.on /\ g.hearts = github.hearts
            /\ q.kind = "react" =>
                 g.posted = github.posted /\ g.resolved = github.resolved /\ g.hearts = 1
            /\ ~OnThread(q) => g = github
<1>1. CASE q.kind = "reply"
  <2>1. q.on \in Replies
    BY <1>1 DEF IsRequest
  <2>2. PICK g : g = [github EXCEPT !.posted[q.on] = @ + 1]
    OBVIOUS
  <2>3. [github.posted EXCEPT ![q.on] = @ + 1] \in [Replies -> Nat]
    BY <2>1 DEF Threads
  <2>4. /\ g \in Threads /\ g.posted = [github.posted EXCEPT ![q.on] = @ + 1]
        /\ g.resolved = github.resolved /\ g.hearts = github.hearts
    BY <2>2, <2>3 DEF Threads
  <2>5. Landed(q) = g
    BY <1>1, <2>2 DEF Landed
  <2> QED
    BY <1>1, <2>4, <2>5 DEF OnThread
<1>2. CASE q.kind = "resolve"
  <2>1. q.on \in BOOLEAN
    BY <1>2 DEF IsRequest
  <2>2. PICK g : g = [github EXCEPT !.resolved = q.on]
    OBVIOUS
  <2>3. /\ g \in Threads /\ g.posted = github.posted
        /\ g.resolved = q.on /\ g.hearts = github.hearts
    BY <2>1, <2>2 DEF Threads
  <2>4. Landed(q) = g
    BY <1>2, <2>2 DEF Landed
  <2> QED
    BY <1>2, <2>3, <2>4 DEF OnThread
<1>3. CASE q.kind = "react"
  <2>2. PICK g : g = [github EXCEPT !.hearts = 1]
    OBVIOUS
  <2>3. /\ g \in Threads /\ g.posted = github.posted
        /\ g.resolved = github.resolved /\ g.hearts = 1
    BY <2>2 DEF Threads
  <2>4. Landed(q) = g
    BY <1>3, <2>2 DEF Landed
  <2> QED
    BY <1>3, <2>3, <2>4 DEF OnThread
<1>4. CASE ~OnThread(q)
  <2>1. Landed(q) = github
    BY <1>4 DEF Landed, OnThread
  <2> QED
    BY <1>4, <2>1 DEF OnThread
<1> QED
  BY <1>1, <1>2, <1>3, <1>4 DEF OnThread

LEMMA MarksAfterIs ==
  ASSUME marks \in Marks, NEW q, IsRequest(q)
  PROVE  /\ MarksAfter(q) \in Marks
         /\ q.kind # "toggle" => MarksAfter(q) = marks
<1>1. CASE q.kind = "toggle"
  <2>1. q.on[1] \in Paths /\ q.on[2] \in BOOLEAN
    BY <1>1 DEF IsRequest
  <2> QED
    BY <1>1, <2>1 DEF MarksAfter, Marks
<1> QED
  BY <1>1 DEF MarksAfter

-----------------------------------------------------------------------------
(* What each action does to the requests. *)

Goes(kind, on, k) ==
  /\ DOMAIN requests' = DOMAIN requests \cup {k}
  /\ \A n \in DOMAIN requests :
       /\ n < k /\ Same(requests[n], requests'[n])
       /\ requests'[n].crossed = FALSE <=> requests[n].crossed = FALSE /\ ~OfThread(n)
  /\ requests'[k].kind = kind /\ requests'[k].on = on
  /\ requests'[k].previous = shown /\ requests'[k].outcome = "out"
  /\ requests'[k].crossed = FALSE <=> NoneOfThread

LEMMA MutateSends ==
  ASSUME CacheTyped, NEW kind \in {"reply", "resolve", "react"}, NEW on, IsOf(kind, on),
         Mutate(kind, on)
  PROVE  /\ AreRequests(requests') /\ SyncType'
         /\ sync' # Nothing => sync # Nothing /\ sync'.crossed = TRUE
         /\ \E k \in Nat : Goes(kind, on, k)
<1>1. PICK q : q = Request(kind, on, shown)
  OBVIOUS
<1>2. /\ IsRequest(q) /\ q.kind = kind /\ q.on = on /\ q.previous = shown
      /\ q.outcome = "out"
  <2>1. kind \in {"reply", "resolve", "react"} => shown \in Shots
    BY DEF CacheTyped
  <2>2. kind \in {"reply", "resolve", "react", "toggle", "fetch"}
    OBVIOUS
  <2>3. kind \in {"toggle", "fetch"} => shown \in Entries
    OBVIOUS
  <2>4. IsRequest(q)
    BY <1>1, <2>1, <2>2, <2>3, RequestIs
  <2> QED
    BY <1>1, <2>4 DEF Request
<1>3. requests' = Sent(requests, q) /\ AreRequests(requests)
  BY <1>1 DEF Mutate, CacheTyped
<1>4. \A n \in DOMAIN requests : SameEntry(q, requests[n]) <=> OfThread(n)
  BY <1>2 DEF SameEntry, OnThread, OfThread
<1>5. PICK k \in Nat :
        /\ AreRequests(requests') /\ DOMAIN requests' = DOMAIN requests \cup {k}
        /\ \A n \in DOMAIN requests :
             /\ n < k /\ Same(requests[n], requests'[n])
             /\ requests'[n].crossed = FALSE
                  <=> requests[n].crossed = FALSE /\ ~SameEntry(q, requests[n])
        /\ Same(q, requests'[k])
        /\ requests'[k].crossed = FALSE <=> \A n \in DOMAIN requests : ~SameEntry(q, requests[n])
  BY <1>2, <1>3, SentIs
<1>6. /\ requests'[k].kind = kind /\ requests'[k].on = on
      /\ requests'[k].previous = shown /\ requests'[k].outcome = "out"
  BY <1>2, <1>5 DEF Same
<1>7. SyncType' /\ (sync' # Nothing => sync # Nothing /\ sync'.crossed = TRUE)
  BY DEF Mutate, CacheTyped, SyncType
<1>8. Goes(kind, on, k)
  BY <1>4, <1>5, <1>6 DEF Goes, NoneOfThread
<1> QED
  BY <1>5, <1>7, <1>8

ToggleGoes(k) ==
  /\ DOMAIN requests' = {n \in DOMAIN requests : requests[n].kind # "fetch"} \cup {k}
  /\ \A n \in DOMAIN requests : requests[n].kind # "fetch" =>
       /\ n < k /\ Same(requests[n], requests'[n])
       /\ requests'[n].crossed = FALSE <=> requests[n].crossed = FALSE /\ OfThread(n)
  /\ requests'[k].kind = "toggle" /\ requests'[k].previous = viewed
  /\ requests'[k].outcome = "out"
  /\ requests'[k].crossed = FALSE <=> NoToggle

LEMMA ToggleSends ==
  ASSUME CacheTyped, NEW p \in Paths, Toggle(p)
  PROVE  /\ AreRequests(requests') /\ viewed' \in Marks
         /\ \E k \in Nat : ToggleGoes(k)
<1> DEFINE before == IF viewed = Nothing THEN NoMarks ELSE viewed
<1>1. before \in Marks
  BY DEF CacheTyped, Entries, NoMarks, Marks
<1>2. viewed' = [before EXCEPT ![p] = ~@] /\ viewed' \in Marks
  BY <1>1 DEF Toggle, Marks
<1>3. PICK q : q = Request("toggle", <<p, ~before[p]>>, viewed)
  OBVIOUS
<1>4. /\ IsRequest(q) /\ q.kind = "toggle" /\ q.previous = viewed /\ q.outcome = "out"
  <2>1. IsOf("toggle", <<p, ~before[p]>>)
    BY <1>1 DEF IsOf, Marks
  <2>2. "toggle" \in {"toggle", "fetch"} => viewed \in Entries
    BY DEF CacheTyped
  <2>3. "toggle" \in {"reply", "resolve", "react", "toggle", "fetch"}
    OBVIOUS
  <2>4. "toggle" \in {"reply", "resolve", "react"} => viewed \in Shots
    OBVIOUS
  <2>5. IsRequest(q)
    BY <1>3, <2>1, <2>2, <2>3, <2>4, RequestIs
  <2> QED
    BY <1>3, <2>5 DEF Request
<1>5. PICK qs : qs = Unfetched(requests)
  OBVIOUS
<1>6. /\ AreRequests(qs) /\ DOMAIN qs = {n \in DOMAIN requests : requests[n].kind # "fetch"}
      /\ \A n \in DOMAIN qs : qs[n] = requests[n]
  <2>1. PICK S : S = {n \in DOMAIN requests : requests[n].kind = "fetch"}
    OBVIOUS
  <2>2. qs = Without(requests, S)
    BY <1>5, <2>1 DEF Unfetched
  <2>3. AreRequests(requests)
    BY DEF CacheTyped
  <2>4. AreRequests(qs) /\ DOMAIN qs = DOMAIN requests \ S /\ \A n \in DOMAIN qs : qs[n] = requests[n]
    BY <2>2, <2>3, WithoutIs
  <2> QED
    BY <2>1, <2>4
<1>7. requests' = Sent(qs, q)
  BY <1>3, <1>5 DEF Toggle
<1>8. PICK k \in Nat :
        /\ AreRequests(requests') /\ DOMAIN requests' = DOMAIN qs \cup {k}
        /\ \A n \in DOMAIN qs :
             /\ n < k /\ Same(qs[n], requests'[n])
             /\ requests'[n].crossed = FALSE <=> qs[n].crossed = FALSE /\ ~SameEntry(q, qs[n])
        /\ Same(q, requests'[k])
        /\ requests'[k].crossed = FALSE <=> \A n \in DOMAIN qs : ~SameEntry(q, qs[n])
  BY <1>4, <1>6, <1>7, SentIs
<1>9. \A n \in DOMAIN qs : SameEntry(q, qs[n]) <=> ~OfThread(n)
  BY <1>4, <1>6 DEF SameEntry, OnThread, OfThread
<1>10. (\A n \in DOMAIN qs : OfThread(n)) <=> NoToggle
  BY <1>6 DEF NoToggle, IsToggle, OfThread, OnThread, CacheTyped, AreRequests, IsRequest
<1>11. requests'[k].crossed = FALSE <=> NoToggle
  BY <1>8, <1>9, <1>10
<1>12. \A n \in DOMAIN requests : requests[n].kind # "fetch" =>
         /\ n < k /\ Same(requests[n], requests'[n])
         /\ requests'[n].crossed = FALSE <=> requests[n].crossed = FALSE /\ OfThread(n)
  BY <1>6, <1>8, <1>9
<1>13. /\ requests'[k].kind = "toggle" /\ requests'[k].previous = viewed
       /\ requests'[k].outcome = "out"
  BY <1>4, <1>8 DEF Same
<1>14. ToggleGoes(k)
  BY <1>6, <1>8, <1>11, <1>12, <1>13 DEF ToggleGoes
<1> HIDE DEF before
<1> QED
  BY <1>2, <1>8, <1>14

(* An answer: nothing but one request's outcome and answer changes. *)
Answers(i, outcome) ==
  /\ AreRequests(requests') /\ DOMAIN requests' = DOMAIN requests
  /\ \A n \in DOMAIN requests \ {i} : requests'[n] = requests[n]
  /\ requests'[i].kind = requests[i].kind /\ requests'[i].on = requests[i].on
  /\ requests'[i].previous = requests[i].previous /\ requests'[i].outcome = outcome
  /\ requests'[i].crossed = requests[i].crossed

LEMMA AnswersIf ==
  ASSUME CacheTyped, NEW i \in DOMAIN requests, NEW o, IsRequest(o),
         requests' = [requests EXCEPT ![i] = o]
  PROVE  /\ AreRequests(requests') /\ DOMAIN requests' = DOMAIN requests
         /\ requests'[i] = o
         /\ \A n \in DOMAIN requests \ {i} : requests'[n] = requests[n]
<1>1. requests = [n \in DOMAIN requests |-> requests[n]]
  BY DEF CacheTyped, AreRequests
<1>2. requests' = [n \in DOMAIN requests |-> IF n = i THEN o ELSE requests[n]]
  BY <1>1
<1> QED
  BY <1>2 DEF CacheTyped, AreRequests

LEMMA ServeAnswers ==
  ASSUME CacheTyped, NEW i \in DOMAIN requests, Serve(i)
  PROVE  /\ Answers(i, "done") /\ github' \in Threads /\ marks' \in Marks
         /\ OfMarks(i) => requests'[i].answer = marks'
<1>1. IsRequest(requests[i]) /\ github \in Threads /\ marks \in Marks
  BY DEF CacheTyped, AreRequests
<1>2. PICK answer : answer = AnswerTo(requests[i])
  OBVIOUS
<1>3. PICK q : q = requests[i]
  OBVIOUS
<1>4. PICK o : o = Ended(q, "done", answer)
  OBVIOUS
<1>5. MarksAfter(q) \in Marks
  BY <1>1, <1>3, MarksAfterIs
<1>6. /\ q.kind = "resolve" => answer = q.on
      /\ q.kind = "react" => answer = 1
      /\ ~OnThread(q) => answer = MarksAfter(q)
  BY <1>2, <1>3 DEF AnswerTo, OnThread
<1>7. /\ IsRequest(o) /\ o.kind = q.kind /\ o.on = q.on /\ o.previous = q.previous
      /\ o.outcome = "done" /\ o.answer = answer /\ o.crossed = q.crossed
  <2>1. MayEnd(q, "done", answer)
    BY <1>5, <1>6 DEF MayEnd
  <2> QED
    BY <1>1, <1>3, <1>4, <2>1, AnsweredIs
<1>8. requests' = [requests EXCEPT ![i] = o]
  BY <1>2, <1>3, <1>4 DEF Serve, Ended
<1>9. Answers(i, "done") /\ requests'[i] = o
  BY <1>3, <1>7, <1>8, AnswersIf DEF Answers
<1>10. github' \in Threads /\ marks' = MarksAfter(q)
  BY <1>1, <1>3, LandedIs DEF Serve
<1> QED
  BY <1>3, <1>5, <1>6, <1>7, <1>9, <1>10 DEF OfMarks

LEMMA RefuseAnswers ==
  ASSUME CacheTyped, NEW i \in DOMAIN requests, Refuse(i)
  PROVE  Answers(i, "refused") /\ requests'[i].answer = requests[i].answer
<1>3. PICK q : q = requests[i]
  OBVIOUS
<1>1. IsRequest(q) /\ q.kind # "fetch"
  BY <1>3 DEF CacheTyped, AreRequests, Refuse
<1>4. PICK o : o = Ended(q, "refused", q.answer)
  OBVIOUS
<1>7. /\ IsRequest(o) /\ o.kind = q.kind /\ o.on = q.on /\ o.previous = q.previous
      /\ o.outcome = "refused" /\ o.answer = q.answer /\ o.crossed = q.crossed
  <2>1. MayEnd(q, "refused", q.answer)
    BY <1>1 DEF MayEnd
  <2> QED
    BY <1>1, <1>4, <2>1, AnsweredIs
<1>5. [q EXCEPT !.outcome = "refused"] = o
  BY <1>1, <1>4 DEF IsRequest, Ended
<1>8. requests' = [requests EXCEPT ![i] = o]
  BY <1>3, <1>5 DEF Refuse
<1> QED
  BY <1>3, <1>7, <1>8, AnswersIf DEF Answers

LEMMA LoseAnswers ==
  ASSUME CacheTyped, NEW i \in DOMAIN requests, Lose(i)
  PROVE  Answers(i, "lost") /\ requests'[i].answer = requests[i].answer
<1>3. PICK q : q = requests[i]
  OBVIOUS
<1>1. IsRequest(q) /\ OnThread(q)
  BY <1>3 DEF CacheTyped, AreRequests, Lose
<1>4. PICK o : o = Ended(q, "lost", q.answer)
  OBVIOUS
<1>7. /\ IsRequest(o) /\ o.kind = q.kind /\ o.on = q.on /\ o.previous = q.previous
      /\ o.outcome = "lost" /\ o.answer = q.answer /\ o.crossed = q.crossed
  <2>1. MayEnd(q, "lost", q.answer)
    BY <1>1 DEF MayEnd
  <2> QED
    BY <1>1, <1>4, <2>1, AnsweredIs
<1>5. [q EXCEPT !.outcome = "lost"] = o
  BY <1>1, <1>4 DEF IsRequest, Ended
<1>8. requests' = [requests EXCEPT ![i] = o]
  BY <1>3, <1>5 DEF Lose
<1> QED
  BY <1>3, <1>7, <1>8, AnswersIf DEF Answers

(* A request that is settled goes. *)
Settles(i) ==
  /\ AreRequests(requests') /\ DOMAIN requests' = DOMAIN requests \ {i}
  /\ \A n \in DOMAIN requests' : requests'[n] = requests[n]

LEMMA WithoutSettles ==
  ASSUME CacheTyped, NEW i, requests' = Without(requests, {i})
  PROVE  Settles(i)
<1>1. AreRequests(requests)
  BY DEF CacheTyped
<1> QED
  BY <1>1, WithoutIs DEF Settles

LEMMA OptimisticIs ==
  ASSUME NEW snap \in Shots, NEW kind \in {"reply", "resolve", "react"}, NEW on, IsOf(kind, on)
  PROVE  Optimistic(snap, kind, on) \in Shots
<1>1. CASE kind = "reply"
  <2>1. on \in Replies
    BY <1>1 DEF IsOf
  <2>2. Optimistic(snap, kind, on) = WithReply(snap, on)
    BY <1>1 DEF Optimistic
  <2> QED
    BY <2>1, <2>2, WithReplyIs
<1>2. CASE kind = "resolve"
  <2>1. on \in BOOLEAN
    BY <1>2 DEF IsOf
  <2>2. Optimistic(snap, kind, on) = [snap EXCEPT !.resolved = on]
    BY <1>2 DEF Optimistic
  <2> QED
    BY <2>1, <2>2, ResolvedIs
<1>3. CASE kind = "react"
  <2>1. snap.hearts + 1 \in Nat
    BY DEF Shots
  <2>2. Optimistic(snap, kind, on) = [snap EXCEPT !.hearts = snap.hearts + 1]
    BY <1>3 DEF Optimistic
  <2> QED
    BY <2>1, <2>2, HeartsAre
<1> QED
  BY <1>1, <1>2, <1>3

LEMMA ConfirmedIs ==
  ASSUME NEW snap \in Shots, NEW q, IsRequest(q), OnThread(q), q.outcome = "done"
  PROVE  /\ Confirmed(snap, q) \in Shots
         /\ q.kind = "reply" => Confirmed(snap, q) = Swapped(snap, q.on)
         /\ q.kind = "resolve" => Confirmed(snap, q) = [snap EXCEPT !.resolved = q.on]
         /\ q.kind = "react" => Confirmed(snap, q) = [snap EXCEPT !.hearts = 1]
<1>1. CASE q.kind = "reply"
  <2>1. q.on \in Replies
    BY <1>1 DEF IsRequest
  <2>2. Confirmed(snap, q) = Swapped(snap, q.on)
    BY <1>1 DEF Confirmed
  <2> QED
    BY <1>1, <2>1, <2>2, SwappedIs
<1>2. CASE q.kind = "resolve"
  <2>1. q.on \in BOOLEAN /\ q.answer = q.on
    BY <1>2 DEF IsRequest
  <2>2. Confirmed(snap, q) = [snap EXCEPT !.resolved = q.on]
    BY <1>2, <2>1 DEF Confirmed
  <2> QED
    BY <1>2, <2>1, <2>2, ResolvedIs
<1>3. CASE q.kind = "react"
  <2>1. q.answer = 1
    BY <1>3 DEF IsRequest
  <2>2. Confirmed(snap, q) = [snap EXCEPT !.hearts = 1]
    BY <1>3, <2>1 DEF Confirmed
  <2> QED
    BY <1>3, <2>2, HeartsAre
<1> QED
  BY <1>1, <1>2, <1>3 DEF OnThread

(* The requests a sync or a reload leaves. *)
Rereads ==
  \/ DOMAIN requests' = DOMAIN requests
  \/ \E k \in Nat :
       /\ DOMAIN requests' = {n \in DOMAIN requests : requests[n].kind # "fetch"} \cup {k}
       /\ \A n \in DOMAIN requests : n < k
       /\ requests'[k].kind = "fetch" /\ requests'[k].outcome = "out"
CrossesThread ==
  \A n \in DOMAIN requests \cap DOMAIN requests' :
    /\ Same(requests[n], requests'[n])
    /\ requests'[n].crossed = FALSE <=> requests[n].crossed = FALSE /\ ~OfThread(n)

LEMMA LandSyncRereads ==
  ASSUME CacheTyped, LandSync
  PROVE  AreRequests(requests') /\ Rereads /\ CrossesThread
<1>1. PICK qs : qs = Crossed(requests, OnThread)
  OBVIOUS
<1>2. AreRequests(requests)
  BY DEF CacheTyped
<1>3. /\ AreRequests(qs) /\ DOMAIN qs = DOMAIN requests
      /\ \A n \in DOMAIN requests :
           /\ Same(requests[n], qs[n])
           /\ qs[n].crossed = FALSE <=> requests[n].crossed = FALSE /\ ~OfThread(n)
  BY <1>1, <1>2, CrossedByThreadIs DEF OfThread
<1>4. requests' = Fetched(qs)
  BY <1>1 DEF LandSync
<1>5. AreRequests(requests')
  BY <1>3, <1>4, FetchedIs
<1>6. CASE requests' = qs
  BY <1>3, <1>5, <1>6 DEF Rereads, CrossesThread
<1>7. CASE \E k \in Nat :
             /\ DOMAIN requests' = {n \in DOMAIN qs : qs[n].kind # "fetch"} \cup {k}
             /\ \A n \in DOMAIN qs : n < k
             /\ \A n \in DOMAIN requests' \ {k} : requests'[n] = qs[n]
             /\ requests'[k].kind = "fetch" /\ requests'[k].outcome = "out"
  <2>1. PICK k \in Nat :
             /\ DOMAIN requests' = {n \in DOMAIN qs : qs[n].kind # "fetch"} \cup {k}
             /\ \A n \in DOMAIN qs : n < k
             /\ \A n \in DOMAIN requests' \ {k} : requests'[n] = qs[n]
             /\ requests'[k].kind = "fetch" /\ requests'[k].outcome = "out"
    BY <1>7
  <2>2. k \notin DOMAIN requests
    BY <1>3, <2>1
  <2>3. \A n \in DOMAIN requests : qs[n].kind = requests[n].kind
    BY <1>3 DEF Same
  <2>4. DOMAIN requests' = {n \in DOMAIN requests : requests[n].kind # "fetch"} \cup {k}
    BY <1>3, <2>1, <2>3
  <2>5. Rereads
    BY <1>3, <2>1, <2>4 DEF Rereads
  <2>6. CrossesThread
    BY <1>3, <2>1, <2>2 DEF CrossesThread
  <2> QED
    BY <1>5, <2>5, <2>6
<1> QED
  BY <1>3, <1>4, <1>6, <1>7, FetchedIs

LEMMA ReloadRereads ==
  ASSUME CacheTyped, Reload
  PROVE  AreRequests(requests') /\ DOMAIN requests' = DOMAIN requests /\ CrossesThread
<1>1. AreRequests(requests)
  BY DEF CacheTyped
<1>2. requests' = Crossed(requests, OnThread)
  BY DEF Reload
<1> QED
  BY <1>1, <1>2, CrossedByThreadIs DEF CrossesThread, OfThread

(* A mark that was refused: the writes to the thread are not concerned. *)
ThreadStays ==
  /\ \A n \in DOMAIN requests :
       OfThread(n) => n \in DOMAIN requests' /\ requests'[n] = requests[n]
  /\ \A n \in DOMAIN requests' :
       OnThread(requests'[n]) => n \in DOMAIN requests /\ OfThread(n)

LEMMA RestoreMarksSettles ==
  ASSUME CacheTyped, NEW i \in DOMAIN requests, RestoreMarks(i)
  PROVE  /\ AreRequests(requests') /\ viewed' \in Entries
         /\ requests[i].previous # Nothing => Settles(i) /\ viewed' = requests[i].previous
         /\ ThreadStays
<1>1. AreRequests(requests) /\ IsRequest(requests[i]) /\ requests[i].kind = "toggle"
  BY DEF CacheTyped, AreRequests, RestoreMarks
<1>2. requests[i].previous \in Entries /\ viewed \in Entries /\ ~OfThread(i)
  BY <1>1 DEF IsRequest, OnThread, OfThread, CacheTyped
<1>3. viewed' \in Entries
  BY <1>2 DEF RestoreMarks
<1>4. CASE requests[i].previous # Nothing
  <2>1. requests' = Without(requests, {i}) /\ viewed' = requests[i].previous
    BY <1>4 DEF RestoreMarks
  <2>2. Settles(i)
    BY <2>1, WithoutSettles
  <2>3. \A n \in DOMAIN requests' : n \in DOMAIN requests /\ requests'[n] = requests[n]
    BY <2>2 DEF Settles
  <2>4. \A n \in DOMAIN requests : OfThread(n) => n \in DOMAIN requests' /\ requests'[n] = requests[n]
    BY <1>2, <2>2, <2>3 DEF Settles
  <2> QED
    BY <1>3, <1>4, <2>1, <2>2, <2>3, <2>4 DEF Settles, OfThread, ThreadStays
<1>5. CASE requests[i].previous = Nothing
  <2>1. PICK qs : qs = Without(requests, {i})
    OBVIOUS
  <2>2. AreRequests(qs) /\ DOMAIN qs = DOMAIN requests \ {i} /\ \A n \in DOMAIN qs : qs[n] = requests[n]
    BY <1>1, <2>1, WithoutIs
  <2>3. requests' = Fetched(qs)
    BY <1>5, <2>1 DEF RestoreMarks
  <2>4. AreRequests(requests')
    BY <2>2, <2>3, FetchedIs
  <2>5. CASE requests' = qs
    BY <1>2, <1>3, <1>5, <2>2, <2>4, <2>5 DEF OfThread, ThreadStays
  <2>6. CASE \E k \in Nat :
               /\ DOMAIN requests' = {n \in DOMAIN qs : qs[n].kind # "fetch"} \cup {k}
               /\ \A n \in DOMAIN qs : n < k
               /\ \A n \in DOMAIN requests' \ {k} : requests'[n] = qs[n]
               /\ requests'[k].kind = "fetch" /\ requests'[k].outcome = "out"
    <3>1. PICK k \in Nat :
               /\ DOMAIN requests' = {n \in DOMAIN qs : qs[n].kind # "fetch"} \cup {k}
               /\ \A n \in DOMAIN qs : n < k
               /\ \A n \in DOMAIN requests' \ {k} : requests'[n] = qs[n]
               /\ requests'[k].kind = "fetch" /\ requests'[k].outcome = "out"
      BY <2>6
    <3>2. \A n \in DOMAIN qs : n # k
      <4>1. DOMAIN qs \subseteq Nat
        BY <2>2 DEF AreRequests
      <4> QED
        BY <3>1, <4>1
    <3>3. \A n \in DOMAIN requests : OfThread(n) => n \in DOMAIN requests' /\ requests'[n] = requests[n]
      BY <1>2, <2>2, <3>1, <3>2 DEF OfThread, OnThread
    <3>4. ASSUME NEW n \in DOMAIN requests', OnThread(requests'[n])
          PROVE  n \in DOMAIN requests /\ OfThread(n)
      <4>1. n # k
        BY <3>1, <3>4 DEF OnThread
      <4> QED
        BY <2>2, <3>1, <3>4, <4>1 DEF OfThread
    <3> QED
      BY <1>3, <1>5, <2>4, <3>3, <3>4 DEF ThreadStays
  <2>7. \/ Fetched(qs) = qs
        \/ \E k \in Nat :
             /\ DOMAIN Fetched(qs) = {n \in DOMAIN qs : qs[n].kind # "fetch"} \cup {k}
             /\ \A n \in DOMAIN qs : n < k
             /\ \A n \in DOMAIN Fetched(qs) \ {k} : Fetched(qs)[n] = qs[n]
             /\ Fetched(qs)[k].kind = "fetch" /\ Fetched(qs)[k].outcome = "out"
    BY <2>2, FetchedIs
  <2> QED
    BY <2>3, <2>5, <2>6, <2>7
<1> QED
  BY <1>4, <1>5

-----------------------------------------------------------------------------
(* The types. *)

LEMMA CacheInitTyped ==
  ASSUME CacheInit
  PROVE  CacheTyped
<1>1. github \in Threads /\ github.hearts = 0 /\ github.resolved = FALSE
  BY DEF CacheInit, Threads
<1>2. stored = SnapshotOf(github, 0) /\ stored \in Shots /\ shown = stored
  BY <1>1, SnapshotIs DEF CacheInit
<1>3. marks \in Marks /\ viewed \in Entries
  BY DEF CacheInit, Marks, NoMarks, Entries
<1>4. AreRequests(requests)
  <2>1. CASE requests = EmptyTable
    BY <2>1 DEF AreRequests, EmptyTable
  <2>2. CASE EarlyToggles
    <3>1. PICK fetch : fetch = Request("fetch", Nothing, Nothing)
      OBVIOUS
    <3>2. requests = [n \in {1} |-> fetch]
      BY <2>2, <3>1 DEF CacheInit, Upsert, EmptyTable
    <3>3. IsRequest(fetch)
      BY <3>1, FetchIs
    <3>4. DOMAIN requests \subseteq Nat /\ \A n \in DOMAIN requests : n <= 1 /\ requests[n] = fetch
      BY <3>2
    <3> QED
      BY <3>2, <3>3, <3>4 DEF AreRequests
  <2> QED
    BY <2>1, <2>2 DEF CacheInit
<1> QED
  BY <1>1, <1>2, <1>3, <1>4 DEF CacheInit, CacheTyped, SyncType

LEMMA MutateTyped ==
  ASSUME CacheTyped, NEW kind \in {"reply", "resolve", "react"}, NEW on, IsOf(kind, on),
         Mutate(kind, on), box' \in Replies \cup {Nothing}, written' \subseteq Replies
  PROVE  CacheTyped'
<1>1. AreRequests(requests') /\ SyncType'
  BY MutateSends
<1>2. shown' \in Shots
  BY OptimisticIs DEF Mutate, CacheTyped
<1> QED
  BY <1>1, <1>2 DEF Mutate, CacheTyped, daemon

\* Which write a click begins.
LEMMA ResolveMutates ==
  ASSUME CacheTyped, Resolve
  PROVE  /\ Mutate("resolve", ~shown.resolved) /\ IsOf("resolve", ~shown.resolved)
         /\ box' = box /\ written' = written
BY DEF Resolve, IsOf, CacheTyped, Shots

LEMMA ReactMutates ==
  ASSUME React
  PROVE  /\ Mutate("react", Nothing) /\ IsOf("react", Nothing)
         /\ box' = box /\ written' = written
BY DEF React, IsOf

LEMMA ReplyMutates ==
  ASSUME CacheTyped, Reply
  PROVE  /\ box \in Replies /\ Mutate("reply", box) /\ IsOf("reply", box)
         /\ box' = Nothing /\ written' = written
BY DEF Reply, IsOf, CacheTyped

LEMMA CacheStepTyped ==
  ASSUME ClientAssumption, CacheTyped, [CacheNext]_cacheVars
  PROVE  CacheTyped'
<1>1. CASE Reply
  <2>1. /\ Mutate("reply", box) /\ IsOf("reply", box)
        /\ box' \in Replies \cup {Nothing} /\ written' \subseteq Replies
    BY <1>1, ReplyMutates DEF CacheTyped
  <2>2. "reply" \in {"reply", "resolve", "react"}
    OBVIOUS
  <2> QED
    BY <2>1, <2>2, MutateTyped
<1>2. CASE Resolve
  <2>1. /\ Mutate("resolve", ~shown.resolved) /\ IsOf("resolve", ~shown.resolved)
        /\ box' \in Replies \cup {Nothing} /\ written' \subseteq Replies
    BY <1>2, ResolveMutates DEF CacheTyped
  <2>2. "resolve" \in {"reply", "resolve", "react"}
    OBVIOUS
  <2> QED
    BY <2>1, <2>2, MutateTyped
<1>3. CASE React
  <2>1. /\ Mutate("react", Nothing) /\ IsOf("react", Nothing)
        /\ box' \in Replies \cup {Nothing} /\ written' \subseteq Replies
    BY <1>3, ReactMutates DEF CacheTyped
  <2>2. "react" \in {"reply", "resolve", "react"}
    OBVIOUS
  <2> QED
    BY <2>1, <2>2, MutateTyped
<1>4. ASSUME NEW r \in Replies, TypeReply(r) PROVE CacheTyped'
  BY <1>4 DEF TypeReply, CacheTyped, SyncType, daemon
<1>5. ASSUME NEW p \in Paths, Toggle(p) PROVE CacheTyped'
  <2>1. AreRequests(requests') /\ viewed' \in Marks
    BY <1>5, ToggleSends
  <2> QED
    BY <1>5, <2>1 DEF Toggle, CacheTyped, SyncType, daemon, Entries
<1>6. CASE StartSync
  <2>1. PICK b \in BOOLEAN : b = \E n \in DOMAIN requests : OnThread(requests[n])
    OBVIOUS
  <2>2. sync' = [read |-> Nothing, crossed |-> b]
    BY <1>6, <2>1 DEF StartSync
  <2>3. SyncType'
    BY <2>2 DEF SyncType
  <2> QED
    BY <1>6, <2>3 DEF StartSync, CacheTyped, daemon
<1>7. CASE ReadGithub
  <2>1. stored' \in Shots
    BY <1>7, SnapshotIs DEF ReadGithub, CacheTyped
  <2>2. PICK s : s = stored'
    OBVIOUS
  <2>3. sync' = [sync EXCEPT !.read = s] /\ sync # Nothing
    BY <1>7, <2>2 DEF ReadGithub
  <2>4. SyncType'
    BY <2>1, <2>2, <2>3 DEF SyncType, CacheTyped
  <2> QED
    BY <1>7, <2>1, <2>4 DEF ReadGithub, CacheTyped
<1>8. CASE LandSync
  <2>1. AreRequests(requests')
    BY <1>8, LandSyncRereads
  <2>2. shown' \in Shots /\ SyncType' /\ tangled' \in BOOLEAN
    BY <1>8 DEF LandSync, CacheTyped, SyncType
  <2> QED
    BY <1>8, <2>1, <2>2 DEF LandSync, CacheTyped, daemon
<1>9. CASE FailSync
  <2>1. SyncType'
    BY <1>9 DEF FailSync, SyncType
  <2> QED
    BY <1>9, <2>1 DEF FailSync, CacheTyped, daemon
<1>10. CASE Reload
  <2>1. AreRequests(requests')
    BY <1>10, ReloadRereads
  <2> QED
    BY <1>10, <2>1 DEF Reload, CacheTyped, daemon, SyncType
<1>11. ASSUME NEW i \in DOMAIN requests, Wire(i) \/ Settle(i)
       PROVE  CacheTyped'
  <2>0. IsRequest(requests[i])
    BY DEF CacheTyped, AreRequests
  <2>1. CASE Serve(i)
    <3>1. AreRequests(requests') /\ github' \in Threads /\ marks' \in Marks
      BY <2>1, ServeAnswers DEF Answers
    <3> QED
      BY <2>1, <3>1 DEF Serve, CacheTyped, SyncType
  <2>2. CASE Refuse(i)
    <3>1. AreRequests(requests')
      BY <2>2, RefuseAnswers DEF Answers
    <3> QED
      BY <2>2, <3>1 DEF Refuse, CacheTyped, SyncType, daemon
  <2>3. CASE Lose(i)
    <3>1. AreRequests(requests')
      BY <2>3, LoseAnswers DEF Answers
    <3> QED
      BY <2>3, <3>1 DEF Lose, CacheTyped, SyncType, daemon
  <2>4. CASE Succeed(i)
    <3>1. AreRequests(requests')
      BY <2>4, WithoutSettles DEF Succeed, Settles
    <3>2. OnThread(requests[i]) /\ requests[i].outcome = "done"
      BY <2>0, <2>4 DEF Succeed, Arrives, Failed, IsRequest
    <3>3. shown' \in Shots
      BY <2>0, <2>4, <3>2, ConfirmedIs DEF Succeed, CacheTyped
    <3> QED
      BY <2>4, <3>1, <3>3 DEF Succeed, CacheTyped, SyncType, daemon
  <2>5. CASE TakeMarks(i)
    <3>1. AreRequests(requests')
      BY <2>5, WithoutSettles DEF TakeMarks, Settles
    <3>2. ~OnThread(requests[i]) /\ requests[i].outcome = "done"
      BY <2>0, <2>5 DEF TakeMarks, Arrives, Failed, IsRequest
    <3>3. viewed' \in Entries
      BY <2>0, <2>5, <3>2 DEF TakeMarks, IsRequest, Entries
    <3>4. smudged' \in BOOLEAN
      BY <2>5 DEF TakeMarks, CacheTyped
    <3> QED
      BY <2>5, <3>1, <3>3, <3>4 DEF TakeMarks, CacheTyped, SyncType, daemon
  <2>6. CASE Fail(i)
    <3>1. AreRequests(requests')
      BY <2>6, WithoutSettles DEF Fail, Settles
    <3>2. shown' \in Shots
      BY <2>0, <2>6 DEF Fail, IsRequest
    <3>3. box' \in Replies \cup {Nothing}
      BY <2>0, <2>6 DEF Fail, Refilled, IsRequest, CacheTyped
    <3>4. tangled' \in BOOLEAN
      BY <2>0, <2>6 DEF Fail, CacheTyped, IsRequest
    <3> QED
      BY <2>6, <3>1, <3>2, <3>3, <3>4 DEF Fail, CacheTyped, SyncType, daemon
  <2>7. CASE RestoreMarks(i)
    <3>1. AreRequests(requests') /\ viewed' \in Entries
      BY <2>7, RestoreMarksSettles
    <3>2. smudged' \in BOOLEAN
      BY <2>0, <2>7 DEF RestoreMarks, CacheTyped, IsRequest
    <3> QED
      BY <2>7, <3>1, <3>2 DEF RestoreMarks, CacheTyped, SyncType, daemon
  <2> QED
    BY <1>11, <2>1, <2>2, <2>3, <2>4, <2>5, <2>6, <2>7 DEF Wire, Settle
<1>12. CASE UNCHANGED cacheVars
  BY <1>12 DEF cacheVars, daemon, CacheTyped, SyncType
<1> QED
  BY <1>1, <1>2, <1>3, <1>4, <1>5, <1>6, <1>7, <1>8, <1>9, <1>10, <1>11, <1>12
     DEF CacheNext, Begin, Syncing

-----------------------------------------------------------------------------
(* The typed texts. *)

TextParts == TextInOnePlace /\ OneReplyOut /\ TypedTextIsKept
RepliesStay ==
  /\ \A n \in DOMAIN requests :
       IsReply(n) => n \in DOMAIN requests' /\ Same(requests[n], requests'[n])
  /\ \A n \in DOMAIN requests' :
       requests'[n].kind = "reply" => n \in DOMAIN requests /\ IsReply(n)

LEMMA TextStays ==
  ASSUME TextParts, RepliesStay, github'.posted = github.posted, box' = box, written' = written
  PROVE  TextParts'
<1>1. \A n \in DOMAIN requests' : IsReply(n)' =>
        /\ n \in DOMAIN requests /\ IsReply(n) /\ requests'[n].on = requests[n].on
        /\ HasLanded(requests'[n]) <=> HasLanded(requests[n])
  BY DEF RepliesStay, Same, IsReply, HasLanded
<1>2. TextInOnePlace'
  BY <1>1 DEF TextParts, TextInOnePlace
<1>3. OneReplyOut'
  BY <1>1 DEF TextParts, OneReplyOut
<1>4. ASSUME NEW r \in written', box' # r, ~(github'.posted[r] > 0)
      PROVE  \E n \in DOMAIN requests' : requests'[n].kind = "reply" /\ requests'[n].on = r
  <2>1. PICK n \in DOMAIN requests : requests[n].kind = "reply" /\ requests[n].on = r
    BY <1>4 DEF TextParts, TypedTextIsKept
  <2>2. n \in DOMAIN requests' /\ requests'[n].kind = "reply" /\ requests'[n].on = r
    BY <2>1 DEF RepliesStay, IsReply, Same
  <2> QED
    BY <2>2
<1>5. TypedTextIsKept'
  BY <1>4 DEF TypedTextIsKept
<1> QED
  BY <1>2, <1>3, <1>5 DEF TextParts

LEMMA TextInitially ==
  ASSUME CacheInit
  PROVE  TextParts
<1>1. \A n \in DOMAIN requests : ~IsReply(n)
  <2>1. CASE requests = EmptyTable
    BY <2>1 DEF EmptyTable
  <2>2. CASE requests = Upsert(EmptyTable, 1, Request("fetch", Nothing, Nothing))
    BY <2>2 DEF EmptyTable, Upsert, Request, IsReply
  <2> QED
    BY <2>1, <2>2 DEF CacheInit
<1> QED
  BY <1>1 DEF CacheInit, TextParts, TextInOnePlace, OneReplyOut, TypedTextIsKept

LEMMA ReplyKeepsText ==
  ASSUME CacheTyped, TextParts, Reply
  PROVE  TextParts'
<1>1. /\ box \in Replies /\ Mutate("reply", box) /\ IsOf("reply", box)
      /\ box' = Nothing /\ written' = written
  BY ReplyMutates
<1>2. "reply" \in {"reply", "resolve", "react"}
  OBVIOUS
<1>0. PICK k \in Nat : Goes("reply", box, k)
  BY <1>1, <1>2, MutateSends
<1>3. /\ DOMAIN requests' = DOMAIN requests \cup {k}
      /\ \A n \in DOMAIN requests : n < k /\ Same(requests[n], requests'[n])
      /\ requests'[k].kind = "reply" /\ requests'[k].on = box
      /\ requests'[k].outcome = "out"
  BY <1>0 DEF Goes
<1>4. box # Nothing /\ github' = github
  BY <1>1 DEF Reply, Mutate, daemon
<1>5. \A n \in DOMAIN requests : requests'[n].kind # "reply"
  BY <1>3, <1>4 DEF TextParts, OneReplyOut, IsReply, Same
<1>6. \A n \in DOMAIN requests' : IsReply(n)' => n = k
  BY <1>3, <1>5 DEF IsReply
<1>7. TextInOnePlace'
  BY <1>1, <1>3, <1>4, <1>6 DEF TextParts, TextInOnePlace, HasLanded
<1>8. OneReplyOut'
  BY <1>1, <1>6 DEF OneReplyOut
<1>9. ASSUME NEW r \in written', ~(github'.posted[r] > 0)
      PROVE  \E n \in DOMAIN requests' : requests'[n].kind = "reply" /\ requests'[n].on = r
  <2>1. \A n \in DOMAIN requests : requests[n].kind # "reply"
    BY <1>3, <1>5 DEF Same
  <2>2. box = r
    BY <1>1, <1>4, <1>9, <2>1 DEF TextParts, TypedTextIsKept
  <2> QED
    BY <1>3, <2>2
<1>10. TypedTextIsKept'
  BY <1>9 DEF TypedTextIsKept
<1> QED
  BY <1>7, <1>8, <1>10 DEF TextParts

LEMMA TypingKeepsText ==
  ASSUME ~Retypes, ClientAssumption, CacheTyped, TextParts, NEW r \in Replies, TypeReply(r)
  PROVE  TextParts'
<1>1. \A n \in DOMAIN requests' : ~IsReply(n)'
  BY DEF TypeReply, Replying, IsReply
<1>2. TextInOnePlace' /\ OneReplyOut'
  BY <1>1 DEF TextInOnePlace, OneReplyOut, TypeReply
<1>3. ASSUME NEW s \in written', box' # s
      PROVE  github'.posted[s] > 0
  <2>1. s \in written /\ box # s /\ \A n \in DOMAIN requests : requests[n].kind # "reply"
    BY <1>3 DEF TypeReply, Replying, ClientAssumption, CacheTyped
  <2> QED
    BY <2>1 DEF TextParts, TypedTextIsKept, TypeReply, daemon
<1> QED
  BY <1>2, <1>3 DEF TextParts, TypedTextIsKept

(* An answer of GitHub's to a reply. *)
LEMMA AnswerKeepsText ==
  ASSUME CacheTyped, TextParts, NEW i \in DOMAIN requests, NEW outcome, Answers(i, outcome),
         outcome \in {"done", "lost"} => github'.posted[requests[i].on] > 0,
         \A r \in Replies : github.posted[r] > 0 => github'.posted[r] > 0,
         box' = box, written' = written
  PROVE  TextParts'
<1>1. ASSUME NEW n \in DOMAIN requests'
      PROVE  /\ n \in DOMAIN requests /\ requests'[n].kind = requests[n].kind
             /\ requests'[n].on = requests[n].on
             /\ n # i => HasLanded(requests'[n]) = HasLanded(requests[n])
             /\ n = i => (HasLanded(requests'[n]) <=> outcome \in {"done", "lost"})
  BY DEF Answers, HasLanded
<1>2. ASSUME NEW n \in DOMAIN requests', IsReply(n)', HasLanded(requests'[n])
      PROVE  github'.posted[requests'[n].on] > 0
  <2>1. n \in DOMAIN requests /\ IsReply(n) /\ requests'[n].on = requests[n].on
    BY <1>1, <1>2 DEF IsReply
  <2>2. CASE n = i
    BY <1>1, <1>2, <2>1, <2>2
  <2>3. CASE n # i
    <3>1. HasLanded(requests[n])
      BY <1>1, <1>2, <2>3
    <3>2. github.posted[requests[n].on] > 0 /\ requests[n].on \in Replies
      BY <2>1, <3>1 DEF TextParts, TextInOnePlace, CacheTyped
    <3> QED
      BY <2>1, <3>2
  <2> QED
    BY <2>2, <2>3
<1>3. \A n \in DOMAIN requests' : IsReply(n)' => n \in DOMAIN requests /\ IsReply(n)
  BY <1>1 DEF IsReply
<1>4. TextInOnePlace'
  BY <1>1, <1>2, <1>3 DEF TextParts, TextInOnePlace
<1>5. OneReplyOut'
  BY <1>3 DEF TextParts, OneReplyOut
<1>6. ASSUME NEW r \in written', box' # r, ~(github'.posted[r] > 0)
      PROVE  \E n \in DOMAIN requests' : requests'[n].kind = "reply" /\ requests'[n].on = r
  <2>1. ~(github.posted[r] > 0)
    BY <1>6 DEF CacheTyped
  <2>2. PICK n \in DOMAIN requests : requests[n].kind = "reply" /\ requests[n].on = r
    BY <1>6, <2>1 DEF TextParts, TypedTextIsKept
  <2>3. n \in DOMAIN requests'
    BY DEF Answers
  <2> QED
    BY <1>1, <2>2, <2>3
<1>7. TypedTextIsKept'
  BY <1>6 DEF TypedTextIsKept
<1> QED
  BY <1>4, <1>5, <1>7 DEF TextParts

(* Its end: it is posted, or the composer has it back. *)
LEMMA EndKeepsText ==
  ASSUME ClientAssumption, CacheTyped, TextParts, NEW i \in DOMAIN requests, IsReply(i),
         Settles(i), github' = github, written' = written,
         \/ HasLanded(requests[i]) /\ box' = box
         \/ box' = requests[i].on
  PROVE  TextParts'
<1>1. box = Nothing /\ \A n \in DOMAIN requests : IsReply(n) => n = i
  BY DEF TextParts, OneReplyOut
<1>2. \A n \in DOMAIN requests' : ~IsReply(n)'
  BY <1>1 DEF Settles, IsReply
<1>3. requests[i].on \in written
  BY DEF TextParts, TextInOnePlace
<1>4. TextInOnePlace' /\ OneReplyOut'
  BY <1>1, <1>2, <1>3 DEF TextInOnePlace, OneReplyOut
<1>5. ASSUME NEW r \in written', box' # r
      PROVE  github'.posted[r] > 0
  <2>1. box # r
    BY <1>1, <1>5 DEF ClientAssumption, CacheTyped
  <2>2. CASE r = requests[i].on
    BY <1>5, <2>2 DEF TextParts, TextInOnePlace
  <2>3. CASE r # requests[i].on
    <3>1. \A n \in DOMAIN requests : ~(requests[n].kind = "reply" /\ requests[n].on = r)
      BY <1>1, <2>3 DEF IsReply
    <3> QED
      BY <1>5, <2>1, <3>1 DEF TextParts, TypedTextIsKept
  <2> QED
    BY <2>2, <2>3
<1> QED
  BY <1>4, <1>5 DEF TextParts, TypedTextIsKept

(* What is not about a reply leaves the replies alone. *)
LEMMA RepliesStayIf ==
  ASSUME CacheTyped,
         \/ requests' = requests
         \/ \E k \in Nat, kind \in {"resolve", "react"} : \E on : Goes(kind, on, k)
         \/ \E k \in Nat : ToggleGoes(k)
         \/ Rereads /\ CrossesThread
         \/ ThreadStays
         \/ \E i \in DOMAIN requests : \E outcome : ~IsReply(i) /\ Answers(i, outcome)
         \/ \E i \in DOMAIN requests : ~IsReply(i) /\ Settles(i)
  PROVE  RepliesStay
<1>1. CASE requests' = requests
  BY <1>1 DEF RepliesStay, Same, IsReply
<1>2. ASSUME NEW k \in Nat, NEW kind \in {"resolve", "react"}, NEW on, Goes(kind, on, k)
      PROVE  RepliesStay
  BY <1>2 DEF Goes, RepliesStay, Same, IsReply
<1>3. ASSUME NEW k \in Nat, ToggleGoes(k)
      PROVE  RepliesStay
  <2>1. k \notin DOMAIN requests \/ requests[k].kind # "reply"
    BY <1>3 DEF ToggleGoes
  <2>2. ASSUME NEW n \in DOMAIN requests, IsReply(n)
        PROVE  n \in DOMAIN requests' /\ Same(requests[n], requests'[n])
    BY <1>3, <2>1, <2>2 DEF ToggleGoes, IsReply
  <2>3. ASSUME NEW n \in DOMAIN requests', requests'[n].kind = "reply"
        PROVE  n \in DOMAIN requests /\ IsReply(n)
    BY <1>3, <2>3 DEF ToggleGoes, IsReply, Same
  <2> QED
    BY <2>2, <2>3 DEF RepliesStay
<1>4. CASE Rereads /\ CrossesThread
  <2>1. ASSUME NEW n \in DOMAIN requests, IsReply(n)
        PROVE  n \in DOMAIN requests' /\ Same(requests[n], requests'[n])
    BY <1>4, <2>1 DEF Rereads, CrossesThread, IsReply
  <2>2. ASSUME NEW n \in DOMAIN requests', requests'[n].kind = "reply"
        PROVE  n \in DOMAIN requests /\ IsReply(n)
    <3>1. n \in DOMAIN requests
      BY <1>4, <2>2 DEF Rereads
    <3> QED
      BY <1>4, <2>2, <3>1 DEF CrossesThread, IsReply, Same
  <2> QED
    BY <2>1, <2>2 DEF RepliesStay
<1>5. CASE ThreadStays
  BY <1>5 DEF ThreadStays, RepliesStay, IsReply, OfThread, OnThread, Same
<1>6. ASSUME NEW i \in DOMAIN requests, NEW outcome, ~IsReply(i), Answers(i, outcome)
      PROVE  RepliesStay
  <2>1. requests'[i].kind # "reply"
    BY <1>6 DEF Answers, IsReply
  <2> QED
    BY <1>6, <2>1 DEF Answers, RepliesStay, IsReply, Same
<1>7. ASSUME NEW i \in DOMAIN requests, ~IsReply(i), Settles(i)
      PROVE  RepliesStay
  BY <1>7 DEF Settles, RepliesStay, IsReply, Same
<1> QED
  BY <1>1, <1>2, <1>3, <1>4, <1>5, <1>6, <1>7

LEMMA TextStep ==
  ASSUME ~Retypes, ClientAssumption, CacheTyped, TextParts, [CacheNext]_cacheVars
  PROVE  TextParts'
<1>1. CASE Reply
  BY <1>1, ReplyKeepsText
<1>2. CASE Resolve
  <2>1. /\ Mutate("resolve", ~shown.resolved) /\ IsOf("resolve", ~shown.resolved)
        /\ box' = box /\ written' = written
    BY <1>2, ResolveMutates
  <2>2. "resolve" \in {"reply", "resolve", "react"} /\ "resolve" \in {"resolve", "react"}
    OBVIOUS
  <2>3. \E k \in Nat : Goes("resolve", ~shown.resolved, k)
    BY <2>1, <2>2, MutateSends
  <2>4. RepliesStay
    BY <2>2, <2>3, RepliesStayIf
  <2> QED
    BY <2>1, <2>4, TextStays DEF Mutate, daemon
<1>3. CASE React
  <2>1. /\ Mutate("react", Nothing) /\ IsOf("react", Nothing)
        /\ box' = box /\ written' = written
    BY <1>3, ReactMutates
  <2>2. "react" \in {"reply", "resolve", "react"} /\ "react" \in {"resolve", "react"}
    OBVIOUS
  <2>3. \E k \in Nat : Goes("react", Nothing, k)
    BY <2>1, <2>2, MutateSends
  <2>4. RepliesStay
    BY <2>2, <2>3, RepliesStayIf
  <2> QED
    BY <2>1, <2>4, TextStays DEF Mutate, daemon
<1>4. ASSUME NEW r \in Replies, TypeReply(r) PROVE TextParts'
  BY <1>4, TypingKeepsText
<1>5. ASSUME NEW p \in Paths, Toggle(p) PROVE TextParts'
  <2>1. RepliesStay
    BY <1>5, ToggleSends, RepliesStayIf
  <2> QED
    BY <1>5, <2>1, TextStays DEF Toggle, daemon
<1>6. CASE StartSync \/ ReadGithub \/ FailSync
  <2>1. requests' = requests /\ github' = github /\ box' = box /\ written' = written
    BY <1>6 DEF StartSync, ReadGithub, FailSync, daemon
  <2>2. RepliesStay
    BY <2>1, RepliesStayIf
  <2> QED
    BY <2>1, <2>2, TextStays
<1>7. CASE LandSync
  <2>1. RepliesStay
    BY <1>7, LandSyncRereads, RepliesStayIf
  <2> QED
    BY <1>7, <2>1, TextStays DEF LandSync, daemon
<1>8. CASE Reload
  <2>1. Rereads /\ CrossesThread
    BY <1>8, ReloadRereads DEF Rereads
  <2>2. RepliesStay
    BY <2>1, RepliesStayIf
  <2> QED
    BY <1>8, <2>2, TextStays DEF Reload, daemon
<1>9. ASSUME NEW i \in DOMAIN requests, Serve(i)
      PROVE  TextParts'
  <2>1. Answers(i, "done") /\ box' = box /\ written' = written
    BY <1>9, ServeAnswers DEF Serve
  <2>2. IsRequest(requests[i]) /\ github \in Threads /\ github' = Landed(requests[i])
    BY <1>9 DEF CacheTyped, AreRequests, Serve
  <2>3. CASE IsReply(i)
    <3>1. github'.posted = [github.posted EXCEPT ![requests[i].on] = @ + 1]
      BY <2>2, <2>3, LandedIs DEF IsReply
    <3>2. requests[i].on \in Replies /\ github.posted \in [Replies -> Nat]
      BY <2>2, <2>3 DEF IsRequest, IsReply, Threads
    <3>3. github'.posted[requests[i].on] > 0
      BY <3>1, <3>2
    <3>4. \A r \in Replies : github.posted[r] > 0 => github'.posted[r] > 0
      BY <3>1, <3>2
    <3> QED
      BY <2>1, <3>3, <3>4, AnswerKeepsText
  <2>4. CASE ~IsReply(i)
    <3>1. github'.posted = github.posted
      BY <2>2, <2>4, LandedIs DEF IsReply, IsRequest, OnThread
    <3>2. RepliesStay
      BY <2>1, <2>4, RepliesStayIf
    <3> QED
      BY <2>1, <3>1, <3>2, TextStays
  <2> QED
    BY <2>3, <2>4
<1>10. ASSUME NEW i \in DOMAIN requests, Refuse(i)
       PROVE  TextParts'
  <2>1. Answers(i, "refused") /\ box' = box /\ written' = written /\ github' = github
    BY <1>10, RefuseAnswers DEF Refuse, daemon
  <2>2. CASE IsReply(i)
    <3>1. "refused" \in {"done", "lost"} => github'.posted[requests[i].on] > 0
      OBVIOUS
    <3>2. \A r \in Replies : github.posted[r] > 0 => github'.posted[r] > 0
      BY <2>1
    <3> QED
      BY <2>1, <3>1, <3>2, AnswerKeepsText
  <2>3. CASE ~IsReply(i)
    <3>1. RepliesStay
      BY <2>1, <2>3, RepliesStayIf
    <3> QED
      BY <2>1, <3>1, TextStays
  <2> QED
    BY <2>2, <2>3
<1>11. ASSUME NEW i \in DOMAIN requests, Lose(i)
       PROVE  TextParts'
  <2>1. Answers(i, "lost") /\ box' = box /\ written' = written /\ github' = github
    BY <1>11, LoseAnswers DEF Lose, daemon
  <2>2. CASE IsReply(i)
    <3>1. github'.posted[requests[i].on] > 0
      BY <1>11, <2>1, <2>2 DEF Lose, HasLanded, TextParts, TextInOnePlace
    <3>2. \A r \in Replies : github.posted[r] > 0 => github'.posted[r] > 0
      BY <2>1
    <3> QED
      BY <2>1, <3>1, <3>2, AnswerKeepsText
  <2>3. CASE ~IsReply(i)
    <3>1. RepliesStay
      BY <2>1, <2>3, RepliesStayIf
    <3> QED
      BY <2>1, <3>1, TextStays
  <2> QED
    BY <2>2, <2>3
<1>12. ASSUME NEW i \in DOMAIN requests, Succeed(i)
       PROVE  TextParts'
  <2>1. Settles(i) /\ box' = box /\ written' = written /\ github' = github
    BY <1>12, WithoutSettles DEF Succeed, daemon
  <2>2. HasLanded(requests[i])
    BY <1>12 DEF Succeed, Arrives, Failed, HasLanded, CacheTyped, AreRequests, IsRequest
  <2>3. CASE IsReply(i)
    BY <2>1, <2>2, <2>3, EndKeepsText
  <2>4. CASE ~IsReply(i)
    <3>1. RepliesStay
      BY <2>1, <2>4, RepliesStayIf
    <3> QED
      BY <2>1, <3>1, TextStays
  <2> QED
    BY <2>3, <2>4
<1>13. ASSUME NEW i \in DOMAIN requests, TakeMarks(i)
       PROVE  TextParts'
  <2>1. Settles(i) /\ box' = box /\ written' = written /\ github' = github
    BY <1>13, WithoutSettles DEF TakeMarks, daemon
  <2>2. ~IsReply(i)
    BY <1>13 DEF TakeMarks, IsReply, OnThread
  <2>3. RepliesStay
    BY <2>1, <2>2, RepliesStayIf
  <2> QED
    BY <2>1, <2>3, TextStays
<1>14. ASSUME NEW i \in DOMAIN requests, Fail(i)
       PROVE  TextParts'
  <2>1. /\ Settles(i) /\ box' = Refilled(i) /\ written' = written /\ github' = github
    BY <1>14, WithoutSettles DEF Fail, daemon
  <2>2. CASE IsReply(i)
    <3>1. LatestReply(i)
      BY <2>2 DEF LatestReply, TextParts, OneReplyOut, IsReply, CacheTyped, AreRequests
    <3>2. box' = requests[i].on
      BY <2>1, <2>2, <3>1 DEF Refilled, IsReply
    <3> QED
      BY <2>1, <2>2, <3>2, EndKeepsText
  <2>3. CASE ~IsReply(i)
    <3>1. RepliesStay
      BY <2>1, <2>3, RepliesStayIf
    <3>2. box' = box
      BY <2>1, <2>3 DEF Refilled, IsReply
    <3> QED
      BY <2>1, <3>1, <3>2, TextStays
  <2> QED
    BY <2>2, <2>3
<1>15. ASSUME NEW i \in DOMAIN requests, RestoreMarks(i)
       PROVE  TextParts'
  <2>1. ThreadStays
    BY <1>15, RestoreMarksSettles
  <2>2. RepliesStay
    BY <2>1, RepliesStayIf
  <2> QED
    BY <1>15, <2>2, TextStays DEF RestoreMarks, daemon
<1>16. CASE UNCHANGED cacheVars
  <2>1. requests' = requests /\ github' = github /\ box' = box /\ written' = written
    BY <1>16 DEF cacheVars, daemon
  <2>2. RepliesStay
    BY <2>1, RepliesStayIf
  <2> QED
    BY <2>1, <2>2, TextStays
<1> QED
  BY <1>1, <1>2, <1>3, <1>4, <1>5, <1>6, <1>7, <1>8, <1>9, <1>10, <1>11, <1>12, <1>13,
     <1>14, <1>15, <1>16 DEF CacheNext, Begin, Syncing, Wire, Settle

\* A text typed into a reply is in the composer, on its way, or posted, when the
\* composer is not reopened while a reply is out.
THEOREM TypedTextStays ==
  ASSUME ~Retypes
  PROVE  CacheSpec => []TypedTextIsKept
<1>1. CacheInit => TextInv
  BY CacheInitTyped, TextInitially DEF TextInv, TextParts
<1>2. TextInv /\ [CacheNext]_cacheVars => TextInv'
  BY ClientAssumption, CacheStepTyped, TextStep DEF TextInv, TextParts
<1>3. TextInv => TypedTextIsKept
  BY DEF TextInv
<1> QED
  BY <1>1, <1>2, <1>3, PTL DEF CacheSpec

-----------------------------------------------------------------------------
(* The viewed marks. *)

MarksParts ==
  /\ viewed \in Marks
  /\ ReadIsLast /\ MarksInOrder /\ LastAnswerIsMarks /\ LoneToggle /\ UntoggledShowsMarks
MarksStay ==
  /\ \A n \in DOMAIN requests : OfMarks(n) =>
       /\ n \in DOMAIN requests' /\ Same(requests[n], requests'[n])
       /\ requests'[n].crossed = FALSE <=> requests[n].crossed = FALSE
  /\ \A n \in DOMAIN requests' :
       ~OnThread(requests'[n]) => n \in DOMAIN requests /\ OfMarks(n)

\* Both kinds are about the marks.
LEMMA ToggleIsOfMarks ==
  /\ \A n : IsToggle(n) => OfMarks(n)
  /\ \A n : requests[n].kind = "fetch" => OfMarks(n)
  /\ \A n : IsReply(n) \/ IsResolve(n) \/ IsReact(n) <=> ~OfMarks(n)
BY DEF IsToggle, OfMarks, OnThread, IsReply, IsResolve, IsReact

LEMMA MarksStayed ==
  ASSUME MarksParts, MarksStay, marks' = marks, viewed' = viewed, smudged' = smudged
  PROVE  MarksParts'
<1>1. ASSUME NEW n \in DOMAIN requests', OfMarks(n)'
      PROVE  /\ n \in DOMAIN requests /\ OfMarks(n) /\ Same(requests[n], requests'[n])
             /\ requests'[n].crossed = FALSE <=> requests[n].crossed = FALSE
  BY <1>1 DEF MarksStay, OfMarks
<1>2. ASSUME NEW n \in DOMAIN requests, OfMarks(n)
      PROVE  n \in DOMAIN requests' /\ Same(requests[n], requests'[n]) /\ OfMarks(n)'
  BY <1>2 DEF MarksStay, OfMarks, Same, OnThread
<1>3. ReadIsLast'
  BY <1>1 DEF MarksParts, ReadIsLast, OfMarks, OnThread, Same
<1>4. MarksInOrder'
  BY <1>1 DEF MarksParts, MarksInOrder, Same
<1>5. ASSUME NEW n \in DOMAIN requests', OfMarks(n)', requests'[n].outcome = "done"
      PROVE  \/ requests'[n].answer = marks
             \/ \E m \in DOMAIN requests' :
                  m > n /\ requests'[m].kind = "toggle" /\ requests'[m].outcome = "done"
  <2>1. /\ n \in DOMAIN requests /\ OfMarks(n) /\ requests[n].outcome = "done"
        /\ requests'[n].answer = requests[n].answer
    BY <1>1, <1>5 DEF Same
  <2>2. ASSUME NEW m \in DOMAIN requests, m > n, IsToggle(m), requests[m].outcome = "done"
        PROVE  m \in DOMAIN requests' /\ requests'[m].kind = "toggle" /\ requests'[m].outcome = "done"
    BY <1>2, <2>2 DEF OfMarks, OnThread, IsToggle, Same
  <2> QED
    BY <2>1, <2>2 DEF MarksParts, LastAnswerIsMarks
<1>6. LastAnswerIsMarks'
  BY <1>5 DEF LastAnswerIsMarks, IsToggle
<1>7. \A n \in DOMAIN requests' : IsToggle(n)' =>
        /\ n \in DOMAIN requests /\ IsToggle(n) /\ Same(requests[n], requests'[n])
        /\ requests'[n].crossed = FALSE <=> requests[n].crossed = FALSE
  BY <1>1 DEF OfMarks, OnThread, IsToggle, Same
<1>8. LoneToggle'
  BY <1>7 DEF MarksParts, LoneToggle, Same, HasLanded
<1>9. NoToggle' => NoToggle
  BY <1>2 DEF NoToggle, IsToggle, OfMarks, OnThread, Same
<1> QED
  BY <1>3, <1>4, <1>6, <1>8, <1>9 DEF MarksParts, UntoggledShowsMarks

(* What is not about the marks leaves their requests alone. *)
LEMMA MarksStayIf ==
  ASSUME CacheTyped,
         \/ requests' = requests
         \/ \E k \in Nat, kind \in {"reply", "resolve", "react"} : \E on : Goes(kind, on, k)
         \/ DOMAIN requests' = DOMAIN requests /\ CrossesThread
         \/ \E i \in DOMAIN requests : \E outcome : ~OfMarks(i) /\ Answers(i, outcome)
         \/ \E i \in DOMAIN requests : ~OfMarks(i) /\ Settles(i)
  PROVE  MarksStay
<1>1. CASE requests' = requests
  BY <1>1 DEF MarksStay, Same, OfMarks
<1>2. ASSUME NEW k \in Nat, NEW kind \in {"reply", "resolve", "react"}, NEW on, Goes(kind, on, k)
      PROVE  MarksStay
  <2>1. OnThread(requests'[k])
    BY <1>2 DEF Goes, OnThread
  <2>2. \A n \in DOMAIN requests : OnThread(requests'[n]) <=> OfThread(n)
    BY <1>2 DEF Goes, OnThread, OfThread, Same
  <2> QED
    BY <1>2, <2>1, <2>2 DEF Goes, MarksStay, OfMarks, OfThread
<1>3. CASE DOMAIN requests' = DOMAIN requests /\ CrossesThread
  <2>1. \A n \in DOMAIN requests : OnThread(requests'[n]) <=> OfThread(n)
    BY <1>3 DEF CrossesThread, OnThread, OfThread, Same
  <2> QED
    BY <1>3, <2>1 DEF CrossesThread, MarksStay, OfMarks, OfThread
<1>4. ASSUME NEW i \in DOMAIN requests, NEW outcome, ~OfMarks(i), Answers(i, outcome)
      PROVE  MarksStay
  <2>1. OnThread(requests'[i])
    BY <1>4 DEF Answers, OfMarks, OnThread
  <2> QED
    BY <1>4, <2>1 DEF Answers, MarksStay, OfMarks, Same
<1>5. ASSUME NEW i \in DOMAIN requests, ~OfMarks(i), Settles(i)
      PROVE  MarksStay
  BY <1>5 DEF Settles, MarksStay, OfMarks, Same
<1> QED
  BY <1>1, <1>2, <1>3, <1>4, <1>5

LEMMA ToggleKeepsMarks ==
  ASSUME ~EarlyToggles, CacheTyped, MarksParts, NEW p \in Paths, Toggle(p)
  PROVE  MarksParts'
<1>0. PICK k \in Nat : ToggleGoes(k)
  BY ToggleSends
<1>1. viewed' \in Marks /\ viewed # Nothing /\ marks' = marks /\ smudged' = smudged
  BY ToggleSends DEF Toggle, daemon
<1>2. /\ requests'[k].kind = "toggle" /\ requests'[k].previous = viewed
      /\ requests'[k].outcome = "out" /\ k \in DOMAIN requests'
      /\ requests'[k].crossed = FALSE <=> NoToggle
  BY <1>0 DEF ToggleGoes
<1>3. ASSUME NEW n \in DOMAIN requests', n # k
      PROVE  /\ n \in DOMAIN requests /\ requests[n].kind # "fetch" /\ n < k
             /\ Same(requests[n], requests'[n])
             /\ requests'[n].crossed = FALSE <=> requests[n].crossed = FALSE /\ OfThread(n)
  BY <1>0, <1>3 DEF ToggleGoes
<1>4. ReadIsLast'
  BY <1>2, <1>3 DEF ReadIsLast, Same
<1>5. ASSUME NEW n \in DOMAIN requests', OfMarks(n)', n # k
      PROVE  OfMarks(n) /\ requests[n].kind = "toggle"
  <2>1. IsRequest(requests[n])
    BY <1>3, <1>5 DEF CacheTyped, AreRequests
  <2> QED
    BY <1>3, <1>5, <2>1 DEF OfMarks, OnThread, Same, IsRequest
<1>6. ASSUME NEW m \in DOMAIN requests', NEW n \in DOMAIN requests', m < n,
             OfMarks(m)', OfMarks(n)', requests'[n].outcome # "out"
      PROVE  requests'[m].outcome # "out"
  <2>1. n # k
    BY <1>2, <1>6
  <2>2. m # k
    <3>1. n \in Nat /\ n < k
      BY <1>3, <2>1 DEF CacheTyped, AreRequests
    <3> QED
      BY <1>6, <3>1
  <2> QED
    BY <1>3, <1>5, <1>6, <2>1, <2>2 DEF MarksParts, MarksInOrder, Same
<1>7. MarksInOrder'
  BY <1>6 DEF MarksInOrder
<1>8. ASSUME NEW n \in DOMAIN requests', OfMarks(n)', requests'[n].outcome = "done"
      PROVE  \/ requests'[n].answer = marks
             \/ \E m \in DOMAIN requests' :
                  m > n /\ requests'[m].kind = "toggle" /\ requests'[m].outcome = "done"
  <2>1. n # k
    BY <1>2, <1>8
  <2>2. /\ n \in DOMAIN requests /\ OfMarks(n) /\ requests[n].outcome = "done"
        /\ requests'[n].answer = requests[n].answer
    BY <1>3, <1>5, <1>8, <2>1 DEF Same
  <2>3. ASSUME NEW m \in DOMAIN requests, m > n, IsToggle(m), requests[m].outcome = "done"
        PROVE  m \in DOMAIN requests' /\ requests'[m].kind = "toggle" /\ requests'[m].outcome = "done"
    BY <1>0, <2>3 DEF ToggleGoes, IsToggle, Same
  <2> QED
    BY <2>2, <2>3 DEF MarksParts, LastAnswerIsMarks
<1>9. LastAnswerIsMarks'
  BY <1>1, <1>8 DEF LastAnswerIsMarks, IsToggle
<1>10. ASSUME NEW n \in DOMAIN requests', requests'[n].kind = "toggle", n # k
       PROVE  /\ requests'[n].crossed # FALSE
              /\ requests'[n].previous \in Marks /\ requests'[n].previous # Nothing
  <2>1. n \in DOMAIN requests /\ IsToggle(n) /\ ~OfThread(n)
    BY <1>3, <1>10 DEF IsToggle, Same, OfThread, OnThread
  <2> QED
    BY <1>3, <1>10, <2>1 DEF MarksParts, LoneToggle, Same
<1>11. requests'[k].crossed = FALSE =>
         /\ \A m \in DOMAIN requests' : requests'[m].kind = "toggle" => m = k
         /\ smudged = FALSE => viewed = marks
  BY <1>2, <1>3 DEF NoToggle, IsToggle, Same, MarksParts, UntoggledShowsMarks
<1>12. LoneToggle'
  BY <1>1, <1>2, <1>10, <1>11 DEF MarksParts, LoneToggle, IsToggle
<1>13. UntoggledShowsMarks'
  BY <1>2 DEF UntoggledShowsMarks, NoToggle, IsToggle
<1> QED
  BY <1>1, <1>4, <1>7, <1>9, <1>12, <1>13 DEF MarksParts

LEMMA LandSyncKeepsMarks ==
  ASSUME CacheTyped, MarksParts, LandSync
  PROVE  MarksParts'
<1>0. Rereads /\ CrossesThread /\ viewed' = viewed /\ marks' = marks /\ smudged' = smudged
  BY LandSyncRereads DEF LandSync, daemon
<1>1. CASE DOMAIN requests' = DOMAIN requests
  <2>1. MarksStay
    BY <1>0, <1>1, MarksStayIf
  <2> QED
    BY <1>0, <2>1, MarksStayed
<1>2. CASE \E k \in Nat :
             /\ DOMAIN requests' = {n \in DOMAIN requests : requests[n].kind # "fetch"} \cup {k}
             /\ \A n \in DOMAIN requests : n < k
             /\ requests'[k].kind = "fetch" /\ requests'[k].outcome = "out"
  <2>1. PICK k \in Nat :
             /\ DOMAIN requests' = {n \in DOMAIN requests : requests[n].kind # "fetch"} \cup {k}
             /\ \A n \in DOMAIN requests : n < k
             /\ requests'[k].kind = "fetch" /\ requests'[k].outcome = "out"
    BY <1>2
  <2>2. ASSUME NEW n \in DOMAIN requests', n # k
        PROVE  /\ n \in DOMAIN requests /\ requests[n].kind # "fetch" /\ n < k
               /\ Same(requests[n], requests'[n])
    BY <1>0, <2>1, <2>2 DEF CrossesThread
  <2>3. ASSUME NEW n \in DOMAIN requests, IsToggle(n)
        PROVE  /\ n \in DOMAIN requests' /\ n # k /\ Same(requests[n], requests'[n])
               /\ requests'[n].crossed = FALSE <=> requests[n].crossed = FALSE
    <3>1. n \in DOMAIN requests' /\ n \in Nat /\ n < k
      BY <2>1, <2>3 DEF IsToggle, CacheTyped, AreRequests
    <3>2. ~OfThread(n)
      BY <2>3 DEF IsToggle, OfThread, OnThread
    <3> QED
      BY <1>0, <3>1, <3>2 DEF CrossesThread
  <2>4. ASSUME NEW n \in DOMAIN requests', OfMarks(n)', n # k
        PROVE  n \in DOMAIN requests /\ OfMarks(n) /\ IsToggle(n)
    <3>1. IsRequest(requests[n])
      BY <2>2, <2>4 DEF CacheTyped, AreRequests
    <3> QED
      BY <2>2, <2>4, <3>1 DEF OfMarks, OnThread, Same, IsRequest, IsToggle
  <2>5. DOMAIN requests \subseteq Nat
    BY DEF CacheTyped, AreRequests
  <2>6. ReadIsLast'
    BY <2>1, <2>2, <2>5 DEF ReadIsLast, Same
  <2>7. ASSUME NEW m \in DOMAIN requests', NEW n \in DOMAIN requests', m < n,
               OfMarks(m)', OfMarks(n)', requests'[n].outcome # "out"
        PROVE  requests'[m].outcome # "out"
    <3>1. n # k
      BY <2>1, <2>7
    <3>2. m # k
      <4>1. n \in Nat /\ n < k
        BY <2>2, <2>5, <3>1
      <4> QED
        BY <2>7, <4>1
    <3> QED
      BY <2>2, <2>4, <2>7, <3>1, <3>2 DEF MarksParts, MarksInOrder, Same
  <2>8. MarksInOrder'
    BY <2>7 DEF MarksInOrder
  <2>9. ASSUME NEW n \in DOMAIN requests', OfMarks(n)', requests'[n].outcome = "done"
        PROVE  \/ requests'[n].answer = marks
               \/ \E m \in DOMAIN requests' :
                    m > n /\ requests'[m].kind = "toggle" /\ requests'[m].outcome = "done"
    <3>1. n # k
      BY <2>1, <2>9
    <3>2. /\ n \in DOMAIN requests /\ OfMarks(n) /\ requests[n].outcome = "done"
          /\ requests'[n].answer = requests[n].answer
      BY <2>2, <2>4, <2>9, <3>1 DEF Same
    <3>3. ASSUME NEW m \in DOMAIN requests, m > n, IsToggle(m), requests[m].outcome = "done"
          PROVE  m \in DOMAIN requests' /\ requests'[m].kind = "toggle" /\ requests'[m].outcome = "done"
      BY <2>3, <3>3 DEF IsToggle, Same
    <3> QED
      BY <3>2, <3>3 DEF MarksParts, LastAnswerIsMarks
  <2>10. LastAnswerIsMarks'
    BY <1>0, <2>9 DEF LastAnswerIsMarks, IsToggle
  <2>11. \A n \in DOMAIN requests' : IsToggle(n)' =>
          /\ n \in DOMAIN requests /\ IsToggle(n) /\ Same(requests[n], requests'[n])
          /\ requests'[n].crossed = FALSE <=> requests[n].crossed = FALSE
    BY <2>1, <2>2, <2>3 DEF IsToggle, Same
  <2>12. LoneToggle'
    BY <1>0, <2>11 DEF MarksParts, LoneToggle, Same, HasLanded
  <2>13. NoToggle' => NoToggle
    BY <2>3 DEF NoToggle, IsToggle, Same
  <2> QED
    BY <1>0, <2>6, <2>8, <2>10, <2>12, <2>13 DEF MarksParts, UntoggledShowsMarks
<1> QED
  BY <1>0, <1>1, <1>2 DEF Rereads

(* A request about the marks is answered: the daemon's map is in the last answer. *)
LEMMA AnswerKeepsMarks ==
  ASSUME AnsweredInOrder, CacheTyped, MarksParts, NEW i \in DOMAIN requests, OfMarks(i),
         Serve(i) \/ Refuse(i)
  PROVE  MarksParts'
<1>1. /\ requests[i].outcome = "out" /\ ServedBefore(i)
      /\ viewed' = viewed /\ smudged' = smudged
  BY DEF Serve, Refuse
<1>2. PICK outcome \in {"done", "refused"} :
        /\ Answers(i, outcome)
        /\ outcome = "done" => Serve(i) /\ requests'[i].answer = marks'
        /\ outcome = "refused" => IsToggle(i) /\ marks' = marks
  <2>1. CASE Serve(i)
    BY <2>1, ServeAnswers
  <2>2. CASE Refuse(i)
    <3>1. IsToggle(i)
      BY <2>2 DEF Refuse, IsToggle, OfMarks, OnThread, CacheTyped, AreRequests, IsRequest
    <3> QED
      BY <2>2, <3>1, RefuseAnswers DEF Refuse, daemon
  <2> QED
    BY <2>1, <2>2
<1>3. ~IsToggle(i) => marks' = marks
  <2>1. IsRequest(requests[i]) /\ marks \in Marks
    BY DEF CacheTyped, AreRequests
  <2> QED
    BY <1>2, <2>1, MarksAfterIs DEF Serve, IsToggle
<1>4. DOMAIN requests' = DOMAIN requests /\ DOMAIN requests \subseteq Nat
  BY <1>2 DEF Answers, CacheTyped, AreRequests
<1>5. ASSUME NEW n \in DOMAIN requests
      PROVE  /\ requests'[n].kind = requests[n].kind /\ (OfMarks(n)' <=> OfMarks(n))
             /\ requests'[n].previous = requests[n].previous
             /\ requests'[n].crossed = requests[n].crossed
             /\ n # i => requests'[n] = requests[n]
  BY <1>2 DEF Answers, OfMarks, OnThread
<1>6. requests'[i].outcome = outcome
  BY <1>2 DEF Answers
<1>7. ReadIsLast'
  BY <1>4, <1>5 DEF MarksParts, ReadIsLast
<1>8. \A m \in DOMAIN requests : m < i /\ OfMarks(m) => requests[m].outcome # "out"
  BY <1>1 DEF ServedBefore, Subject, OfMarks
<1>9. \A n \in DOMAIN requests : i < n /\ OfMarks(n) => requests[n].outcome = "out"
  BY <1>1 DEF MarksParts, MarksInOrder
<1>10. ASSUME NEW m \in DOMAIN requests, NEW n \in DOMAIN requests, m < n,
              OfMarks(m), OfMarks(n), requests'[n].outcome # "out"
       PROVE  requests'[m].outcome # "out"
  <2>1. CASE m = i
    BY <1>2, <1>6, <2>1
  <2>2. CASE n = i
    <3>1. m # i
      BY <1>4, <1>10, <2>2
    <3> QED
      BY <1>5, <1>8, <1>10, <2>2, <3>1
  <2>3. CASE m # i /\ n # i
    BY <1>5, <1>10, <2>3 DEF MarksParts, MarksInOrder
  <2> QED
    BY <2>1, <2>2, <2>3
<1>11. MarksInOrder'
  BY <1>4, <1>5, <1>10 DEF MarksInOrder
<1>12. ASSUME NEW n \in DOMAIN requests, OfMarks(n), requests'[n].outcome = "done"
       PROVE  \/ requests'[n].answer = marks'
              \/ \E m \in DOMAIN requests' :
                   m > n /\ requests'[m].kind = "toggle" /\ requests'[m].outcome = "done"
  <2>1. CASE n = i
    BY <1>2, <1>6, <1>12, <2>1
  <2>2. CASE n # i /\ outcome = "done" /\ IsToggle(i)
    <3>1. requests[n].outcome = "done"
      BY <1>5, <1>12, <2>2
    <3>2. ~(i < n)
      BY <1>9, <1>12, <3>1
    <3>3. i > n
      BY <1>4, <2>2, <3>2
    <3> QED
      BY <1>4, <1>5, <1>6, <2>2, <3>3 DEF IsToggle
  <2>3. CASE n # i /\ ~(outcome = "done" /\ IsToggle(i))
    <3>1. marks' = marks /\ requests'[n] = requests[n]
      BY <1>2, <1>3, <1>5, <2>3
    <3>2. ASSUME NEW m \in DOMAIN requests, m > n, IsToggle(m), requests[m].outcome = "done"
          PROVE  /\ m \in DOMAIN requests' /\ requests'[m].kind = "toggle"
                 /\ requests'[m].outcome = "done"
      BY <1>1, <1>4, <1>5, <3>2 DEF IsToggle
    <3> QED
      BY <1>12, <3>1, <3>2 DEF MarksParts, LastAnswerIsMarks
  <2> QED
    BY <2>1, <2>2, <2>3
<1>13. LastAnswerIsMarks'
  BY <1>4, <1>5, <1>12 DEF LastAnswerIsMarks, IsToggle
<1>14. ASSUME NEW n \in DOMAIN requests, IsToggle(n), requests[n].crossed = FALSE,
              smudged = FALSE, ~HasLanded(requests'[n])
       PROVE  requests[n].previous = marks'
  <2>1. \A m \in DOMAIN requests : IsToggle(m) => m = n
    BY <1>14 DEF MarksParts, LoneToggle
  <2>2. marks' = marks
    <3>1. CASE n = i
      BY <1>2, <1>6, <1>14, <3>1 DEF HasLanded
    <3>2. CASE n # i
      BY <1>3, <2>1, <3>2
    <3> QED
      BY <3>1, <3>2
  <2>3. ~HasLanded(requests[n])
    BY <1>1, <1>5, <1>14 DEF HasLanded
  <2> QED
    BY <1>14, <2>2, <2>3 DEF MarksParts, LoneToggle
<1>15. LoneToggle'
  <2>1. \A n \in DOMAIN requests : IsToggle(n)' <=> IsToggle(n)
    BY <1>5 DEF IsToggle
  <2> QED
    BY <1>1, <1>4, <1>5, <1>14, <2>1 DEF MarksParts, LoneToggle
<1>16. UntoggledShowsMarks'
  BY <1>1, <1>3, <1>4, <1>5 DEF MarksParts, UntoggledShowsMarks, NoToggle, IsToggle
<1> QED
  BY <1>1, <1>7, <1>11, <1>13, <1>15, <1>16 DEF MarksParts

(* An answer arrives: the first request about the marks goes. *)
LEMMA SettledKeepsMarks ==
  ASSUME CacheTyped, MarksParts, NEW i \in DOMAIN requests, OfMarks(i), SettledBefore(i),
         Settles(i), marks' = marks, viewed' \in Marks,
         smudged' = FALSE /\ ~NoToggle' =>
           smudged = FALSE \/ \A n \in DOMAIN requests' : IsToggle(n)' => requests'[n].crossed # FALSE,
         smudged' = FALSE /\ NoToggle' => viewed' = marks
  PROVE  MarksParts'
<1>1. ASSUME NEW n \in DOMAIN requests'
      PROVE  n \in DOMAIN requests /\ n # i /\ requests'[n] = requests[n] /\ (OfMarks(n)' <=> OfMarks(n))
  BY DEF Settles, OfMarks
<1>2. \A n \in DOMAIN requests : n # i => n \in DOMAIN requests' /\ requests'[n] = requests[n]
  BY DEF Settles
<1>3. ReadIsLast' /\ MarksInOrder'
  BY <1>1 DEF MarksParts, ReadIsLast, MarksInOrder
<1>4. \A n \in DOMAIN requests : OfMarks(n) => n >= i
  BY DEF SettledBefore, Subject, OfMarks, CacheTyped, AreRequests
<1>5. ASSUME NEW n \in DOMAIN requests', OfMarks(n)', requests'[n].outcome = "done"
      PROVE  \/ requests'[n].answer = marks
             \/ \E m \in DOMAIN requests' :
                  m > n /\ requests'[m].kind = "toggle" /\ requests'[m].outcome = "done"
  <2>1. n \in DOMAIN requests /\ OfMarks(n) /\ requests[n].outcome = "done" /\ n >= i
    BY <1>1, <1>4, <1>5
  <2>2. ASSUME NEW m \in DOMAIN requests, m > n, IsToggle(m), requests[m].outcome = "done"
        PROVE  m \in DOMAIN requests' /\ requests'[m].kind = "toggle" /\ requests'[m].outcome = "done"
    <3>1. m # i
      BY <2>1, <2>2 DEF CacheTyped, AreRequests
    <3> QED
      BY <1>2, <2>2, <3>1 DEF IsToggle
  <2> QED
    BY <1>1, <2>1, <2>2 DEF MarksParts, LastAnswerIsMarks
<1>6. LastAnswerIsMarks'
  BY <1>5 DEF LastAnswerIsMarks, IsToggle
<1>7. ASSUME NEW n \in DOMAIN requests', IsToggle(n)'
      PROVE  /\ requests'[n].previous \in Marks /\ requests'[n].previous # Nothing
             /\ requests'[n].crossed = FALSE =>
                  /\ \A m \in DOMAIN requests' : IsToggle(m)' => m = n
                  /\ smudged' = FALSE /\ ~HasLanded(requests'[n]) => requests'[n].previous = marks'
  <2>1. n \in DOMAIN requests /\ IsToggle(n) /\ requests'[n] = requests[n] /\ ~NoToggle'
    BY <1>1, <1>7 DEF IsToggle, NoToggle
  <2>2. requests[n].crossed = FALSE /\ smudged' = FALSE => smudged = FALSE
    BY <1>7, <2>1
  <2> QED
    BY <1>1, <2>1, <2>2 DEF MarksParts, LoneToggle, IsToggle
<1>8. LoneToggle'
  BY <1>7 DEF LoneToggle
<1> QED
  BY <1>3, <1>6, <1>8 DEF MarksParts, UntoggledShowsMarks

LEMMA TakeMarksKeepsMarks ==
  ASSUME AnsweredInOrder, CacheTyped, MarksParts, NEW i \in DOMAIN requests, TakeMarks(i)
  PROVE  MarksParts'
<1>1. /\ OfMarks(i) /\ SettledBefore(i) /\ Settles(i) /\ marks' = marks
      /\ viewed' = requests[i].answer /\ smudged' = (smudged /\ Toggling(requests'))
  BY WithoutSettles DEF TakeMarks, Arrives, OfMarks, daemon
<1>2. requests[i].outcome = "done" /\ viewed' \in Marks
  BY <1>1 DEF TakeMarks, Arrives, Failed, OfMarks, CacheTyped, AreRequests, IsRequest
<1>3. Toggling(requests') <=> ~NoToggle'
  BY DEF Toggling, NoToggle, IsToggle
<1>4. smudged \in BOOLEAN
  BY DEF CacheTyped
<1>5. smudged' = FALSE /\ ~NoToggle' =>
        smudged = FALSE \/ \A n \in DOMAIN requests' : IsToggle(n)' => requests'[n].crossed # FALSE
  BY <1>1, <1>3, <1>4
<1>6. ASSUME NoToggle' PROVE viewed' = marks
  <2>1. ASSUME NEW m \in DOMAIN requests, m > i PROVE ~IsToggle(m)
    <3>1. m \in DOMAIN requests' /\ requests'[m] = requests[m]
      BY <1>1, <2>1 DEF Settles, CacheTyped, AreRequests
    <3> QED
      BY <1>6, <3>1 DEF NoToggle, IsToggle
  <2> QED
    BY <1>1, <1>2, <2>1 DEF MarksParts, LastAnswerIsMarks
<1>7. smudged' = FALSE /\ NoToggle' => viewed' = marks
  BY <1>6
<1> QED
  BY <1>1, <1>2, <1>5, <1>7, SettledKeepsMarks

LEMMA RestoreKeepsMarks ==
  ASSUME AnsweredInOrder, CacheTyped, MarksParts, NEW i \in DOMAIN requests, RestoreMarks(i)
  PROVE  MarksParts'
<1>1. /\ IsToggle(i) /\ OfMarks(i) /\ SettledBefore(i) /\ marks' = marks
      /\ smudged' = (smudged \/ requests[i].crossed)
  BY DEF RestoreMarks, Arrives, OfMarks, OnThread, IsToggle, daemon
<1>2. requests[i].previous \in Marks /\ requests[i].previous # Nothing
  BY <1>1 DEF MarksParts, LoneToggle
<1>3. Settles(i) /\ viewed' = requests[i].previous
  BY <1>2, RestoreMarksSettles
<1>4. requests[i].outcome = "refused" /\ requests[i].crossed \in BOOLEAN /\ smudged \in BOOLEAN
  BY <1>1 DEF RestoreMarks, Failed, OfMarks, CacheTyped, AreRequests, IsRequest
<1>5. smudged' = FALSE => smudged = FALSE /\ requests[i].crossed = FALSE
  BY <1>1, <1>4
<1>6. smudged' = FALSE /\ NoToggle' => viewed' = marks
  BY <1>1, <1>3, <1>4, <1>5 DEF MarksParts, LoneToggle, HasLanded
<1>7. smudged' = FALSE /\ ~NoToggle' =>
        smudged = FALSE \/ \A n \in DOMAIN requests' : IsToggle(n)' => requests'[n].crossed # FALSE
  BY <1>5
<1>8. viewed' \in Marks
  BY <1>2, <1>3
<1> QED
  BY <1>1, <1>3, <1>6, <1>7, <1>8, SettledKeepsMarks

LEMMA MarksInitially ==
  ASSUME ~EarlyToggles, CacheInit
  PROVE  MarksParts
<1>1. DOMAIN requests = {}
  BY DEF CacheInit, EmptyTable
<1>2. viewed = marks /\ marks \in Marks
  BY DEF CacheInit, Marks, NoMarks
<1> QED
  BY <1>1, <1>2 DEF MarksParts, ReadIsLast, MarksInOrder, LastAnswerIsMarks, LoneToggle,
                    UntoggledShowsMarks

LEMMA MarksStep ==
  ASSUME AnsweredInOrder, ~EarlyToggles, CacheTyped, MarksParts, [CacheNext]_cacheVars
  PROVE  MarksParts'
<1>1. ASSUME NEW kind \in {"reply", "resolve", "react"}, NEW on, IsOf(kind, on), Mutate(kind, on)
      PROVE  MarksParts'
  <2>1. MarksStay
    BY <1>1, MutateSends, MarksStayIf
  <2> QED
    BY <1>1, <2>1, MarksStayed DEF Mutate, daemon
<1>2. CASE Reply \/ Resolve \/ React
  <2>1. "reply" \in {"reply", "resolve", "react"} /\ "resolve" \in {"reply", "resolve", "react"}
        /\ "react" \in {"reply", "resolve", "react"}
    OBVIOUS
  <2> QED
    BY <1>1, <1>2, <2>1, ReplyMutates, ResolveMutates, ReactMutates
<1>3. ASSUME NEW r \in Replies, TypeReply(r) PROVE MarksParts'
  <2>1. MarksStay
    BY <1>3, MarksStayIf DEF TypeReply
  <2> QED
    BY <1>3, <2>1, MarksStayed DEF TypeReply, daemon
<1>4. ASSUME NEW p \in Paths, Toggle(p) PROVE MarksParts'
  BY <1>4, ToggleKeepsMarks
<1>5. CASE StartSync \/ ReadGithub \/ FailSync
  <2>1. /\ requests' = requests /\ marks' = marks /\ viewed' = viewed /\ smudged' = smudged
    BY <1>5 DEF StartSync, ReadGithub, FailSync, daemon
  <2>2. MarksStay
    BY <2>1, MarksStayIf
  <2> QED
    BY <2>1, <2>2, MarksStayed
<1>6. CASE LandSync
  BY <1>6, LandSyncKeepsMarks
<1>7. CASE Reload
  <2>1. MarksStay
    BY <1>7, ReloadRereads, MarksStayIf
  <2> QED
    BY <1>7, <2>1, MarksStayed DEF Reload, daemon
<1>8. ASSUME NEW i \in DOMAIN requests, Wire(i)
      PROVE  MarksParts'
  <2>1. CASE OfMarks(i)
    BY <1>8, <2>1, AnswerKeepsMarks DEF Wire, Lose, OfMarks
  <2>2. CASE ~OfMarks(i)
    <3>1. \E outcome : Answers(i, outcome)
      BY <1>8, ServeAnswers, RefuseAnswers, LoseAnswers DEF Wire
    <3>2. MarksStay
      BY <2>2, <3>1, MarksStayIf
    <3>3. IsRequest(requests[i]) /\ marks \in Marks
      BY DEF CacheTyped, AreRequests
    <3>4. marks' = marks
      BY <1>8, <2>2, <3>3, MarksAfterIs DEF Wire, Serve, Refuse, Lose, daemon, OfMarks, OnThread
    <3> QED
      BY <1>8, <3>2, <3>4, MarksStayed DEF Wire, Serve, Refuse, Lose
  <2> QED
    BY <2>1, <2>2
<1>9. ASSUME NEW i \in DOMAIN requests, Succeed(i) \/ Fail(i)
      PROVE  MarksParts'
  <2>1. ~OfMarks(i) /\ Settles(i)
    BY <1>9, WithoutSettles DEF Succeed, Fail, OfMarks
  <2>2. MarksStay
    BY <2>1, MarksStayIf
  <2> QED
    BY <1>9, <2>2, MarksStayed DEF Succeed, Fail, daemon
<1>10. ASSUME NEW i \in DOMAIN requests, TakeMarks(i) PROVE MarksParts'
  BY <1>10, TakeMarksKeepsMarks
<1>11. ASSUME NEW i \in DOMAIN requests, RestoreMarks(i) PROVE MarksParts'
  BY <1>11, RestoreKeepsMarks
<1>12. CASE UNCHANGED cacheVars
  <2>1. /\ requests' = requests /\ marks' = marks /\ viewed' = viewed /\ smudged' = smudged
    BY <1>12 DEF cacheVars, daemon
  <2>2. MarksStay
    BY <2>1, MarksStayIf
  <2> QED
    BY <2>1, <2>2, MarksStayed
<1> QED
  BY <1>2, <1>3, <1>4, <1>5, <1>6, <1>7, <1>8, <1>9, <1>10, <1>11, <1>12
     DEF CacheNext, Begin, Syncing, Settle

\* Once no request about the marks is out, the checkboxes are the marks the daemon keeps,
\* unless a toggle was refused that overlapped another.
THEOREM MarksAreShown ==
  ASSUME AnsweredInOrder, ~EarlyToggles
  PROVE  CacheSpec => []SettledShowsMarks
<1>1. CacheInit => MarksInv
  BY CacheInitTyped, MarksInitially DEF MarksInv, MarksParts
<1>2. MarksInv /\ [CacheNext]_cacheVars => MarksInv'
  BY ClientAssumption, CacheStepTyped, MarksStep DEF MarksInv, MarksParts
<1>3. MarksInv => SettledShowsMarks
  BY DEF MarksInv, SettledShowsMarks, MarksSettled, UntoggledShowsMarks, NoToggle, IsToggle,
         OnThread, CacheTyped
<1> QED
  BY <1>1, <1>2, <1>3, PTL DEF CacheSpec

-----------------------------------------------------------------------------
(* The thread. *)

WritesInOrder == ResolvesInOrder /\ LastResolveStands /\ ReactsLand
ThreadParts == TextInOnePlace /\ WritesInOrder /\ LoneWrite /\ LoneSync /\ ShownIsThread

\* The writes that are out are as they were.
ThreadKept ==
  /\ \A n \in DOMAIN requests : OfThread(n) =>
       /\ n \in DOMAIN requests' /\ OfThread(n)' /\ Same(requests[n], requests'[n])
  /\ \A n \in DOMAIN requests' :
       OfThread(n)' => n \in DOMAIN requests /\ OfThread(n) /\ Same(requests[n], requests'[n])
UncrossedKept ==
  \A n \in DOMAIN requests' :
    OfThread(n)' /\ requests'[n].crossed = FALSE => requests[n].crossed = FALSE

LEMMA OfThreadIs ==
  /\ \A n : OfThread(n) <=> IsReply(n) \/ IsResolve(n) \/ IsReact(n)
  /\ \A n : OfThread(n)' <=> IsReply(n)' \/ IsResolve(n)' \/ IsReact(n)'
BY DEF OfThread, OnThread, IsReply, IsResolve, IsReact

LEMMA KindsKept ==
  ASSUME ThreadKept
  PROVE  /\ \A n \in DOMAIN requests : IsReply(n) => n \in DOMAIN requests' /\ IsReply(n)'
         /\ \A n \in DOMAIN requests : IsResolve(n) => n \in DOMAIN requests' /\ IsResolve(n)'
         /\ \A n \in DOMAIN requests : IsReact(n) => n \in DOMAIN requests' /\ IsReact(n)'
         /\ \A n \in DOMAIN requests' : IsReply(n)' => n \in DOMAIN requests /\ IsReply(n)
         /\ \A n \in DOMAIN requests' : IsResolve(n)' => n \in DOMAIN requests /\ IsResolve(n)
         /\ \A n \in DOMAIN requests' : IsReact(n)' => n \in DOMAIN requests /\ IsReact(n)
BY OfThreadIs DEF ThreadKept, Same, IsReply, IsResolve, IsReact

LEMMA PlacesKept ==
  ASSUME TextInOnePlace, RepliesStay, github'.posted = github.posted, box' = box,
         written' = written
  PROVE  TextInOnePlace'
<1>1. \A n \in DOMAIN requests' : IsReply(n)' =>
        /\ n \in DOMAIN requests /\ IsReply(n) /\ requests'[n].on = requests[n].on
        /\ HasLanded(requests'[n]) <=> HasLanded(requests[n])
  BY DEF RepliesStay, Same, HasLanded, IsReply
<1> QED
  BY <1>1 DEF TextInOnePlace

LEMMA RepliesKept ==
  ASSUME ThreadKept
  PROVE  RepliesStay
BY OfThreadIs, KindsKept DEF ThreadKept, RepliesStay, IsReply

LEMMA OrderKept ==
  ASSUME WritesInOrder, ThreadKept, github' = github
  PROVE  WritesInOrder'
<1>1. \A n \in DOMAIN requests' : IsResolve(n)' \/ IsReact(n)' =>
        /\ n \in DOMAIN requests /\ Same(requests[n], requests'[n])
  BY OfThreadIs DEF ThreadKept
<1>2. ResolvesInOrder'
  BY <1>1, KindsKept DEF WritesInOrder, ResolvesInOrder, Same
<1>3. ASSUME NEW n \in DOMAIN requests', IsResolve(n)', HasLanded(requests'[n])
      PROVE  \/ requests'[n].on = github'.resolved
             \/ \E m \in DOMAIN requests' : m > n /\ IsResolve(m)' /\ HasLanded(requests'[m])
  <2>1. /\ n \in DOMAIN requests /\ IsResolve(n) /\ HasLanded(requests[n])
        /\ requests'[n].on = requests[n].on
    BY <1>1, <1>3, KindsKept DEF Same, HasLanded
  <2>2. ASSUME NEW m \in DOMAIN requests, m > n, IsResolve(m), HasLanded(requests[m])
        PROVE  m \in DOMAIN requests' /\ IsResolve(m)' /\ HasLanded(requests'[m])
    BY <1>1, <2>2, KindsKept DEF Same, HasLanded
  <2> QED
    BY <2>1, <2>2 DEF WritesInOrder, LastResolveStands
<1>4. LastResolveStands'
  BY <1>3 DEF LastResolveStands
<1>5. ReactsLand'
  BY <1>1, KindsKept DEF WritesInOrder, ReactsLand, Same, HasLanded
<1> QED
  BY <1>2, <1>4, <1>5 DEF WritesInOrder

LEMMA LoneWriteKept ==
  ASSUME LoneWrite, ThreadKept, UncrossedKept, github' = github, tangled' = tangled
  PROVE  LoneWrite'
<1>1. ASSUME NEW n \in DOMAIN requests', OfThread(n)', requests'[n].crossed = FALSE
      PROVE  /\ \A m \in DOMAIN requests' : OfThread(m)' => m = n
             /\ (tangled = FALSE /\ ~HasLanded(requests[n]) => Faithful(requests[n].previous))'
  <2>1. /\ n \in DOMAIN requests /\ OfThread(n) /\ requests[n].crossed = FALSE
        /\ Same(requests[n], requests'[n])
    BY <1>1 DEF ThreadKept, UncrossedKept
  <2>2. \A m \in DOMAIN requests' : OfThread(m)' => m = n
    BY <2>1 DEF ThreadKept, LoneWrite
  <2>3. tangled = FALSE /\ ~HasLanded(requests[n]) => Faithful(requests[n].previous)
    BY <2>1 DEF LoneWrite
  <2> QED
    BY <2>1, <2>2, <2>3 DEF Same, HasLanded, Faithful
<1> QED
  BY <1>1 DEF LoneWrite

LEMMA LoneSyncKept ==
  ASSUME LoneSync, ThreadKept, github' = github, sync' = sync
  PROVE  LoneSync'
BY DEF LoneSync, NoneOfThread, ThreadKept, Faithful

LEMMA ShownKept ==
  ASSUME ShownIsThread, ThreadKept, github' = github, shown' = shown, tangled' = tangled
  PROVE  ShownIsThread'
<1>1. SUFFICES ASSUME tangled = FALSE
      PROVE  /\ ShowsResolution' /\ ShowsReactions' /\ ShowsPosted'
             /\ ShowsPending' /\ ShowsAuthors'
  BY DEF ShownIsThread
<1>2. \A n \in DOMAIN requests : IsReply(n) => Same(requests[n], requests'[n])
  BY OfThreadIs DEF ThreadKept
<1>3. ASSUME NEW r
      PROVE  (PostedAndOut(r)' <=> PostedAndOut(r)) /\ (IsOut(r)' <=> IsOut(r))
  BY <1>2, KindsKept DEF PostedAndOut, IsOut, Same, HasLanded
<1>4. ShowsResolution' /\ ShowsReactions'
  BY <1>1, KindsKept DEF ShownIsThread, ShowsResolution, ShowsReactions
<1>5. ShowsPosted' /\ ShowsPending' /\ ShowsAuthors'
  BY <1>1, <1>3 DEF ShownIsThread, ShowsPosted, ShowsPending, ShowsAuthors
<1> QED
  BY <1>4, <1>5

(* What is about the marks, or only crosses, leaves the writes alone. *)
LEMMA ThreadKeptIf ==
  ASSUME CacheTyped,
         \/ requests' = requests
         \/ \E k \in Nat : ToggleGoes(k)
         \/ ThreadStays
         \/ \E i \in DOMAIN requests : \E outcome : OfMarks(i) /\ Answers(i, outcome)
         \/ \E i \in DOMAIN requests : OfMarks(i) /\ Settles(i)
  PROVE  ThreadKept /\ UncrossedKept
<1>1. CASE requests' = requests
  BY <1>1 DEF ThreadKept, UncrossedKept, Same, OfThread
<1>2. ASSUME NEW k \in Nat, ToggleGoes(k)
      PROVE  ThreadKept /\ UncrossedKept
  <2>1. ~OfThread(k)'
    BY <1>2 DEF ToggleGoes, OfThread, OnThread
  <2>2. ASSUME NEW n \in DOMAIN requests, OfThread(n)
        PROVE  /\ n \in DOMAIN requests' /\ Same(requests[n], requests'[n]) /\ OfThread(n)'
               /\ requests'[n].crossed = FALSE <=> requests[n].crossed = FALSE
    BY <1>2, <2>2 DEF ToggleGoes, OfThread, OnThread, Same
  <2>3. ASSUME NEW n \in DOMAIN requests', OfThread(n)'
        PROVE  n \in DOMAIN requests /\ OfThread(n)
    <3>1. n # k /\ n \in DOMAIN requests /\ requests[n].kind # "fetch"
      BY <1>2, <2>1, <2>3 DEF ToggleGoes
    <3> QED
      BY <1>2, <2>3, <3>1 DEF ToggleGoes, OfThread, OnThread, Same
  <2> QED
    BY <2>2, <2>3 DEF ThreadKept, UncrossedKept
<1>3. CASE ThreadStays
  BY <1>3 DEF ThreadStays, ThreadKept, UncrossedKept, OfThread, Same
<1>4. ASSUME NEW i \in DOMAIN requests, NEW outcome, OfMarks(i), Answers(i, outcome)
      PROVE  ThreadKept /\ UncrossedKept
  <2>1. ~OfThread(i)' /\ ~OfThread(i)
    BY <1>4 DEF Answers, OfMarks, OfThread, OnThread
  <2> QED
    BY <1>4, <2>1 DEF Answers, ThreadKept, UncrossedKept, OfThread, Same
<1>5. ASSUME NEW i \in DOMAIN requests, OfMarks(i), Settles(i)
      PROVE  ThreadKept /\ UncrossedKept
  BY <1>5 DEF Settles, ThreadKept, UncrossedKept, OfMarks, OfThread, Same
<1> QED
  BY <1>1, <1>2, <1>3, <1>4, <1>5

LEMMA ThreadPartsKept ==
  ASSUME ThreadParts, ThreadKept, UncrossedKept, github' = github, shown' = shown,
         tangled' = tangled, sync' = sync, box' = box, written' = written
  PROVE  ThreadParts'
BY PlacesKept, RepliesKept, OrderKept, LoneWriteKept, LoneSyncKept, ShownKept DEF ThreadParts

\* A sync or a reload crosses every write.
LEMMA CrossingKeeps ==
  ASSUME CacheTyped, Rereads, CrossesThread
  PROVE  /\ ThreadKept
         /\ \A n \in DOMAIN requests' : OfThread(n)' => requests'[n].crossed # FALSE
<1>1. ASSUME NEW n \in DOMAIN requests, OfThread(n)
      PROVE  n \in DOMAIN requests' /\ Same(requests[n], requests'[n]) /\ OfThread(n)'
  <2>1. n \in DOMAIN requests'
    BY <1>1 DEF Rereads, OfThread, OnThread
  <2> QED
    BY <1>1, <2>1 DEF CrossesThread, OfThread, OnThread, Same
<1>2. ASSUME NEW n \in DOMAIN requests', OfThread(n)'
      PROVE  /\ n \in DOMAIN requests /\ OfThread(n) /\ Same(requests[n], requests'[n])
             /\ requests'[n].crossed # FALSE
  <2>1. n \in DOMAIN requests
    BY <1>2 DEF Rereads, OfThread, OnThread
  <2> QED
    BY <1>2, <2>1 DEF CrossesThread, OfThread, OnThread, Same
<1> QED
  BY <1>1, <1>2 DEF ThreadKept

(* With nothing out, what is shown is the thread, and the thread is what is shown. *)
LEMMA NoneOutIs ==
  ASSUME NoneOfThread
  PROVE  /\ \A n \in DOMAIN requests : ~IsReply(n) /\ ~IsResolve(n) /\ ~IsReact(n)
         /\ \A r : ~PostedAndOut(r) /\ ~IsOut(r)
BY OfThreadIs DEF NoneOfThread, PostedAndOut, IsOut

LEMMA ShownIsFaithful ==
  ASSUME CacheTyped, ShownIsThread, NoneOfThread, tangled = FALSE
  PROVE  Faithful(shown)
<1>1. /\ shown.resolved = github.resolved /\ shown.hearts = github.hearts
      /\ \A r \in Replies : github.posted[r] = shown.copies[r] /\ r \notin shown.pending
      /\ \A r \in Replies : /\ <<r, "pending">> \notin shown.authors
                            /\ <<r, "stored">> \in shown.authors <=> shown.copies[r] > 0
  BY NoneOutIs DEF ShownIsThread, ShowsResolution, ShowsReactions, ShowsPosted, ShowsPending,
                   ShowsAuthors
<1>2. shown \in Shots /\ github \in Threads
  BY DEF CacheTyped
<1>3. shown.copies = github.posted
  BY <1>1, <1>2 DEF Shots, Threads
<1>4. shown.pending = {}
  BY <1>1, <1>2 DEF Shots
<1>5. shown.authors = {r \in Replies : github.posted[r] > 0} \X {"stored"}
  <2>1. shown.authors \subseteq Replies \X {"pending", "stored"}
    BY <1>2 DEF Shots
  <2>2. ASSUME NEW a \in shown.authors
        PROVE  a \in {r \in Replies : github.posted[r] > 0} \X {"stored"}
    <3>1. PICK r \in Replies, where \in {"pending", "stored"} : a = <<r, where>>
      BY <2>1
    <3>2. where = "stored"
      BY <1>1, <3>1
    <3> QED
      BY <1>1, <3>1, <3>2
  <2>3. ASSUME NEW r \in Replies, github.posted[r] > 0
        PROVE  <<r, "stored">> \in shown.authors
    BY <1>1, <2>3
  <2> QED
    BY <2>2, <2>3
<1>6. shown = [version |-> shown.version, copies |-> shown.copies, pending |-> shown.pending,
               authors |-> shown.authors, resolved |-> shown.resolved, hearts |-> shown.hearts]
  BY <1>2 DEF Shots
<1> QED
  BY <1>1, <1>3, <1>4, <1>5, <1>6 DEF Faithful, SnapshotOf

LEMMA FaithfulIsShown ==
  ASSUME CacheTyped', NoneOfThread', Faithful(shown)'
  PROVE  ShownIsThread'
<1>1. /\ \A n \in DOMAIN requests' : ~IsReply(n)' /\ ~IsResolve(n)' /\ ~IsReact(n)'
      /\ \A r : ~PostedAndOut(r)' /\ ~IsOut(r)'
  BY OfThreadIs DEF NoneOfThread, PostedAndOut, IsOut
<1>2. shown' = SnapshotOf(github', shown'.version) /\ github' \in Threads /\ shown'.version \in Nat
  BY DEF Faithful, CacheTyped, Shots
<1>3. PICK v \in Nat : v = shown'.version
  BY <1>2
<1>4. /\ shown'.copies = github'.posted /\ shown'.pending = {}
      /\ shown'.authors = {r \in Replies : github'.posted[r] > 0} \X {"stored"}
      /\ shown'.resolved = github'.resolved /\ shown'.hearts = github'.hearts
  BY <1>2, <1>3, SnapshotIs
<1>5. ShowsResolution' /\ ShowsReactions'
  BY <1>4 DEF ShowsResolution, ShowsReactions
<1>6. ShowsPosted' /\ ShowsPending'
  BY <1>1, <1>4 DEF ShowsPosted, ShowsPending
<1>7. ShowsAuthors'
  BY <1>4 DEF ShowsAuthors
<1> QED
  BY <1>5, <1>6, <1>7 DEF ShownIsThread

(* A write begins. *)
LEMMA GoesIs ==
  ASSUME CacheTyped, NEW kind \in {"reply", "resolve", "react"}, NEW on, NEW k \in Nat,
         Goes(kind, on, k)
  PROVE  /\ \A n \in DOMAIN requests :
              n \in DOMAIN requests' /\ n \in Nat /\ n < k /\ Same(requests[n], requests'[n])
         /\ \A n \in DOMAIN requests' : n # k => n \in DOMAIN requests
         /\ k \in DOMAIN requests' /\ requests'[k].kind = kind /\ requests'[k].on = on
         /\ requests'[k].outcome = "out" /\ OfThread(k)'
BY DEF Goes, CacheTyped, AreRequests, OfThread, OnThread

LEMMA MutateKeepsOrder ==
  ASSUME CacheTyped, ThreadParts, NEW kind \in {"reply", "resolve", "react"}, NEW on,
         NEW k \in Nat, Goes(kind, on, k), github' = github
  PROVE  WritesInOrder'
<1>0. /\ \A n \in DOMAIN requests :
           n \in DOMAIN requests' /\ n \in Nat /\ n < k /\ Same(requests[n], requests'[n])
      /\ \A n \in DOMAIN requests' : n # k => n \in DOMAIN requests
      /\ requests'[k].outcome = "out"
  BY GoesIs
<1>1. ASSUME NEW m \in DOMAIN requests', NEW n \in DOMAIN requests', m < n,
             IsResolve(m)', IsResolve(n)', requests'[n].outcome # "out"
      PROVE  requests'[m].outcome # "out"
  <2>1. n # k /\ n \in DOMAIN requests /\ n < k /\ n \in Nat
    BY <1>0, <1>1
  <2>2. m # k
    BY <1>1, <2>1
  <2>3. m \in DOMAIN requests
    BY <1>0, <2>2
  <2> QED
    BY <1>0, <1>1, <2>1, <2>3 DEF ThreadParts, WritesInOrder, ResolvesInOrder, Same, IsResolve
<1>2. ResolvesInOrder'
  BY <1>1 DEF ResolvesInOrder
<1>3. ASSUME NEW n \in DOMAIN requests', IsResolve(n)', HasLanded(requests'[n])
      PROVE  \/ requests'[n].on = github'.resolved
             \/ \E m \in DOMAIN requests' : m > n /\ IsResolve(m)' /\ HasLanded(requests'[m])
  <2>1. n # k
    BY <1>0, <1>3 DEF HasLanded
  <2>2. /\ n \in DOMAIN requests /\ IsResolve(n) /\ HasLanded(requests[n])
        /\ requests'[n].on = requests[n].on
    BY <1>0, <1>3, <2>1 DEF Same, HasLanded, IsResolve
  <2>3. ASSUME NEW m \in DOMAIN requests, m > n, IsResolve(m), HasLanded(requests[m])
        PROVE  m \in DOMAIN requests' /\ IsResolve(m)' /\ HasLanded(requests'[m])
    BY <1>0, <2>3 DEF Same, HasLanded, IsResolve
  <2> QED
    BY <2>2, <2>3 DEF ThreadParts, WritesInOrder, LastResolveStands
<1>4. LastResolveStands'
  BY <1>3 DEF LastResolveStands
<1>5. ASSUME NEW n \in DOMAIN requests', IsReact(n)', HasLanded(requests'[n])
      PROVE  github'.hearts = 1
  <2>1. n # k
    BY <1>0, <1>5 DEF HasLanded
  <2> QED
    BY <1>0, <1>5, <2>1 DEF ThreadParts, WritesInOrder, ReactsLand, Same, HasLanded, IsReact
<1>6. ReactsLand'
  BY <1>5 DEF ReactsLand
<1> QED
  BY <1>2, <1>4, <1>6 DEF WritesInOrder

LEMMA MutateKeepsLoneWrite ==
  ASSUME CacheTyped, ThreadParts, NEW kind \in {"reply", "resolve", "react"}, NEW on,
         NEW k \in Nat, Goes(kind, on, k), github' = github, tangled' = tangled
  PROVE  LoneWrite'
<1>0. /\ \A n \in DOMAIN requests :
           n \in DOMAIN requests' /\ n \in Nat /\ n < k /\ Same(requests[n], requests'[n])
      /\ \A n \in DOMAIN requests' : n # k => n \in DOMAIN requests
  BY GoesIs
<1>1. ASSUME NEW n \in DOMAIN requests', OfThread(n)', requests'[n].crossed = FALSE
      PROVE  n = k /\ NoneOfThread
  <2>1. n = k
    <3> SUFFICES ASSUME n # k PROVE FALSE
      OBVIOUS
    <3>1. n \in DOMAIN requests /\ Same(requests[n], requests'[n])
      BY <1>0
    <3>2. OfThread(n)
      BY <1>1, <3>1 DEF OfThread, OnThread, Same
    <3> QED
      BY <1>1, <3>1, <3>2 DEF Goes
  <2> QED
    BY <1>1, <2>1 DEF Goes
<1>2. ASSUME NoneOfThread
      PROVE  \A m \in DOMAIN requests' : OfThread(m)' => m = k
  BY <1>0, <1>2 DEF NoneOfThread, OfThread, OnThread, Same
<1>3. requests'[k].previous = shown
  BY DEF Goes
<1>4. NoneOfThread /\ tangled = FALSE => Faithful(shown)
  BY ShownIsFaithful DEF ThreadParts
<1>5. NoneOfThread /\ tangled' = FALSE => (Faithful(requests[k].previous))'
  BY <1>3, <1>4 DEF Faithful
<1> QED
  BY <1>1, <1>2, <1>5 DEF LoneWrite

LEMMA MutateKeepsShown ==
  ASSUME CacheTyped, ThreadParts, NEW kind \in {"reply", "resolve", "react"}, NEW on,
         IsOf(kind, on), NEW k \in Nat, Goes(kind, on, k), github' = github, tangled' = tangled,
         shown' = Optimistic(shown, kind, on)
  PROVE  ShownIsThread'
<1>0. /\ \A n \in DOMAIN requests :
           n \in DOMAIN requests' /\ n \in Nat /\ n < k /\ Same(requests[n], requests'[n])
      /\ \A n \in DOMAIN requests' : n # k => n \in DOMAIN requests
      /\ k \in DOMAIN requests' /\ requests'[k].kind = kind /\ requests'[k].on = on
      /\ requests'[k].outcome = "out"
  BY GoesIs
<1>1. SUFFICES ASSUME tangled = FALSE
      PROVE  /\ ShowsResolution' /\ ShowsReactions' /\ ShowsPosted'
             /\ ShowsPending' /\ ShowsAuthors'
  BY DEF ShownIsThread
<1>2. /\ ShowsResolution /\ ShowsReactions /\ ShowsPosted /\ ShowsPending /\ ShowsAuthors
  BY <1>1 DEF ThreadParts, ShownIsThread
<1>3. shown \in Shots
  BY DEF CacheTyped
<1>4. ASSUME NEW r
      PROVE  PostedAndOut(r)' <=> PostedAndOut(r)
  <2>1. ASSUME PostedAndOut(r) PROVE PostedAndOut(r)'
    <3>1. PICK n \in DOMAIN requests : IsReply(n) /\ requests[n].on = r /\ HasLanded(requests[n])
      BY <2>1 DEF PostedAndOut
    <3>2. n \in DOMAIN requests' /\ IsReply(n)' /\ requests'[n].on = r /\ HasLanded(requests'[n])
      BY <1>0, <3>1 DEF Same, IsReply, HasLanded
    <3> QED
      BY <3>2 DEF PostedAndOut
  <2>2. ASSUME PostedAndOut(r)' PROVE PostedAndOut(r)
    <3>1. PICK n \in DOMAIN requests' : IsReply(n)' /\ requests'[n].on = r /\ HasLanded(requests'[n])
      BY <2>2 DEF PostedAndOut
    <3>2. n # k
      BY <1>0, <3>1 DEF HasLanded
    <3>3. n \in DOMAIN requests /\ IsReply(n) /\ requests[n].on = r /\ HasLanded(requests[n])
      BY <1>0, <3>1, <3>2 DEF Same, IsReply, HasLanded
    <3> QED
      BY <3>3 DEF PostedAndOut
  <2> QED
    BY <2>1, <2>2
<1>5. ASSUME NEW r
      PROVE  IsOut(r)' <=> IsOut(r) \/ (kind = "reply" /\ on = r)
  <2>1. ASSUME IsOut(r) PROVE IsOut(r)'
    <3>1. PICK n \in DOMAIN requests : IsReply(n) /\ requests[n].on = r
      BY <2>1 DEF IsOut
    <3>2. n \in DOMAIN requests' /\ IsReply(n)' /\ requests'[n].on = r
      BY <1>0, <3>1 DEF Same, IsReply
    <3> QED
      BY <3>2 DEF IsOut
  <2>2. ASSUME IsOut(r)', kind # "reply" \/ on # r PROVE IsOut(r)
    <3>1. PICK n \in DOMAIN requests' : IsReply(n)' /\ requests'[n].on = r
      BY <2>2 DEF IsOut
    <3>2. n # k
      BY <1>0, <2>2, <3>1 DEF IsReply
    <3>3. n \in DOMAIN requests /\ IsReply(n) /\ requests[n].on = r
      BY <1>0, <3>1, <3>2 DEF Same, IsReply
    <3> QED
      BY <3>3 DEF IsOut
  <2>3. ASSUME kind = "reply", on = r PROVE IsOut(r)'
    BY <1>0, <2>3 DEF IsOut, IsReply
  <2> QED
    BY <2>1, <2>2, <2>3
<1>6. /\ kind # "resolve" => ((\A n \in DOMAIN requests' : ~IsResolve(n)') =>
                                \A n \in DOMAIN requests : ~IsResolve(n))
      /\ kind # "react" => ((\A n \in DOMAIN requests' : ~IsReact(n)') =>
                              \A n \in DOMAIN requests : ~IsReact(n))
      /\ kind = "resolve" => \E n \in DOMAIN requests' : IsResolve(n)'
      /\ kind = "react" => \E n \in DOMAIN requests' : IsReact(n)'
  BY <1>0 DEF Same, IsResolve, IsReact
<1>7. CASE kind = "reply"
  <2>1. on \in Replies /\ shown' = WithReply(shown, on)
    BY <1>7 DEF IsOf, Optimistic
  <2>2. /\ shown'.copies = shown.copies /\ shown'.resolved = shown.resolved
        /\ shown'.hearts = shown.hearts /\ shown'.pending = shown.pending \cup {on}
        /\ shown'.authors = shown.authors \cup {<<on, "pending">>}
    BY <1>3, <2>1, WithReplyIs
  <2>3. ShowsResolution' /\ ShowsReactions'
    BY <1>2, <1>6, <1>7, <2>2 DEF ShowsResolution, ShowsReactions
  <2>4. ShowsPosted' /\ ShowsPending'
    BY <1>2, <1>4, <1>5, <1>7, <2>2 DEF ShowsPosted, ShowsPending
  <2>5. ShowsAuthors'
    BY <1>2, <2>2 DEF ShowsAuthors
  <2> QED
    BY <2>3, <2>4, <2>5
<1>8. CASE kind = "resolve"
  <2>1. on \in BOOLEAN /\ shown' = [shown EXCEPT !.resolved = on]
    BY <1>8 DEF IsOf, Optimistic
  <2>2. /\ shown'.copies = shown.copies /\ shown'.hearts = shown.hearts
        /\ shown'.pending = shown.pending /\ shown'.authors = shown.authors
    BY <1>3, <2>1, ResolvedIs
  <2>3. ShowsResolution' /\ ShowsReactions'
    BY <1>2, <1>6, <1>8, <2>2 DEF ShowsResolution, ShowsReactions
  <2>4. ShowsPosted' /\ ShowsPending' /\ ShowsAuthors'
    BY <1>2, <1>4, <1>5, <1>8, <2>2 DEF ShowsPosted, ShowsPending, ShowsAuthors
  <2> QED
    BY <2>3, <2>4
<1>9. CASE kind = "react"
  <2>1. shown.hearts + 1 \in Nat /\ shown' = [shown EXCEPT !.hearts = shown.hearts + 1]
    BY <1>3, <1>9 DEF Shots, Optimistic
  <2>2. /\ shown'.copies = shown.copies /\ shown'.resolved = shown.resolved
        /\ shown'.pending = shown.pending /\ shown'.authors = shown.authors
    BY <1>3, <2>1, HeartsAre
  <2>3. ShowsResolution' /\ ShowsReactions'
    BY <1>2, <1>6, <1>9, <2>2 DEF ShowsResolution, ShowsReactions
  <2>4. ShowsPosted' /\ ShowsPending' /\ ShowsAuthors'
    BY <1>2, <1>4, <1>5, <1>9, <2>2 DEF ShowsPosted, ShowsPending, ShowsAuthors
  <2> QED
    BY <2>3, <2>4
<1> QED
  BY <1>7, <1>8, <1>9

LEMMA MutateKeepsThread ==
  ASSUME CacheTyped, ThreadParts, NEW kind \in {"reply", "resolve", "react"}, NEW on,
         IsOf(kind, on), Mutate(kind, on), TextInOnePlace'
  PROVE  ThreadParts'
<1>1. PICK k \in Nat : Goes(kind, on, k)
  BY MutateSends
<1>2. github' = github /\ tangled' = tangled /\ shown' = Optimistic(shown, kind, on)
  BY DEF Mutate, daemon
<1>3. WritesInOrder'
  BY <1>1, <1>2, MutateKeepsOrder
<1>4. LoneWrite'
  BY <1>1, <1>2, MutateKeepsLoneWrite
<1>5. LoneSync'
  BY MutateSends DEF LoneSync
<1>6. ShownIsThread'
  BY <1>1, <1>2, MutateKeepsShown
<1> QED
  BY <1>3, <1>4, <1>5, <1>6 DEF ThreadParts

LEMMA ReplyKeepsPlaces ==
  ASSUME ClientAssumption, CacheTyped, ThreadParts, Reply
  PROVE  TextInOnePlace'
<1>1. /\ box \in Replies /\ Mutate("reply", box) /\ IsOf("reply", box)
      /\ box' = Nothing /\ written' = written
  BY ReplyMutates
<1>2. "reply" \in {"reply", "resolve", "react"}
  OBVIOUS
<1>3. PICK k \in Nat : Goes("reply", box, k)
  BY <1>1, <1>2, MutateSends
<1>4. /\ \A n \in DOMAIN requests' : n # k =>
           n \in DOMAIN requests /\ Same(requests[n], requests'[n])
      /\ requests'[k].kind = "reply" /\ requests'[k].on = box /\ requests'[k].outcome = "out"
  BY <1>2, <1>3, GoesIs
<1>5. github' = github /\ box # Nothing
  BY <1>1 DEF Reply, Mutate, daemon
<1>6. ASSUME NEW n \in DOMAIN requests', IsReply(n)', n # k
      PROVE  /\ n \in DOMAIN requests /\ IsReply(n) /\ requests'[n].on = requests[n].on
             /\ requests'[n].on # box
             /\ HasLanded(requests'[n]) <=> HasLanded(requests[n])
  BY <1>4, <1>6 DEF IsReply, Same, HasLanded, ThreadParts, TextInOnePlace
<1>7. box \in written
  BY <1>5 DEF ThreadParts, TextInOnePlace
<1>8. ASSUME NEW n \in DOMAIN requests', IsReply(n)'
      PROVE  /\ requests'[n].on \in written' /\ box' # requests'[n].on
             /\ \A m \in DOMAIN requests' : IsReply(m)' /\ requests'[m].on = requests'[n].on => m = n
             /\ HasLanded(requests'[n]) => github'.posted[requests'[n].on] > 0
  <2>1. CASE n = k
    BY <1>1, <1>4, <1>5, <1>6, <1>7, <2>1 DEF HasLanded
  <2>2. CASE n # k
    <3>1. /\ n \in DOMAIN requests /\ IsReply(n) /\ requests'[n].on = requests[n].on
          /\ requests'[n].on # box
          /\ HasLanded(requests'[n]) <=> HasLanded(requests[n])
      BY <1>6, <1>8, <2>2
    <3>2. requests[n].on \in written /\ requests[n].on # Nothing
      BY <3>1 DEF ThreadParts, TextInOnePlace, CacheTyped, ClientAssumption
    <3>3. \A m \in DOMAIN requests' : IsReply(m)' /\ requests'[m].on = requests'[n].on => m = n
      BY <1>4, <1>6, <3>1 DEF ThreadParts, TextInOnePlace
    <3> QED
      BY <1>1, <1>5, <3>1, <3>2, <3>3 DEF ThreadParts, TextInOnePlace
  <2> QED
    BY <2>1, <2>2
<1> QED
  BY <1>1, <1>8 DEF TextInOnePlace

(* What a sync and a reload do. *)
LEMMA TypingKeepsThread ==
  ASSUME ClientAssumption, CacheTyped, ThreadParts, NEW r \in Replies, TypeReply(r)
  PROVE  ThreadParts'
<1>1. /\ requests' = requests /\ github' = github /\ shown' = shown /\ tangled' = tangled
      /\ sync' = sync /\ box' = r /\ written' = written \cup {r} /\ r \notin written
  BY DEF TypeReply, daemon
<1>2. ThreadKept /\ UncrossedKept
  BY <1>1, ThreadKeptIf
<1>3. WritesInOrder' /\ LoneWrite' /\ LoneSync' /\ ShownIsThread'
  BY <1>1, <1>2, OrderKept, LoneWriteKept, LoneSyncKept, ShownKept DEF ThreadParts
<1>4. TextInOnePlace'
  BY <1>1 DEF ThreadParts, TextInOnePlace, IsReply
<1> QED
  BY <1>3, <1>4 DEF ThreadParts

LEMMA StartSyncKeepsThread ==
  ASSUME CacheTyped, ThreadParts, StartSync
  PROVE  ThreadParts'
<1>1. /\ requests' = requests /\ github' = github /\ shown' = shown /\ tangled' = tangled
      /\ box' = box /\ written' = written
  BY DEF StartSync, daemon
<1>2. ThreadKept /\ UncrossedKept
  BY <1>1, ThreadKeptIf
<1>3. TextInOnePlace' /\ WritesInOrder' /\ LoneWrite' /\ ShownIsThread'
  BY <1>1, <1>2, PlacesKept, RepliesKept, OrderKept, LoneWriteKept, ShownKept DEF ThreadParts
<1>4. PICK b \in BOOLEAN : b = \E n \in DOMAIN requests : OnThread(requests[n])
  OBVIOUS
<1>5. sync' = [read |-> Nothing, crossed |-> b]
  BY <1>4 DEF StartSync
<1>6. LoneSync'
  BY <1>1, <1>4, <1>5 DEF LoneSync, NoneOfThread, OfThread
<1> QED
  BY <1>3, <1>6 DEF ThreadParts

LEMMA ReadGithubKeepsThread ==
  ASSUME CacheTyped, ThreadParts, ReadGithub
  PROVE  ThreadParts'
<1>1. /\ requests' = requests /\ github' = github /\ shown' = shown /\ tangled' = tangled
      /\ box' = box /\ written' = written
  BY DEF ReadGithub
<1>2. ThreadKept /\ UncrossedKept
  BY <1>1, ThreadKeptIf
<1>3. TextInOnePlace' /\ WritesInOrder' /\ LoneWrite' /\ ShownIsThread'
  BY <1>1, <1>2, PlacesKept, RepliesKept, OrderKept, LoneWriteKept, ShownKept DEF ThreadParts
<1>4. PICK s : s = SnapshotOf(github, pullSyncs)
  OBVIOUS
<1>5. s.version = pullSyncs
  BY <1>4, SnapshotIs DEF CacheTyped
<1>6. sync' = [sync EXCEPT !.read = s] /\ sync # Nothing
  BY <1>4 DEF ReadGithub
<1>7. sync'.read = s /\ sync'.crossed = sync.crossed
  BY <1>6 DEF CacheTyped, SyncType
<1>8. (Faithful(sync.read))'
  BY <1>1, <1>4, <1>5, <1>7 DEF Faithful
<1>9. LoneSync'
  BY <1>1, <1>6, <1>7, <1>8 DEF ThreadParts, LoneSync, NoneOfThread, OfThread
<1> QED
  BY <1>3, <1>9 DEF ThreadParts

LEMMA FailSyncKeepsThread ==
  ASSUME CacheTyped, ThreadParts, FailSync
  PROVE  ThreadParts'
<1>1. /\ requests' = requests /\ github' = github /\ shown' = shown /\ tangled' = tangled
      /\ box' = box /\ written' = written /\ sync' = Nothing
  BY DEF FailSync, daemon
<1>2. ThreadKept /\ UncrossedKept
  BY <1>1, ThreadKeptIf
<1>3. TextInOnePlace' /\ WritesInOrder' /\ LoneWrite' /\ ShownIsThread'
  BY <1>1, <1>2, PlacesKept, RepliesKept, OrderKept, LoneWriteKept, ShownKept DEF ThreadParts
<1>4. LoneSync'
  BY <1>1 DEF LoneSync
<1> QED
  BY <1>3, <1>4 DEF ThreadParts

LEMMA LandSyncKeepsThread ==
  ASSUME CacheTyped, CacheTyped', ThreadParts, LandSync
  PROVE  ThreadParts'
<1>1. /\ github' = github /\ tangled' = sync.crossed /\ shown' = sync.read
      /\ box' = box /\ written' = written /\ sync' = Nothing
      /\ sync # Nothing /\ sync.read # Nothing
  BY DEF LandSync, daemon
<1>2. /\ ThreadKept
      /\ \A n \in DOMAIN requests' : OfThread(n)' => requests'[n].crossed # FALSE
  BY LandSyncRereads, CrossingKeeps
<1>3. TextInOnePlace' /\ WritesInOrder'
  BY <1>1, <1>2, PlacesKept, RepliesKept, OrderKept DEF ThreadParts
<1>4. LoneWrite'
  BY <1>2 DEF LoneWrite
<1>5. LoneSync'
  BY <1>1 DEF LoneSync
<1>6. CASE sync.crossed = FALSE
  <2>1. NoneOfThread /\ Faithful(sync.read)
    BY <1>1, <1>6 DEF ThreadParts, LoneSync
  <2>2. NoneOfThread' /\ Faithful(shown)'
    BY <1>1, <1>2, <2>1 DEF NoneOfThread, ThreadKept, Faithful
  <2>3. ShownIsThread'
    BY <2>2, FaithfulIsShown
  <2> QED
    BY <1>3, <1>4, <1>5, <2>3 DEF ThreadParts
<1>7. CASE sync.crossed # FALSE
  <2>1. ShownIsThread'
    BY <1>1, <1>7 DEF ShownIsThread
  <2> QED
    BY <1>3, <1>4, <1>5, <2>1 DEF ThreadParts
<1> QED
  BY <1>6, <1>7

LEMMA ReloadKeepsThread ==
  ASSUME CacheTyped, ThreadParts, Reload
  PROVE  ThreadParts'
<1>1. /\ github' = github /\ tangled' = TRUE /\ box' = box /\ written' = written /\ sync' = sync
  BY DEF Reload, daemon
<1>2. /\ ThreadKept
      /\ \A n \in DOMAIN requests' : OfThread(n)' => requests'[n].crossed # FALSE
  BY ReloadRereads, CrossingKeeps DEF Rereads
<1>3. TextInOnePlace' /\ WritesInOrder' /\ LoneSync'
  BY <1>1, <1>2, PlacesKept, RepliesKept, OrderKept, LoneSyncKept DEF ThreadParts
<1>4. LoneWrite'
  BY <1>2 DEF LoneWrite
<1>5. ShownIsThread'
  BY <1>1 DEF ShownIsThread
<1> QED
  BY <1>3, <1>4, <1>5 DEF ThreadParts

-----------------------------------------------------------------------------
(* A write is answered. *)

\* What an answer leaves of the other requests, and of this one.
LEMMA AnswersIs ==
  ASSUME CacheTyped, NEW i \in DOMAIN requests, NEW outcome, Answers(i, outcome)
  PROVE  /\ DOMAIN requests' = DOMAIN requests /\ DOMAIN requests \subseteq Nat
         /\ \A n \in DOMAIN requests :
              /\ (IsReply(n)' <=> IsReply(n)) /\ (IsResolve(n)' <=> IsResolve(n))
              /\ (IsReact(n)' <=> IsReact(n)) /\ (OfThread(n)' <=> OfThread(n))
              /\ requests'[n].on = requests[n].on /\ requests'[n].previous = requests[n].previous
              /\ requests'[n].crossed = requests[n].crossed
              /\ n # i => requests'[n].outcome = requests[n].outcome
         /\ requests'[i].outcome = outcome
BY DEF Answers, IsReply, IsResolve, IsReact, OfThread, OnThread, CacheTyped, AreRequests

LEMMA AnswerKeepsPlaces ==
  ASSUME CacheTyped, ThreadParts, NEW i \in DOMAIN requests, NEW outcome, Answers(i, outcome),
         IsReply(i) /\ outcome \in {"done", "lost"} => github'.posted[requests[i].on] > 0,
         \A r \in Replies : github.posted[r] > 0 => github'.posted[r] > 0,
         box' = box, written' = written
  PROVE  TextInOnePlace'
<1>0. /\ DOMAIN requests' = DOMAIN requests
      /\ \A n \in DOMAIN requests :
              /\ (IsReply(n)' <=> IsReply(n)) /\ requests'[n].on = requests[n].on
              /\ n # i => requests'[n].outcome = requests[n].outcome
      /\ requests'[i].outcome = outcome
  BY AnswersIs
<1>1. ASSUME NEW n \in DOMAIN requests, IsReply(n), HasLanded(requests'[n])
      PROVE  github'.posted[requests[n].on] > 0
  <2>1. CASE n = i
    BY <1>0, <1>1, <2>1 DEF HasLanded
  <2>2. CASE n # i
    <3>1. HasLanded(requests[n])
      BY <1>0, <1>1, <2>2 DEF HasLanded
    <3>2. github.posted[requests[n].on] > 0 /\ requests[n].on \in Replies
      BY <1>1, <3>1 DEF ThreadParts, TextInOnePlace, CacheTyped
    <3> QED
      BY <3>2
  <2> QED
    BY <2>1, <2>2
<1> QED
  BY <1>0, <1>1 DEF ThreadParts, TextInOnePlace

LEMMA AnswerKeepsResolves ==
  ASSUME CacheTyped, ThreadParts, NEW i \in DOMAIN requests, NEW outcome, Answers(i, outcome),
         outcome # "out", ServedBefore(i) \/ requests[i].outcome # "out"
  PROVE  ResolvesInOrder'
<1>0. /\ DOMAIN requests' = DOMAIN requests /\ DOMAIN requests \subseteq Nat
      /\ \A n \in DOMAIN requests :
              /\ (IsResolve(n)' <=> IsResolve(n))
              /\ n # i => requests'[n].outcome = requests[n].outcome
      /\ requests'[i].outcome = outcome
  BY AnswersIs
<1>1. ASSUME NEW m \in DOMAIN requests, NEW n \in DOMAIN requests, m < n,
             IsResolve(m), IsResolve(n), requests'[n].outcome # "out"
      PROVE  requests'[m].outcome # "out"
  <2>1. CASE m = i
    BY <1>0, <2>1
  <2>2. CASE n = i /\ ServedBefore(i)
    <3>1. requests[m].outcome # "out" /\ m # i
      BY <1>0, <1>1, <2>2 DEF ServedBefore, Subject, IsResolve, OnThread
    <3> QED
      BY <1>0, <3>1
  <2>3. CASE m # i /\ requests[n].outcome # "out"
    BY <1>0, <1>1, <2>3 DEF ThreadParts, WritesInOrder, ResolvesInOrder
  <2> QED
    BY <1>0, <1>1, <2>1, <2>2, <2>3
<1> QED
  BY <1>0, <1>1 DEF ResolvesInOrder

\* A write on the thread is out, so that no sync is uncrossed.
LEMMA OutIsCrossed ==
  ASSUME ThreadParts, NEW i \in DOMAIN requests, OfThread(i), sync # Nothing
  PROVE  sync.crossed # FALSE
BY DEF ThreadParts, LoneSync, NoneOfThread

(* A refusal, or a lost answer: GitHub is as it was. *)
LEMMA NoAnswerKeepsThread ==
  ASSUME CacheTyped, ThreadParts, NEW i \in DOMAIN requests, OfThread(i),
         NEW outcome, Answers(i, outcome), outcome # "out",
         ServedBefore(i) \/ requests[i].outcome # "out",
         HasLanded(requests[i]) <=> outcome \in {"done", "lost"},
         github' = github, shown' = shown, tangled' = tangled, sync' = sync, box' = box,
         written' = written
  PROVE  ThreadParts'
<1>0. /\ DOMAIN requests' = DOMAIN requests /\ DOMAIN requests \subseteq Nat
      /\ \A n \in DOMAIN requests :
              /\ (IsReply(n)' <=> IsReply(n)) /\ (IsResolve(n)' <=> IsResolve(n))
              /\ (IsReact(n)' <=> IsReact(n)) /\ (OfThread(n)' <=> OfThread(n))
              /\ requests'[n].on = requests[n].on /\ requests'[n].previous = requests[n].previous
              /\ requests'[n].crossed = requests[n].crossed
              /\ n # i => requests'[n].outcome = requests[n].outcome
      /\ requests'[i].outcome = outcome
  BY AnswersIs
<1>1. \A n \in DOMAIN requests : HasLanded(requests'[n]) <=> HasLanded(requests[n])
  BY <1>0 DEF HasLanded
<1>2. TextInOnePlace'
  <2>1. IsReply(i) /\ outcome \in {"done", "lost"} => github'.posted[requests[i].on] > 0
    BY DEF ThreadParts, TextInOnePlace
  <2>2. \A r \in Replies : github.posted[r] > 0 => github'.posted[r] > 0
    OBVIOUS
  <2> QED
    BY <2>1, <2>2, AnswerKeepsPlaces
<1>3. ResolvesInOrder'
  BY AnswerKeepsResolves
<1>4. LastResolveStands' /\ ReactsLand'
  BY <1>0, <1>1 DEF ThreadParts, WritesInOrder, LastResolveStands, ReactsLand
<1>5. ASSUME NEW n \in DOMAIN requests', OfThread(n)', requests'[n].crossed = FALSE
      PROVE  /\ \A m \in DOMAIN requests' : OfThread(m)' => m = n
             /\ (tangled = FALSE /\ ~HasLanded(requests[n]) => Faithful(requests[n].previous))'
  <2>1. n \in DOMAIN requests /\ OfThread(n) /\ requests[n].crossed = FALSE
    BY <1>0, <1>5
  <2>2. \A m \in DOMAIN requests' : OfThread(m)' => m = n
    BY <1>0, <2>1 DEF ThreadParts, LoneWrite
  <2>3. tangled = FALSE /\ ~HasLanded(requests[n]) => Faithful(requests[n].previous)
    BY <2>1 DEF ThreadParts, LoneWrite
  <2>4. requests'[n].previous = requests[n].previous
    BY <1>0, <2>1
  <2> QED
    BY <1>1, <2>1, <2>2, <2>3, <2>4 DEF Faithful
<1>6. LoneWrite'
  BY <1>5 DEF LoneWrite
<1>7. LoneSync'
  BY OutIsCrossed DEF LoneSync
<1>8. ShownIsThread'
  <2>1. ASSUME NEW r
        PROVE  (PostedAndOut(r)' <=> PostedAndOut(r)) /\ (IsOut(r)' <=> IsOut(r))
    BY <1>0, <1>1 DEF PostedAndOut, IsOut
  <2>2. SUFFICES ASSUME tangled = FALSE
        PROVE  /\ ShowsResolution' /\ ShowsReactions' /\ ShowsPosted'
               /\ ShowsPending' /\ ShowsAuthors'
    BY DEF ShownIsThread
  <2>3. /\ ShowsResolution /\ ShowsReactions /\ ShowsPosted /\ ShowsPending /\ ShowsAuthors
    BY <2>2 DEF ThreadParts, ShownIsThread
  <2>4. ShowsResolution' /\ ShowsReactions'
    BY <1>0, <2>3 DEF ShowsResolution, ShowsReactions
  <2>5. ShowsPosted' /\ ShowsPending' /\ ShowsAuthors'
    BY <2>1, <2>3 DEF ShowsPosted, ShowsPending, ShowsAuthors
  <2> QED
    BY <2>4, <2>5
<1> QED
  BY <1>2, <1>3, <1>4, <1>6, <1>7, <1>8 DEF ThreadParts, WritesInOrder

(* GitHub takes it. *)
LEMMA ServeKeepsThread ==
  ASSUME AnsweredInOrder, CacheTyped, ThreadParts, NEW i \in DOMAIN requests, OfThread(i), Serve(i)
  PROVE  ThreadParts'
<1>0. PICK q : q = requests[i]
  OBVIOUS
<1>1. /\ Answers(i, "done") /\ q.outcome = "out" /\ ServedBefore(i) /\ IsRequest(q)
      /\ github' = Landed(q) /\ github \in Threads
      /\ shown' = shown /\ tangled' = tangled /\ sync' = sync /\ box' = box /\ written' = written
  BY <1>0, ServeAnswers DEF Serve, CacheTyped, AreRequests
<1>2. /\ DOMAIN requests' = DOMAIN requests /\ DOMAIN requests \subseteq Nat
      /\ \A n \in DOMAIN requests :
              /\ (IsReply(n)' <=> IsReply(n)) /\ (IsResolve(n)' <=> IsResolve(n))
              /\ (IsReact(n)' <=> IsReact(n)) /\ (OfThread(n)' <=> OfThread(n))
              /\ requests'[n].on = requests[n].on /\ requests'[n].previous = requests[n].previous
              /\ requests'[n].crossed = requests[n].crossed
              /\ n # i => requests'[n].outcome = requests[n].outcome
      /\ requests'[i].outcome = "done"
  BY <1>1, AnswersIs
<1>3. /\ IsReply(i) => /\ github'.posted = [github.posted EXCEPT ![q.on] = @ + 1]
                       /\ github'.resolved = github.resolved /\ github'.hearts = github.hearts
                       /\ q.on \in Replies
      /\ IsResolve(i) => /\ github'.posted = github.posted /\ github'.resolved = q.on
                         /\ github'.hearts = github.hearts
      /\ IsReact(i) => /\ github'.posted = github.posted /\ github'.resolved = github.resolved
                       /\ github'.hearts = 1
  BY <1>0, <1>1, LandedIs DEF IsReply, IsResolve, IsReact, IsRequest
<1>4. IsReply(i) \/ IsResolve(i) \/ IsReact(i)
  BY OfThreadIs
<1>5. github.posted \in [Replies -> Nat] /\ shown.copies \in [Replies -> Nat]
  BY DEF CacheTyped, Threads, Shots
<1>6. \A r \in Replies : github.posted[r] > 0 => github'.posted[r] > 0
  BY <1>3, <1>4, <1>5
<1>7. IsReply(i) => github'.posted[requests[i].on] > 0
  BY <1>0, <1>3, <1>5
<1>8. TextInOnePlace'
  BY <1>1, <1>6, <1>7, AnswerKeepsPlaces
<1>9. ResolvesInOrder'
  <2>1. "done" # "out" /\ (ServedBefore(i) \/ requests[i].outcome # "out")
    BY <1>1
  <2> QED
    BY <1>1, <2>1, AnswerKeepsResolves
<1>10. ASSUME NEW n \in DOMAIN requests', IsResolve(n)', HasLanded(requests'[n])
       PROVE  \/ requests'[n].on = github'.resolved
              \/ \E m \in DOMAIN requests' : m > n /\ IsResolve(m)' /\ HasLanded(requests'[m])
  <2>1. CASE n = i
    BY <1>0, <1>2, <1>3, <1>10, <2>1
  <2>2. CASE n # i
    <3>1. n \in DOMAIN requests /\ IsResolve(n) /\ HasLanded(requests[n])
      BY <1>2, <1>10, <2>2 DEF HasLanded
    <3>2. CASE IsResolve(i)
      <4>1. ~(i < n)
        BY <1>0, <1>1, <3>1, <3>2 DEF ThreadParts, WritesInOrder, ResolvesInOrder, HasLanded
      <4>2. i > n
        BY <1>2, <2>2, <3>1, <4>1
      <4> QED
        BY <1>2, <3>2, <4>2 DEF HasLanded
    <3>3. CASE ~IsResolve(i)
      <4>1. github'.resolved = github.resolved
        BY <1>3, <1>4, <3>3
      <4>2. ASSUME NEW m \in DOMAIN requests, m > n, IsResolve(m), HasLanded(requests[m])
            PROVE  m \in DOMAIN requests' /\ IsResolve(m)' /\ HasLanded(requests'[m])
        BY <1>2, <3>3, <4>2 DEF HasLanded
      <4> QED
        BY <1>2, <3>1, <4>1, <4>2 DEF ThreadParts, WritesInOrder, LastResolveStands
    <3> QED
      BY <3>2, <3>3
  <2> QED
    BY <2>1, <2>2
<1>11. LastResolveStands'
  BY <1>10 DEF LastResolveStands
<1>12. ASSUME NEW n \in DOMAIN requests', IsReact(n)', HasLanded(requests'[n])
       PROVE  github'.hearts = 1
  <2>1. CASE IsReact(i)
    BY <1>3, <2>1
  <2>2. CASE ~IsReact(i)
    <3>1. n # i /\ IsReact(n) /\ n \in DOMAIN requests /\ HasLanded(requests[n])
      BY <1>2, <1>12, <2>2 DEF HasLanded
    <3> QED
      BY <1>3, <1>4, <2>2, <3>1 DEF ThreadParts, WritesInOrder, ReactsLand
  <2> QED
    BY <2>1, <2>2
<1>13. ReactsLand'
  BY <1>12 DEF ReactsLand
<1>14. ASSUME NEW n \in DOMAIN requests', OfThread(n)', requests'[n].crossed = FALSE
       PROVE  /\ \A m \in DOMAIN requests' : OfThread(m)' => m = n
              /\ HasLanded(requests'[n])
  <2>1. n \in DOMAIN requests /\ OfThread(n) /\ requests[n].crossed = FALSE
    BY <1>2, <1>14
  <2>2. \A m \in DOMAIN requests : OfThread(m) => m = n
    BY <2>1 DEF ThreadParts, LoneWrite
  <2> QED
    BY <1>2, <2>2 DEF HasLanded
<1>15. LoneWrite'
  BY <1>14 DEF LoneWrite
<1>16. LoneSync'
  BY <1>1, OutIsCrossed DEF LoneSync
<1>17. ShownIsThread'
  <2>1. SUFFICES ASSUME tangled = FALSE
        PROVE  /\ ShowsResolution' /\ ShowsReactions' /\ ShowsPosted'
               /\ ShowsPending' /\ ShowsAuthors'
    BY <1>1 DEF ShownIsThread
  <2>2. /\ ShowsResolution /\ ShowsReactions /\ ShowsPosted /\ ShowsPending /\ ShowsAuthors
    BY <2>1 DEF ThreadParts, ShownIsThread
  <2>3. ShowsResolution' /\ ShowsReactions'
    BY <1>1, <1>2, <1>3, <1>4, <2>2 DEF ShowsResolution, ShowsReactions
  <2>4. \A r : IsOut(r)' <=> IsOut(r)
    BY <1>2 DEF IsOut
  <2>5. ShowsPending' /\ ShowsAuthors'
    BY <1>1, <2>2, <2>4 DEF ShowsPending, ShowsAuthors
  <2>6. ASSUME NEW r, ~(IsReply(i) /\ q.on = r)
        PROVE  PostedAndOut(r)' <=> PostedAndOut(r)
    <3>1. \A n \in DOMAIN requests : IsReply(n) /\ requests[n].on = r => n # i
      BY <1>0, <2>6
    <3> QED
      BY <1>2, <3>1 DEF PostedAndOut, HasLanded
  <2>7. ASSUME NEW r \in Replies
        PROVE  /\ (PostedAndOut(r) => github.posted[r] = shown.copies[r] + 1)'
               /\ (~PostedAndOut(r) => github.posted[r] = shown.copies[r])'
    <3>1. CASE IsReply(i) /\ q.on = r
      <4>1. PostedAndOut(r)'
        BY <1>0, <1>2, <3>1 DEF PostedAndOut, HasLanded
      <4>2. ~PostedAndOut(r)
        BY <1>0, <1>1, <3>1 DEF PostedAndOut, HasLanded, ThreadParts, TextInOnePlace
      <4>3. github'.posted[r] = github.posted[r] + 1
        BY <1>3, <1>5, <3>1
      <4> QED
        BY <1>1, <2>2, <4>1, <4>2, <4>3 DEF ShowsPosted
    <3>2. CASE ~(IsReply(i) /\ q.on = r)
      <4>1. github'.posted[r] = github.posted[r]
        BY <1>3, <1>4, <1>5, <3>2
      <4> QED
        BY <1>1, <2>2, <2>6, <3>2, <4>1 DEF ShowsPosted
    <3> QED
      BY <3>1, <3>2
  <2> QED
    BY <2>3, <2>5, <2>7 DEF ShowsPosted
<1> QED
  BY <1>8, <1>9, <1>11, <1>13, <1>15, <1>16, <1>17 DEF ThreadParts, WritesInOrder

(* A write is settled. *)
LEMMA SettlesIs ==
  ASSUME NEW i \in DOMAIN requests, Settles(i)
  PROVE  /\ \A n \in DOMAIN requests' :
              /\ n \in DOMAIN requests /\ n # i /\ requests'[n] = requests[n]
              /\ (IsReply(n)' <=> IsReply(n)) /\ (IsResolve(n)' <=> IsResolve(n))
              /\ (IsReact(n)' <=> IsReact(n)) /\ (OfThread(n)' <=> OfThread(n))
         /\ \A n \in DOMAIN requests : n # i => n \in DOMAIN requests'
BY DEF Settles, IsReply, IsResolve, IsReact, OfThread

LEMMA EndKeepsOrder ==
  ASSUME CacheTyped, ThreadParts, NEW i \in DOMAIN requests, OfThread(i), SettledBefore(i),
         Settles(i), github' = github, sync' = sync
  PROVE  WritesInOrder' /\ LoneWrite' /\ LoneSync'
<1>0. /\ \A n \in DOMAIN requests' :
              /\ n \in DOMAIN requests /\ n # i /\ requests'[n] = requests[n]
              /\ (IsReply(n)' <=> IsReply(n)) /\ (IsResolve(n)' <=> IsResolve(n))
              /\ (IsReact(n)' <=> IsReact(n)) /\ (OfThread(n)' <=> OfThread(n))
      /\ \A n \in DOMAIN requests : n # i => n \in DOMAIN requests'
  BY SettlesIs
<1>1. ResolvesInOrder' /\ ReactsLand'
  BY <1>0 DEF ThreadParts, WritesInOrder, ResolvesInOrder, ReactsLand
<1>2. ASSUME NEW n \in DOMAIN requests', IsResolve(n)', HasLanded(requests'[n])
      PROVE  \/ requests'[n].on = github'.resolved
             \/ \E m \in DOMAIN requests' : m > n /\ IsResolve(m)' /\ HasLanded(requests'[m])
  <2>1. /\ n \in DOMAIN requests /\ n # i /\ IsResolve(n) /\ HasLanded(requests[n])
        /\ requests'[n].on = requests[n].on
    BY <1>0, <1>2
  <2>2. ASSUME NEW m \in DOMAIN requests, m > n, IsResolve(m), HasLanded(requests[m])
        PROVE  m \in DOMAIN requests' /\ IsResolve(m)' /\ HasLanded(requests'[m])
    <3>1. m # i
      <4> SUFFICES ASSUME m = i PROVE FALSE
        OBVIOUS
      <4>1. n < i
        BY <2>1, <2>2 DEF CacheTyped, AreRequests
      <4> QED
        BY <2>1, <2>2, <4>1 DEF SettledBefore, Subject, IsResolve, OnThread
    <3>2. m \in DOMAIN requests'
      BY <1>0, <3>1
    <3> QED
      BY <1>0, <2>2, <3>2
  <2> QED
    BY <2>1, <2>2 DEF ThreadParts, WritesInOrder, LastResolveStands
<1>3. LastResolveStands'
  BY <1>2 DEF LastResolveStands
<1>4. ASSUME NEW n \in DOMAIN requests', OfThread(n)'
      PROVE  requests'[n].crossed # FALSE
  BY <1>0, <1>4 DEF ThreadParts, LoneWrite
<1>5. LoneWrite'
  BY <1>4 DEF LoneWrite
<1>6. LoneSync'
  BY OutIsCrossed DEF LoneSync
<1> QED
  BY <1>1, <1>3, <1>5, <1>6 DEF WritesInOrder

LEMMA SucceedKeepsThread ==
  ASSUME AnsweredInOrder, CacheTyped, ThreadParts, NEW i \in DOMAIN requests, Succeed(i)
  PROVE  ThreadParts'
<1>0. PICK q : q = requests[i]
  OBVIOUS
<1>1. /\ OfThread(i) /\ SettledBefore(i) /\ Settles(i) /\ shown' = Confirmed(shown, q)
      /\ github' = github /\ tangled' = tangled /\ sync' = sync /\ box' = box /\ written' = written
  BY <1>0, WithoutSettles DEF Succeed, Arrives, OfThread, daemon
<1>2. IsRequest(q) /\ OnThread(q) /\ q.outcome = "done" /\ shown \in Shots
  BY <1>0 DEF Succeed, Arrives, Failed, CacheTyped, AreRequests, IsRequest
<1>3. /\ \A n \in DOMAIN requests' :
              /\ n \in DOMAIN requests /\ n # i /\ requests'[n] = requests[n]
              /\ (IsReply(n)' <=> IsReply(n)) /\ (IsResolve(n)' <=> IsResolve(n))
              /\ (IsReact(n)' <=> IsReact(n)) /\ (OfThread(n)' <=> OfThread(n))
      /\ \A n \in DOMAIN requests : n # i => n \in DOMAIN requests'
  BY <1>1, SettlesIs
<1>4. TextInOnePlace'
  BY <1>1, <1>3 DEF ThreadParts, TextInOnePlace
<1>5. WritesInOrder' /\ LoneWrite' /\ LoneSync'
  BY <1>1, EndKeepsOrder
<1>6. ShownIsThread'
  <2>1. SUFFICES ASSUME tangled = FALSE
        PROVE  /\ ShowsResolution' /\ ShowsReactions' /\ ShowsPosted'
               /\ ShowsPending' /\ ShowsAuthors'
    BY <1>1 DEF ShownIsThread
  <2>2. /\ ShowsResolution /\ ShowsReactions /\ ShowsPosted /\ ShowsPending /\ ShowsAuthors
    BY <2>1 DEF ThreadParts, ShownIsThread
  <2>3. ASSUME NEW r, ~(IsReply(i) /\ q.on = r)
        PROVE  (PostedAndOut(r)' <=> PostedAndOut(r)) /\ (IsOut(r)' <=> IsOut(r))
    <3>1. \A n \in DOMAIN requests : IsReply(n) /\ requests[n].on = r => n # i
      BY <1>0, <2>3
    <3> QED
      BY <1>3, <3>1 DEF PostedAndOut, IsOut
  <2>4. CASE IsReply(i)
    <3>1. q.on \in Replies /\ shown' = Swapped(shown, q.on)
      BY <1>0, <1>1, <1>2, <2>4, ConfirmedIs DEF IsReply, IsRequest
    <3>2. /\ shown'.resolved = shown.resolved /\ shown'.hearts = shown.hearts
          /\ shown'.copies = [shown.copies EXCEPT ![q.on] = @ + 1]
          /\ shown'.pending = shown.pending \ {q.on}
          /\ shown'.authors = (shown.authors \ {<<q.on, "pending">>}) \cup {<<q.on, "stored">>}
          /\ shown.copies \in [Replies -> Nat]
      BY <1>2, <3>1, SwappedIs DEF Shots
    <3>3. ShowsResolution' /\ ShowsReactions'
      <4>1. ~IsResolve(i) /\ ~IsReact(i)
        BY <2>4 DEF IsReply, IsResolve, IsReact
      <4> QED
        BY <1>1, <1>3, <2>2, <3>2, <4>1 DEF ShowsResolution, ShowsReactions
    <3>4. ~IsOut(q.on)' /\ ~PostedAndOut(q.on)' /\ PostedAndOut(q.on) /\ IsOut(q.on)
      <4>1. \A n \in DOMAIN requests' : ~(IsReply(n)' /\ requests'[n].on = q.on)
        BY <1>0, <1>3, <2>4 DEF ThreadParts, TextInOnePlace
      <4>2. PostedAndOut(q.on) /\ IsOut(q.on)
        BY <1>0, <1>2, <2>4 DEF PostedAndOut, IsOut, HasLanded
      <4> QED
        BY <4>1, <4>2 DEF PostedAndOut, IsOut
    <3>5. ASSUME NEW r \in Replies
          PROVE  /\ (PostedAndOut(r) => github.posted[r] = shown.copies[r] + 1)'
                 /\ (~PostedAndOut(r) => github.posted[r] = shown.copies[r])'
      <4>1. CASE r = q.on
        BY <1>1, <2>2, <3>2, <3>4, <4>1 DEF ShowsPosted
      <4>2. CASE r # q.on
        BY <1>1, <2>2, <2>3, <3>2, <4>2 DEF ShowsPosted
      <4> QED
        BY <4>1, <4>2
    <3>6. ASSUME NEW r \in Replies
          PROVE  r \in shown'.pending <=> IsOut(r)'
      <4>1. CASE r = q.on
        BY <3>2, <3>4, <4>1
      <4>2. CASE r # q.on
        BY <2>2, <2>3, <3>2, <4>2 DEF ShowsPending
      <4> QED
        BY <4>1, <4>2
    <3>7. ASSUME NEW r \in Replies
          PROVE  /\ <<r, "pending">> \in shown'.authors <=> r \in shown'.pending
                 /\ <<r, "stored">> \in shown'.authors <=> shown'.copies[r] > 0
      <4>1. CASE r = q.on
        <5>1. shown'.copies[r] > 0
          BY <3>2, <4>1
        <5> QED
          BY <3>2, <4>1, <5>1
      <4>2. CASE r # q.on
        <5>1. shown'.copies[r] = shown.copies[r]
          BY <3>2, <4>2
        <5> QED
          BY <2>2, <3>2, <4>2, <5>1 DEF ShowsAuthors
      <4> QED
        BY <4>1, <4>2
    <3> QED
      BY <3>3, <3>5, <3>6, <3>7 DEF ShowsPosted, ShowsPending, ShowsAuthors
  <2>5. CASE IsResolve(i)
    <3>1. q.on \in BOOLEAN /\ shown' = [shown EXCEPT !.resolved = q.on]
      BY <1>0, <1>1, <1>2, <2>5, ConfirmedIs DEF IsResolve, IsRequest
    <3>2. /\ shown'.resolved = q.on /\ shown'.hearts = shown.hearts
          /\ shown'.copies = shown.copies
          /\ shown'.pending = shown.pending /\ shown'.authors = shown.authors
      BY <1>2, <3>1, ResolvedIs
    <3>3. ~IsReply(i) /\ ~IsReact(i)
      BY <2>5 DEF IsReply, IsResolve, IsReact
    <3>4. ShowsReactions'
      BY <1>1, <1>3, <2>2, <3>2, <3>3 DEF ShowsReactions
    <3>5. ShowsResolution'
      <4>1. SUFFICES ASSUME \A n \in DOMAIN requests' : ~IsResolve(n)'
            PROVE  q.on = github.resolved
        BY <1>1, <3>2 DEF ShowsResolution
      <4>2. \A m \in DOMAIN requests : m > i => ~IsResolve(m)
        BY <1>3, <4>1 DEF CacheTyped, AreRequests
      <4> QED
        BY <1>0, <1>2, <2>5, <4>2 DEF ThreadParts, WritesInOrder, LastResolveStands, HasLanded
    <3>6. ShowsPosted' /\ ShowsPending' /\ ShowsAuthors'
      BY <1>1, <2>2, <2>3, <3>2, <3>3 DEF ShowsPosted, ShowsPending, ShowsAuthors
    <3> QED
      BY <3>4, <3>5, <3>6
  <2>6. CASE IsReact(i)
    <3>1. shown' = [shown EXCEPT !.hearts = 1]
      BY <1>0, <1>1, <1>2, <2>6, ConfirmedIs DEF IsReact
    <3>2. /\ shown'.resolved = shown.resolved /\ shown'.hearts = 1
          /\ shown'.copies = shown.copies
          /\ shown'.pending = shown.pending /\ shown'.authors = shown.authors
      BY <1>2, <3>1, HeartsAre
    <3>3. ~IsReply(i) /\ ~IsResolve(i)
      BY <2>6 DEF IsReply, IsResolve, IsReact
    <3>4. github.hearts = 1
      BY <1>0, <1>2, <2>6 DEF ThreadParts, WritesInOrder, ReactsLand, HasLanded
    <3>5. ShowsResolution' /\ ShowsReactions'
      BY <1>1, <1>3, <2>2, <3>2, <3>3, <3>4 DEF ShowsResolution, ShowsReactions
    <3>6. ShowsPosted' /\ ShowsPending' /\ ShowsAuthors'
      BY <1>1, <2>2, <2>3, <3>2, <3>3 DEF ShowsPosted, ShowsPending, ShowsAuthors
    <3> QED
      BY <3>5, <3>6
  <2> QED
    BY <1>1, <2>4, <2>5, <2>6, OfThreadIs
<1> QED
  BY <1>4, <1>5, <1>6 DEF ThreadParts

LEMMA FailKeepsThread ==
  ASSUME AnsweredInOrder, CacheTyped, CacheTyped', ThreadParts, NEW i \in DOMAIN requests, Fail(i)
  PROVE  ThreadParts'
<1>0. PICK q : q = requests[i]
  OBVIOUS
<1>1. /\ OfThread(i) /\ SettledBefore(i) /\ Settles(i) /\ shown' = q.previous
      /\ box' = Refilled(i) /\ tangled' = (tangled \/ q.outcome = "lost" \/ q.crossed)
      /\ github' = github /\ sync' = sync /\ written' = written
  BY <1>0, WithoutSettles DEF Fail, Arrives, OfThread, daemon
<1>2. q.outcome \in {"refused", "lost"} /\ q.crossed \in BOOLEAN /\ tangled \in BOOLEAN
  BY <1>0 DEF Fail, Failed, CacheTyped, AreRequests, IsRequest
<1>3. /\ \A n \in DOMAIN requests' :
              /\ n \in DOMAIN requests /\ n # i /\ requests'[n] = requests[n]
              /\ (IsReply(n)' <=> IsReply(n)) /\ (OfThread(n)' <=> OfThread(n))
      /\ \A n \in DOMAIN requests : n # i => n \in DOMAIN requests'
  BY <1>1, SettlesIs
<1>4. TextInOnePlace'
  <2>1. box' = box \/ (IsReply(i) /\ box' = requests[i].on)
    BY <1>1 DEF Refilled, IsReply
  <2>2. CASE box' = box
    BY <1>1, <1>3, <2>2 DEF ThreadParts, TextInOnePlace
  <2>3. CASE IsReply(i) /\ box' = requests[i].on
    <3>1. \A n \in DOMAIN requests' : IsReply(n)' => requests'[n].on # box'
      BY <1>3, <2>3 DEF ThreadParts, TextInOnePlace
    <3> QED
      BY <1>1, <1>3, <2>3, <3>1 DEF ThreadParts, TextInOnePlace
  <2> QED
    BY <2>1, <2>2, <2>3
<1>5. WritesInOrder' /\ LoneWrite' /\ LoneSync'
  BY <1>1, EndKeepsOrder
<1>6. CASE tangled = FALSE /\ q.outcome = "refused" /\ q.crossed = FALSE
  <2>1. /\ \A m \in DOMAIN requests : OfThread(m) => m = i
        /\ Faithful(q.previous)
    BY <1>0, <1>1, <1>6 DEF ThreadParts, LoneWrite, HasLanded
  <2>2. NoneOfThread'
    BY <1>3, <2>1 DEF NoneOfThread
  <2>3. Faithful(shown)'
    BY <1>1, <2>1 DEF Faithful
  <2>4. ShownIsThread'
    BY <2>2, <2>3, FaithfulIsShown
  <2> QED
    BY <1>4, <1>5, <2>4 DEF ThreadParts
<1>7. CASE ~(tangled = FALSE /\ q.outcome = "refused" /\ q.crossed = FALSE)
  <2>1. tangled' # FALSE
    BY <1>1, <1>2, <1>7
  <2>2. ShownIsThread'
    BY <2>1 DEF ShownIsThread
  <2> QED
    BY <1>4, <1>5, <2>2 DEF ThreadParts
<1> QED
  BY <1>6, <1>7

LEMMA ThreadInitially ==
  ASSUME CacheTyped, CacheInit
  PROVE  ThreadParts
<1>1. /\ \A n \in DOMAIN requests : ~OfThread(n)
      /\ \A n \in DOMAIN requests : ~IsReply(n) /\ ~IsResolve(n) /\ ~IsReact(n)
      /\ \A r : ~PostedAndOut(r) /\ ~IsOut(r)
  <2>1. \A n \in DOMAIN requests : requests[n].kind = "fetch"
    <3>1. CASE requests = EmptyTable
      BY <3>1 DEF EmptyTable
    <3>2. CASE requests = Upsert(EmptyTable, 1, Request("fetch", Nothing, Nothing))
      BY <3>2 DEF EmptyTable, Upsert, Request
    <3> QED
      BY <3>1, <3>2 DEF CacheInit
  <2>2. \A n \in DOMAIN requests : ~OfThread(n)
    BY <2>1 DEF OfThread, OnThread
  <2> QED
    BY <2>2, OfThreadIs DEF PostedAndOut, IsOut
<1>2. TextInOnePlace /\ WritesInOrder /\ LoneWrite /\ LoneSync
  BY <1>1 DEF CacheInit, TextInOnePlace, WritesInOrder, ResolvesInOrder, LastResolveStands, ReactsLand,
              LoneWrite, LoneSync
<1>3. github \in Threads /\ shown = SnapshotOf(github, 0)
  BY DEF CacheInit, CacheTyped
<1>4. /\ shown.copies = github.posted /\ shown.pending = {}
      /\ shown.authors = {r \in Replies : github.posted[r] > 0} \X {"stored"}
      /\ shown.resolved = github.resolved /\ shown.hearts = github.hearts
  BY <1>3, SnapshotIs
<1>5. ShowsResolution /\ ShowsReactions
  BY <1>4 DEF ShowsResolution, ShowsReactions
<1>6. ShowsPosted /\ ShowsPending /\ ShowsAuthors
  BY <1>1, <1>4 DEF ShowsPosted, ShowsPending, ShowsAuthors
<1> QED
  BY <1>2, <1>5, <1>6 DEF ThreadParts, ShownIsThread

LEMMA ThreadStep ==
  ASSUME AnsweredInOrder, ClientAssumption, CacheTyped, CacheTyped', ThreadParts,
         [CacheNext]_cacheVars
  PROVE  ThreadParts'
<1>1. CASE Reply
  <2>1. Mutate("reply", box) /\ IsOf("reply", box) /\ TextInOnePlace'
    BY <1>1, ReplyMutates, ReplyKeepsPlaces
  <2>2. "reply" \in {"reply", "resolve", "react"}
    OBVIOUS
  <2> QED
    BY <2>1, <2>2, MutateKeepsThread
<1>2. CASE Resolve
  <2>1. /\ Mutate("resolve", ~shown.resolved) /\ IsOf("resolve", ~shown.resolved)
        /\ box' = box /\ written' = written
    BY <1>2, ResolveMutates
  <2>2. "resolve" \in {"reply", "resolve", "react"} /\ "resolve" \in {"resolve", "react"}
    OBVIOUS
  <2>3. \E k \in Nat : Goes("resolve", ~shown.resolved, k)
    BY <2>1, <2>2, MutateSends
  <2>4. RepliesStay
    BY <2>2, <2>3, RepliesStayIf
  <2>5. TextInOnePlace'
    BY <2>1, <2>4, PlacesKept DEF Mutate, daemon, ThreadParts
  <2> QED
    BY <2>1, <2>2, <2>5, MutateKeepsThread
<1>3. CASE React
  <2>1. /\ Mutate("react", Nothing) /\ IsOf("react", Nothing)
        /\ box' = box /\ written' = written
    BY <1>3, ReactMutates
  <2>2. "react" \in {"reply", "resolve", "react"} /\ "react" \in {"resolve", "react"}
    OBVIOUS
  <2>3. \E k \in Nat : Goes("react", Nothing, k)
    BY <2>1, <2>2, MutateSends
  <2>4. RepliesStay
    BY <2>2, <2>3, RepliesStayIf
  <2>5. TextInOnePlace'
    BY <2>1, <2>4, PlacesKept DEF Mutate, daemon, ThreadParts
  <2> QED
    BY <2>1, <2>2, <2>5, MutateKeepsThread
<1>4. ASSUME NEW r \in Replies, TypeReply(r) PROVE ThreadParts'
  BY <1>4, TypingKeepsThread
<1>5. ASSUME NEW p \in Paths, Toggle(p) PROVE ThreadParts'
  <2>1. ThreadKept /\ UncrossedKept
    BY <1>5, ToggleSends, ThreadKeptIf
  <2> QED
    BY <1>5, <2>1, ThreadPartsKept DEF Toggle, daemon
<1>6. CASE StartSync
  BY <1>6, StartSyncKeepsThread
<1>7. CASE ReadGithub
  BY <1>7, ReadGithubKeepsThread
<1>8. CASE LandSync
  BY <1>8, LandSyncKeepsThread
<1>9. CASE FailSync
  BY <1>9, FailSyncKeepsThread
<1>10. CASE Reload
  BY <1>10, ReloadKeepsThread
<1>11. ASSUME NEW i \in DOMAIN requests, Wire(i), OfMarks(i)
       PROVE  ThreadParts'
  <2>1. \E outcome : Answers(i, outcome)
    BY <1>11, ServeAnswers, RefuseAnswers, LoseAnswers DEF Wire
  <2>2. ThreadKept /\ UncrossedKept
    BY <1>11, <2>1, ThreadKeptIf
  <2>3. IsRequest(requests[i]) /\ github \in Threads
    BY DEF CacheTyped, AreRequests
  <2>4. github' = github
    BY <1>11, <2>3, LandedIs DEF Wire, Serve, Refuse, Lose, daemon, OfMarks
  <2> QED
    BY <1>11, <2>2, <2>4, ThreadPartsKept DEF Wire, Serve, Refuse, Lose
<1>12. ASSUME NEW i \in DOMAIN requests, Serve(i), OfThread(i)
       PROVE  ThreadParts'
  BY <1>12, ServeKeepsThread
<1>13. ASSUME NEW i \in DOMAIN requests, Refuse(i), OfThread(i)
       PROVE  ThreadParts'
  <2>1. /\ github' = github /\ shown' = shown /\ tangled' = tangled /\ sync' = sync
        /\ box' = box /\ written' = written
    BY <1>13 DEF Refuse, daemon
  <2>2. Answers(i, "refused") /\ requests[i].outcome = "out" /\ ServedBefore(i)
    BY <1>13, RefuseAnswers DEF Refuse
  <2>3. "refused" # "out" /\ (ServedBefore(i) \/ requests[i].outcome # "out")
    BY <2>2
  <2>4. HasLanded(requests[i]) <=> "refused" \in {"done", "lost"}
    BY <2>2 DEF HasLanded
  <2> QED
    BY <1>13, <2>1, <2>2, <2>3, <2>4, NoAnswerKeepsThread
<1>14. ASSUME NEW i \in DOMAIN requests, Lose(i)
       PROVE  ThreadParts'
  <2>1. /\ github' = github /\ shown' = shown /\ tangled' = tangled /\ sync' = sync
        /\ box' = box /\ written' = written
    BY <1>14 DEF Lose, daemon
  <2>2. Answers(i, "lost") /\ requests[i].outcome = "done" /\ OfThread(i)
    BY <1>14, LoseAnswers DEF Lose, OfThread
  <2>3. "lost" # "out" /\ (ServedBefore(i) \/ requests[i].outcome # "out")
    BY <2>2
  <2>4. HasLanded(requests[i]) <=> "lost" \in {"done", "lost"}
    BY <2>2 DEF HasLanded
  <2> QED
    BY <2>1, <2>2, <2>3, <2>4, NoAnswerKeepsThread
<1>15. ASSUME NEW i \in DOMAIN requests, Succeed(i) PROVE ThreadParts'
  BY <1>15, SucceedKeepsThread
<1>16. ASSUME NEW i \in DOMAIN requests, Fail(i) PROVE ThreadParts'
  BY <1>16, FailKeepsThread
<1>17. ASSUME NEW i \in DOMAIN requests, TakeMarks(i) PROVE ThreadParts'
  <2>1. Settles(i) /\ OfMarks(i)
    BY <1>17, WithoutSettles DEF TakeMarks, OfMarks
  <2>2. ThreadKept /\ UncrossedKept
    BY <2>1, ThreadKeptIf
  <2> QED
    BY <1>17, <2>2, ThreadPartsKept DEF TakeMarks, daemon
<1>18. ASSUME NEW i \in DOMAIN requests, RestoreMarks(i) PROVE ThreadParts'
  <2>1. ThreadKept /\ UncrossedKept
    BY <1>18, RestoreMarksSettles, ThreadKeptIf
  <2> QED
    BY <1>18, <2>1, ThreadPartsKept DEF RestoreMarks, daemon
<1>19. CASE UNCHANGED cacheVars
  <2>1. /\ requests' = requests /\ github' = github /\ shown' = shown /\ tangled' = tangled
        /\ sync' = sync /\ box' = box /\ written' = written
    BY <1>19 DEF cacheVars, daemon
  <2>2. ThreadKept /\ UncrossedKept
    BY <2>1, ThreadKeptIf
  <2> QED
    BY <2>1, <2>2, ThreadPartsKept
<1>20. \A i : OfMarks(i) \/ OfThread(i)
  BY DEF OfMarks, OfThread
<1> QED
  BY <1>1, <1>2, <1>3, <1>4, <1>5, <1>6, <1>7, <1>8, <1>9, <1>10, <1>11, <1>12, <1>13, <1>14,
     <1>15, <1>16, <1>17, <1>18, <1>19, <1>20 DEF CacheNext, Begin, Syncing, Wire, Settle

\* Once everything has settled, the thread on the screen is the thread GitHub has, unless a
\* rollback, a lost answer or a reload went over it and no uncrossed sync has landed since.
THEOREM ThreadIsShown ==
  ASSUME AnsweredInOrder
  PROVE  CacheSpec => []SettledShowsGithub
<1>1. CacheInit => ThreadInv
  BY CacheInitTyped, ThreadInitially DEF ThreadInv, ThreadParts, WritesInOrder
<1>2. ThreadInv /\ [CacheNext]_cacheVars => ThreadInv'
  BY ClientAssumption, CacheStepTyped, ThreadStep DEF ThreadInv, ThreadParts, WritesInOrder
<1>3. ThreadInv => SettledShowsGithub
  <2>1. ThreadInv /\ AllAnswered => NoneOfThread
    BY DEF AllAnswered, NoneOfThread, OfThread
  <2>2. ThreadInv /\ NoneOfThread /\ tangled = FALSE => Faithful(shown)
    BY ShownIsFaithful DEF ThreadInv
  <2>3. ThreadInv => tangled \in BOOLEAN
    BY DEF ThreadInv, CacheTyped
  <2> QED
    BY <2>1, <2>2, <2>3 DEF SettledShowsGithub, Faithful
<1> QED
  BY <1>1, <1>2, <1>3, PTL DEF CacheSpec

-----------------------------------------------------------------------------
(* The Files tab.                                                          *)

\* A sequence, whatever it holds.
IsList(s) == \E n \in Nat : s = [k \in 1..n |-> s[k]]

LEMMA ListIs ==
  ASSUME NEW s, IsList(s)
  PROVE  s \in Seq(ToSet(s))
<1>1. PICK n \in Nat : s = [k \in 1..n |-> s[k]]
  BY DEF IsList
<1>2. \A k \in 1..n : s[k] \in ToSet(s)
  BY <1>1 DEF ToSet
<1> QED
  BY <1>1, <1>2

LEMMA AppendIs ==
  ASSUME NEW S, NEW s \in Seq(S), NEW e \in S
  PROVE  /\ IsList(Append(s, e))
         /\ ToSet(Append(s, e)) = ToSet(s) \cup {e}
<1>1. PICK n \in Nat : n = Len(s)
  OBVIOUS
<1>2. PICK t \in Seq(S) : t = Append(s, e)
  <2>1. Append(s, e) \in Seq(S)
    OBVIOUS
  <2> QED
    BY <2>1
<1>3. /\ DOMAIN s = 1..n /\ DOMAIN t = 1..(n + 1) /\ n + 1 \in Nat
      /\ t[n + 1] = e /\ \A k \in 1..n : t[k] = s[k]
  BY <1>1, <1>2
<1>4. t = [k \in 1..(n + 1) |-> t[k]]
  <2>1. t \in [1..Len(t) -> S]
    BY LenProperties
  <2> QED
    BY <1>3, <2>1
<1>5. ToSet(t) = ToSet(s) \cup {e}
  <2>1. 1..(n + 1) = 1..n \cup {n + 1}
    BY <1>1
  <2> QED
    BY <1>3, <2>1 DEF ToSet
<1> QED
  BY <1>2, <1>3, <1>4, <1>5 DEF IsList

LEMMA AppendList ==
  ASSUME NEW s, IsList(s), NEW e
  PROVE  IsList(Append(s, e)) /\ ToSet(Append(s, e)) = ToSet(s) \cup {e}
<1>1. PICK S : S = ToSet(s) \cup {e}
  OBVIOUS
<1>2. s \in Seq(ToSet(s))
  BY ListIs
<1>3. s \in Seq(S) /\ e \in S
  BY <1>1, <1>2
<1> QED
  BY <1>3, AppendIs

LEMMA RemovedIs ==
  ASSUME NEW S, NEW s \in Seq(S), NEW i \in 1..Len(s)
  PROVE  /\ RemoveAt(s, i) \in Seq(S) /\ Len(RemoveAt(s, i)) = Len(s) - 1
         /\ \A j \in 1..(Len(s) - 1) : RemoveAt(s, i)[j] = IF j < i THEN s[j] ELSE s[j + 1]
<1>1. PICK n \in Nat : n = Len(s)
  OBVIOUS
<1>2. i \in Int /\ 1 <= i /\ i <= n
  BY <1>1
<1>3. PICK u : u = SubSeq(s, 1, i - 1)
  OBVIOUS
<1>4. PICK v : v = SubSeq(s, i + 1, Len(s))
  OBVIOUS
<1>5. /\ u \in Seq(S) /\ Len(u) = i - 1
      /\ \A j \in 1..(i - 1) : u[j] = s[j]
  BY <1>1, <1>2, <1>3
<1>6. /\ v \in Seq(S) /\ Len(v) = n - i
      /\ \A j \in 1..(n - i) : v[j] = s[i + j]
  BY <1>1, <1>2, <1>4
<1>7. PICK t : t = u \o v
  OBVIOUS
<1>8. t = RemoveAt(s, i)
  BY <1>3, <1>4, <1>7 DEF RemoveAt
<1>9. t \in Seq(S) /\ Len(t) = n - 1
  BY <1>1, <1>2, <1>5, <1>6, <1>7
<1>10. \A j \in 1..(n - 1) : t[j] = IF j <= i - 1 THEN u[j] ELSE v[j - (i - 1)]
  BY <1>1, <1>2, <1>5, <1>6, <1>7
<1>11. \A j \in 1..(n - 1) : t[j] = IF j < i THEN s[j] ELSE s[j + 1]
  <2>1. SUFFICES ASSUME NEW j \in 1..(n - 1)
                 PROVE  t[j] = IF j < i THEN s[j] ELSE s[j + 1]
    OBVIOUS
  <2>2. CASE j < i
    BY <1>2, <1>5, <1>10, <2>1, <2>2
  <2>3. CASE ~(j < i)
    <3>1. j - (i - 1) \in 1..(n - i) /\ i + (j - (i - 1)) = j + 1
      BY <1>2, <2>1, <2>3
    <3> QED
      BY <1>2, <1>6, <1>10, <2>1, <2>3, <3>1
  <2> QED
    BY <2>2, <2>3
<1> QED
  BY <1>1, <1>8, <1>9, <1>11

LEMMA RemovedList ==
  ASSUME NEW s, IsList(s), NEW i \in DOMAIN s
  PROVE  /\ IsList(RemoveAt(s, i))
         /\ \A k \in DOMAIN s : k # i => s[k] \in ToSet(RemoveAt(s, i))
<1>1. PICK S : S = ToSet(s)
  OBVIOUS
<1>2. s \in Seq(S) /\ i \in 1..Len(s)
  BY <1>1, ListIs
<1>3. PICK t : t = RemoveAt(s, i)
  OBVIOUS
<1>4. /\ t \in Seq(S) /\ Len(t) = Len(s) - 1
      /\ \A j \in 1..(Len(s) - 1) : t[j] = IF j < i THEN s[j] ELSE s[j + 1]
  BY <1>2, <1>3, RemovedIs
<1>5. IsList(t)
  BY <1>4 DEF IsList
<1>6. ASSUME NEW k \in DOMAIN s, k # i
      PROVE  s[k] \in ToSet(t)
  <2>1. CASE k < i
    <3>1. k \in 1..(Len(s) - 1) /\ t[k] = s[k]
      BY <1>2, <1>4, <2>1
    <3>2. k \in DOMAIN t
      BY <1>4, <3>1
    <3> QED
      BY <3>1, <3>2 DEF ToSet
  <2>2. CASE k > i
    <3>1. k - 1 \in 1..(Len(s) - 1) /\ t[k - 1] = s[k]
      BY <1>2, <1>4, <2>2
    <3>2. k - 1 \in DOMAIN t
      BY <1>4, <3>1
    <3> QED
      BY <3>1, <3>2 DEF ToSet
  <2> QED
    BY <1>2, <1>6, <2>1, <2>2
<1> QED
  BY <1>3, <1>5, <1>6

\* What the tab keeps of texts, and what is still owed: a text kept for the anchor of the
\* open composer, when it still counts, is the one in it.
WrittenTyped ==
  /\ composer = [anchor |-> composer.anchor, text |-> composer.text, on |-> composer.on,
                 chosen |-> composer.chosen, chosenStart |-> composer.chosenStart]
  /\ composer.text # None => composer.anchor # None
  /\ IsList(Comments)
KeptTyped == None \notin DOMAIN canceled /\ None \notin typed
KeptIsOpen ==
  composer.anchor \in DOMAIN canceled /\ canceled[composer.anchor] \in typed
    => canceled[composer.anchor] = composer.text
FilesInv == WrittenTyped /\ KeptTyped /\ KeptIsOpen /\ TextIsKept

LEMMA HeldIs ==
  \A t : t \in Held <=> \/ \E c \in ToSet(Comments) : c.text = t
                        \/ \E a \in DOMAIN canceled : canceled[a] = t
                        \/ composer.text = t
BY DEF Held

LEMMA KeptAlsoIs ==
  ASSUME NEW anchor, NEW text
  PROVE  /\ DOMAIN KeptAlso(anchor, text) = DOMAIN canceled \cup {anchor}
         /\ KeptAlso(anchor, text)[anchor] = text
         /\ \A a \in DOMAIN canceled : a # anchor => KeptAlso(anchor, text)[a] = canceled[a]
BY DEF KeptAlso

\* The open text is put with the others: what was there under its anchor counts no more, or
\* is the same.
LEMMA KeepingKeeps ==
  ASSUME FilesInv, canceled' = KeptAlso(composer.anchor, composer.text), composer.text # None
  PROVE  /\ None \notin DOMAIN canceled'
         /\ \A a \in DOMAIN canceled : a # composer.anchor => a \in DOMAIN canceled'
                                                            /\ canceled'[a] = canceled[a]
         /\ \A a \in DOMAIN canceled : canceled[a] \in typed =>
              \E b \in DOMAIN canceled' : canceled'[b] = canceled[a]
         /\ \E b \in DOMAIN canceled' : canceled'[b] = composer.text
<1>1. /\ DOMAIN canceled' = DOMAIN canceled \cup {composer.anchor}
      /\ canceled'[composer.anchor] = composer.text
      /\ \A a \in DOMAIN canceled : a # composer.anchor => canceled'[a] = canceled[a]
  <2>1. PICK anchor, text : anchor = composer.anchor /\ text = composer.text
    OBVIOUS
  <2>2. canceled' = KeptAlso(anchor, text)
    BY <2>1
  <2>3. /\ DOMAIN KeptAlso(anchor, text) = DOMAIN canceled \cup {anchor}
        /\ KeptAlso(anchor, text)[anchor] = text
        /\ \A a \in DOMAIN canceled : a # anchor => KeptAlso(anchor, text)[a] = canceled[a]
    BY DEF KeptAlso
  <2> QED
    BY <2>1, <2>2, <2>3
<1>2. composer.anchor # None /\ None \notin DOMAIN canceled
  BY DEF FilesInv, WrittenTyped, KeptTyped
<1>3. composer.anchor \in DOMAIN canceled /\ canceled[composer.anchor] \in typed
        => canceled[composer.anchor] = composer.text
  BY DEF FilesInv, KeptIsOpen
<1> QED
  BY <1>1, <1>2, <1>3

\* What is neither written nor drawn upon keeps the texts.
LEMMA TextsStay ==
  ASSUME FilesInv, composer' = composer, canceled' = canceled, draft' = draft, typed' = typed
  PROVE  FilesInv'
BY DEF FilesInv, WrittenTyped, KeptTyped, KeptIsOpen, TextIsKept, Held, Comments

LEMMA LeavingKeepsTexts ==
  ASSUME FilesInv, Leave
  PROVE  FilesInv'
<1>1. /\ composer' = ClosedComposer /\ canceled' = [a \in {} |-> None] /\ draft' = draft
      /\ typed' = typed \intersect {c.text : c \in ToSet(Comments)}
  BY DEF Leave
<1>2. Comments' = Comments /\ IsList(Comments) /\ None \notin typed
  BY <1>1 DEF Comments, FilesInv, WrittenTyped, KeptTyped
<1>3. WrittenTyped'
  BY <1>1, <1>2 DEF WrittenTyped, ClosedComposer
<1>4. KeptTyped' /\ KeptIsOpen'
  BY <1>1, <1>2 DEF KeptTyped, KeptIsOpen
<1>5. TextIsKept'
  BY <1>1, <1>2 DEF TextIsKept, Held
<1> QED
  BY <1>3, <1>4, <1>5 DEF FilesInv

LEMMA OpeningKeepsTexts ==
  ASSUME ~Reopens, FilesInv, NEW anchor, NEW on, OpenComposer(anchor, on)
  PROVE  FilesInv'
<1>1. /\ draft' = draft /\ typed' = typed
      /\ composer' = [anchor |-> anchor, text |-> Kept(anchor), on |-> on,
                      chosen |-> TrueText(anchor.side, anchor.line),
                      chosenStart |-> IF anchor.start = None THEN None
                                      ELSE TrueText(anchor.side, anchor.start)]
      /\ Displace(anchor) /\ ~ReopenedLive(anchor)
  BY DEF OpenComposer
<1>2. Comments' = Comments /\ IsList(Comments) /\ None \notin typed /\ None \notin DOMAIN canceled
  BY <1>1 DEF Comments, FilesInv, WrittenTyped, KeptTyped
<1>3. WrittenTyped'
  BY <1>1, <1>2 DEF WrittenTyped, Kept
<1>4. CASE composer.text # None /\ composer.anchor # anchor
  <2>1. canceled' = KeptAlso(composer.anchor, composer.text)
    BY <1>1, <1>4 DEF Displace
  <2>2. /\ None \notin DOMAIN canceled'
        /\ \A a \in DOMAIN canceled : a # composer.anchor => a \in DOMAIN canceled'
                                                           /\ canceled'[a] = canceled[a]
        /\ \A a \in DOMAIN canceled : canceled[a] \in typed =>
             \E b \in DOMAIN canceled' : canceled'[b] = canceled[a]
        /\ \E b \in DOMAIN canceled' : canceled'[b] = composer.text
    BY <1>4, <2>1, KeepingKeeps
  <2>3. DOMAIN canceled' = DOMAIN canceled \cup {composer.anchor}
    BY <2>1, KeptAlsoIs
  <2>4. KeptTyped'
    BY <1>1, <1>2, <2>2 DEF KeptTyped
  <2>5. KeptIsOpen'
    BY <1>1, <1>4, <2>2, <2>3 DEF KeptIsOpen, Kept
  <2>6. ASSUME NEW t \in typed
        PROVE  t \in Held'
    BY <1>1, <1>2, <2>2, HeldIs DEF FilesInv, TextIsKept, Held
  <2> QED
    BY <1>1, <1>3, <2>4, <2>5, <2>6 DEF FilesInv, TextIsKept
<1>5. CASE ~(composer.text # None /\ composer.anchor # anchor)
  <2>1. canceled' = canceled
    BY <1>1, <1>5 DEF Displace
  <2>2. KeptTyped' /\ KeptIsOpen'
    BY <1>1, <1>2, <2>1 DEF KeptTyped, KeptIsOpen, Kept
  <2>3. ASSUME NEW t \in typed
        PROVE  t \in Held'
    <3>1. t \in Held /\ t # None
      BY <1>2 DEF FilesInv, TextIsKept
    <3>2. composer.text = t => composer'.text = t
      BY <1>1, <1>5, <3>1 DEF ReopenedLive
    <3> QED
      BY <1>2, <2>1, <3>1, <3>2 DEF Held
  <2> QED
    BY <1>1, <1>3, <2>2, <2>3 DEF FilesInv, TextIsKept
<1> QED
  BY <1>4, <1>5

LEMMA TypingKeepsTexts ==
  ASSUME FilesInv, TypeComment
  PROVE  FilesInv'
<1>1. PICK t \in (Texts[history] \ Held) \cup {None} :
        /\ composer' = [composer EXCEPT !.text = t]
        /\ typed' = (typed \ {composer.text}) \cup ({t} \ {None})
  BY DEF TypeComment
<1>2. composer.anchor # None /\ canceled' = canceled /\ draft' = draft
  BY DEF TypeComment
<1>3. composer' = [anchor |-> composer.anchor, text |-> t, on |-> composer.on,
                   chosen |-> composer.chosen, chosenStart |-> composer.chosenStart]
  BY <1>1 DEF FilesInv, WrittenTyped
<1>4. Comments' = Comments /\ IsList(Comments) /\ None \notin typed /\ None \notin DOMAIN canceled
  BY <1>2 DEF Comments, FilesInv, WrittenTyped, KeptTyped
<1>5. WrittenTyped'
  BY <1>2, <1>3, <1>4 DEF WrittenTyped
<1>6. KeptTyped'
  BY <1>1, <1>2, <1>4 DEF KeptTyped
<1>7. KeptIsOpen'
  <2>1. SUFFICES ASSUME composer.anchor \in DOMAIN canceled, canceled[composer.anchor] \in typed'
                 PROVE  FALSE
    BY <1>2, <1>3 DEF KeptIsOpen
  <2>2. canceled[composer.anchor] \in Held
    BY <2>1, HeldIs
  <2>3. canceled[composer.anchor] \in typed /\ canceled[composer.anchor] # composer.text
    BY <1>1, <2>1, <2>2
  <2> QED
    BY <2>1, <2>3 DEF FilesInv, KeptIsOpen
<1>8. ASSUME NEW x \in typed'
      PROVE  x \in Held'
  BY <1>1, <1>2, <1>3, <1>4 DEF FilesInv, TextIsKept, Held
<1> QED
  BY <1>5, <1>6, <1>7, <1>8 DEF FilesInv, TextIsKept

LEMMA CancellingKeepsTexts ==
  ASSUME FilesInv, CancelComposer
  PROVE  FilesInv'
<1>1. /\ canceled' = IF composer.text # None THEN KeptAlso(composer.anchor, composer.text)
                                             ELSE canceled
      /\ composer' = ClosedComposer /\ draft' = draft /\ typed' = typed
  BY DEF CancelComposer
<1>2. Comments' = Comments /\ IsList(Comments) /\ None \notin typed /\ None \notin DOMAIN canceled
  BY <1>1 DEF Comments, FilesInv, WrittenTyped, KeptTyped
<1>3. WrittenTyped'
  BY <1>1, <1>2 DEF WrittenTyped, ClosedComposer
<1>4. /\ None \notin DOMAIN canceled'
      /\ \A a \in DOMAIN canceled : canceled[a] \in typed =>
           \E b \in DOMAIN canceled' : canceled'[b] = canceled[a]
      /\ composer.text # None => \E b \in DOMAIN canceled' : canceled'[b] = composer.text
  <2>1. CASE composer.text # None
    <3>1. canceled' = KeptAlso(composer.anchor, composer.text)
      BY <1>1, <2>1
    <3> QED
      BY <2>1, <3>1, KeepingKeeps
  <2>2. CASE composer.text = None
    BY <1>1, <1>2, <2>2
  <2> QED
    BY <2>1, <2>2
<1>5. KeptTyped' /\ KeptIsOpen'
  BY <1>1, <1>2, <1>4 DEF KeptTyped, KeptIsOpen, ClosedComposer
<1>6. ASSUME NEW t \in typed
      PROVE  t \in Held'
  <2>1. t \in Held /\ t # None
    BY <1>2 DEF FilesInv, TextIsKept
  <2> QED
    BY <1>2, <1>4, <2>1 DEF Held
<1> QED
  BY <1>1, <1>3, <1>5, <1>6 DEF FilesInv, TextIsKept

LEMMA SubmittingKeepsTexts ==
  ASSUME FilesInv, SubmitComposer
  PROVE  FilesInv'
<1>1. PICK comment : /\ comment.text = composer.text
                     /\ draft' = [head |-> IF draft.head = None THEN now ELSE draft.head,
                                  comments |-> Append(Comments, comment)]
  BY DEF SubmitComposer
<1>2. /\ canceled' = [a \in DOMAIN canceled \ {composer.anchor} |-> canceled[a]]
      /\ composer' = ClosedComposer /\ typed' = typed
  BY DEF SubmitComposer
<1>3. IsList(Comments) /\ None \notin typed /\ None \notin DOMAIN canceled
  BY DEF FilesInv, WrittenTyped, KeptTyped
<1>4. Comments' = Append(Comments, comment)
  BY <1>1 DEF Comments
<1>5. IsList(Comments') /\ ToSet(Comments') = ToSet(Comments) \cup {comment}
  BY <1>3, <1>4, AppendList
<1>6. WrittenTyped'
  BY <1>2, <1>5 DEF WrittenTyped, ClosedComposer
<1>7. KeptTyped' /\ KeptIsOpen'
  BY <1>2, <1>3 DEF KeptTyped, KeptIsOpen, ClosedComposer
<1>8. ASSUME NEW t \in typed
      PROVE  t \in Held'
  <2>1. CASE composer.text = t
    BY <1>1, <1>5, <2>1 DEF Held
  <2>2. CASE \E c \in ToSet(Comments) : c.text = t
    BY <1>5, <2>2 DEF Held
  <2>3. CASE \E a \in DOMAIN canceled : canceled[a] = t
    <3>1. PICK a \in DOMAIN canceled : canceled[a] = t
      BY <2>3
    <3>2. CASE a = composer.anchor
      BY <2>1, <3>1, <3>2 DEF FilesInv, KeptIsOpen
    <3>3. CASE a # composer.anchor
      BY <1>2, <3>1, <3>3 DEF Held
    <3> QED
      BY <3>2, <3>3
  <2> QED
    BY <2>1, <2>2, <2>3, HeldIs DEF FilesInv, TextIsKept
<1> QED
  BY <1>2, <1>6, <1>7, <1>8 DEF FilesInv, TextIsKept

LEMMA RemovingKeepsTexts ==
  ASSUME FilesInv, RemoveComment
  PROVE  FilesInv'
<1>1. PICK k \in DOMAIN Comments :
        /\ draft' = [head |-> draft.head, comments |-> RemoveAt(Comments, k)]
        /\ typed' = typed \ {Comments[k].text}
  BY DEF RemoveComment
<1>2. composer' = composer /\ canceled' = canceled
  BY DEF RemoveComment, writing
<1>3. IsList(Comments) /\ Comments' = RemoveAt(Comments, k)
  BY <1>1 DEF Comments, FilesInv, WrittenTyped
<1>4. /\ IsList(Comments')
      /\ \A j \in DOMAIN Comments : j # k => Comments[j] \in ToSet(Comments')
  BY <1>3, RemovedList
<1>5. WrittenTyped' /\ KeptTyped' /\ KeptIsOpen'
  BY <1>1, <1>2, <1>4 DEF FilesInv, WrittenTyped, KeptTyped, KeptIsOpen
<1>6. ASSUME NEW t \in typed, t # Comments[k].text
      PROVE  t \in Held'
  <2>1. CASE \E c \in ToSet(Comments) : c.text = t
    <3>1. PICK j \in DOMAIN Comments : Comments[j].text = t
      BY <2>1 DEF ToSet
    <3> QED
      BY <1>4, <1>6, <3>1 DEF Held
  <2>2. CASE composer.text = t \/ \E a \in DOMAIN canceled : canceled[a] = t
    BY <1>2, <2>2 DEF Held
  <2> QED
    BY <2>1, <2>2, HeldIs DEF FilesInv, TextIsKept
<1> QED
  BY <1>1, <1>5, <1>6 DEF FilesInv, TextIsKept

LEMMA DraftGoesKeepsTexts ==
  ASSUME FilesInv, DraftGoes
  PROVE  FilesInv'
<1>1. /\ draft' = NoDraft /\ composer' = composer /\ canceled' = canceled
      /\ typed' = typed \ {c.text : c \in ToSet(Comments)}
  BY DEF DraftGoes, writing
<1>2. Comments' = <<>>
  BY <1>1 DEF Comments, NoDraft
<1>3. IsList(Comments')
  BY <1>2 DEF IsList
<1>4. WrittenTyped' /\ KeptTyped' /\ KeptIsOpen'
  BY <1>1, <1>3 DEF FilesInv, WrittenTyped, KeptTyped, KeptIsOpen
<1>5. TextIsKept'
  BY <1>1 DEF FilesInv, TextIsKept, Held
<1> QED
  BY <1>4, <1>5 DEF FilesInv

LEMMA FilesStep ==
  ASSUME ~Reopens, FilesInv, FilesNext
  PROVE  FilesInv'
<1>1. CASE BlobArrives
  BY <1>1, TextsStay DEF BlobArrives, writing
<1>2. CASE Resync
  BY <1>2, TextsStay DEF Resync, writing
<1>3. CASE Leave
  BY <1>3, LeavingKeepsTexts
<1>4. CASE ToggleMode
  BY <1>4, TextsStay DEF ToggleMode, writing
<1>5. CASE ExpandRange \/ ExpandAllGaps
  <2>1. PICK ranges : Expand(ranges)
    BY <1>5 DEF ExpandRange, ExpandAllGaps
  <2> QED
    BY <2>1, TextsStay DEF Expand, writing
<1>6. CASE ToggleCollapse \/ FoldByKey
  <2>1. PICK folded : Fold(folded)
    BY <1>6 DEF ToggleCollapse, FoldByKey
  <2> QED
    BY <2>1, TextsStay DEF Fold, writing
<1>7. CASE ToggleViewed
  BY <1>7, TextsStay DEF ToggleViewed, writing
<1>8. CASE ToggleOutdated
  BY <1>8, TextsStay DEF ToggleOutdated, writing
<1>9. CASE JumpTo
  BY <1>9, TextsStay DEF JumpTo, writing
<1>10. CASE JumpToLine
  BY <1>10, TextsStay DEF JumpToLine, writing
<1>11. CASE GutterDown \/ GutterEnter
  <2>1. PICK sel : SelectOnly(sel)
    BY <1>11 DEF GutterDown, GutterEnter
  <2> QED
    BY <2>1, TextsStay DEF SelectOnly
<1>12. CASE GutterDownWithShift
  <2>1. PICK anchor, on : OpenComposer(anchor, on)
    BY <1>12 DEF GutterDownWithShift
  <2> QED
    BY <2>1, OpeningKeepsTexts
<1>13. CASE MouseUp
  <2>1. CASE selection = None
    BY <1>13, <2>1, TextsStay DEF MouseUp, SelectOnly
  <2>2. CASE selection # None
    BY <1>13, <2>2, OpeningKeepsTexts DEF MouseUp
  <2> QED
    BY <2>1, <2>2
<1>14. CASE ComposeByKey
  <2>1. PICK anchor, on : OpenComposer(anchor, on)
    BY <1>14 DEF ComposeByKey
  <2> QED
    BY <2>1, OpeningKeepsTexts
<1>15. CASE TypeComment
  BY <1>15, TypingKeepsTexts
<1>16. CASE CancelComposer
  BY <1>16, CancellingKeepsTexts
<1>17. CASE SubmitComposer
  BY <1>17, SubmittingKeepsTexts
<1>18. CASE RemoveComment
  BY <1>18, RemovingKeepsTexts
<1>19. CASE DraftGoes
  BY <1>19, DraftGoesKeepsTexts
<1> QED
  BY <1>1, <1>2, <1>3, <1>4, <1>5, <1>6, <1>7, <1>8, <1>9, <1>10, <1>11, <1>12, <1>13,
     <1>14, <1>15, <1>16, <1>17, <1>18, <1>19 DEF FilesNext

(* Typed comments are kept: whatever is selected, folded or synced         *)
(* meanwhile, a text typed into a composer that is not opened where it     *)
(* already is stays in the composer, among the texts openComposer and      *)
(* closeComposer keep by anchor, or in the draft, until its author takes   *)
(* it back.                                                                *)
THEOREM CommentTextIsKept ==
  ASSUME ~Reopens
  PROVE  FilesSpec => []TextIsKept
<1>1. FilesInit => FilesInv
  <2>1. SUFFICES ASSUME FilesInit
                 PROVE  FilesInv
    OBVIOUS
  <2>2. /\ composer = ClosedComposer /\ canceled = [a \in {} |-> None]
        /\ draft = NoDraft /\ typed = {}
    BY <2>1 DEF FilesInit
  <2>3. Comments = <<>> /\ IsList(<<>>)
    BY <2>2 DEF Comments, NoDraft, IsList
  <2>4. WrittenTyped
    BY <2>2, <2>3 DEF WrittenTyped, ClosedComposer
  <2> QED
    BY <2>2, <2>4 DEF FilesInv, KeptTyped, KeptIsOpen, TextIsKept
<1>2. FilesInv /\ [FilesNext]_filesVars => FilesInv'
  <2>1. CASE UNCHANGED filesVars
    BY <2>1, TextsStay DEF filesVars, writing
  <2> QED
    BY <2>1, FilesStep
<1>3. FilesInv => TextIsKept
  BY DEF FilesInv
<1> QED
  BY <1>1, <1>2, <1>3, PTL DEF FilesSpec
=============================================================================
