---------------------------- MODULE ClientCache ----------------------------
(***************************************************************************)
(* What one tab shows of one review while its writes are out.  A reply, a  *)
(* resolve, a reaction and a viewed mark are written into the query cache  *)
(* before they are sent; each keeps a copy of the whole entry to put back  *)
(* if it fails, and a sync replaces the entry under all of them.           *)
(*                                                                         *)
(* A reply is its text.  Every reply the reviewer may type is on one card, *)
(* whose thread can be resolved and whose first comment can be reacted to. *)
(***************************************************************************)
EXTENDS Integers, FiniteSets, Tables

CONSTANTS
  Replies,      \* the texts that may be typed
  Paths,        \* the files of the review
  Nothing,      \* no answer yet, an empty composer, an entry not loaded
  Retypes,      \* may the composer be reopened while a reply is out?
  EarlyToggles, \* may a file be marked before the marks have loaded?
  AnsweredInOrder, \* are requests about one thing served and answered in order?
  MaxWrites,    \* bound: replies, resolves, reactions and marks ever begun
  MaxPullSyncs  \* bound: syncs ever started

ASSUME ClientAssumption ==
  /\ {Retypes, EarlyToggles, AnsweredInOrder} \subseteq BOOLEAN
  /\ {MaxWrites, MaxPullSyncs} \subseteq Nat
  /\ Nothing \notin Replies

VARIABLES
  github,   \* the thread as GitHub has it
  stored,   \* the snapshot the daemon last stored
  marks,    \* the viewed marks in the daemon's row
  shown,    \* the tab's snapshot entry
  viewed,   \* the tab's viewed entry
  box,      \* the composer's text
  requests, \* sent and not settled: number -> request
  sync,     \* the sync in flight
  pullSyncs, \* how many were started
  reload,   \* is the snapshot entry being read again from the daemon?
  writes,   \* how many were begun
  written,  \* history: the texts ever typed
  tangled,  \* history: has something replaced the snapshot entry unawares?
  smudged   \* history: may a copy of the marks hold a mark that was refused?

daemon == <<github, stored, marks>>
cacheVars == <<github, stored, marks, shown, viewed, box, requests, sync, pullSyncs,
               reload, writes, written, tangled, smudged>>

Marks == [Paths -> BOOLEAN]
NoMarks == [p \in Paths |-> FALSE]
Thread == [posted : [Replies -> 0..MaxWrites], resolved : BOOLEAN, hearts : 0..1]
(* `copies` counts a comment with GitHub's id, `pending` the synthetic     *)
(* ones, `authors` the write log's keys.                                   *)
Snapshots == [version : 0..MaxPullSyncs, copies : [Replies -> 0..(MaxWrites + 1)],
              pending : SUBSET Replies, authors : SUBSET (Replies \X {"pending", "stored"}),
              resolved : BOOLEAN, hearts : 0..(MaxWrites + 1)]

SnapshotOf(thread, n) ==
  [version |-> n, copies |-> thread.posted, pending |-> {},
   authors |-> {r \in Replies : thread.posted[r] > 0} \X {"stored"},
   resolved |-> thread.resolved, hearts |-> thread.hearts]

Request(kind, on, previous) ==
  [kind |-> kind, on |-> on, previous |-> previous, outcome |-> "out", answer |-> Nothing,
   crossed |-> FALSE]

CacheInit ==
  /\ github = [posted |-> [r \in Replies |-> 0], resolved |-> FALSE, hearts |-> 0]
  /\ stored = SnapshotOf(github, 0) /\ shown = stored
  /\ marks = NoMarks /\ viewed = IF EarlyToggles THEN Nothing ELSE marks
  /\ box = Nothing /\ sync = Nothing /\ pullSyncs = 0 /\ reload = FALSE
  /\ requests = IF EarlyToggles THEN Upsert(EmptyTable, 1, Request("fetch", Nothing, Nothing))
                ELSE EmptyTable
  /\ writes = 0 /\ written = {} /\ tangled = FALSE /\ smudged = FALSE

----------------------------------------------------------------------------
(* The writes into the entry: withThread, withCommentAuthor,               *)
(* withCommentRollup and bumpRollup.                                       *)
WithReply(snap, r) ==
  [snap EXCEPT !.pending = @ \union {r}, !.authors = @ \union {<<r, "pending">>}]
Optimistic(snap, kind, on) ==
  CASE kind = "reply"   -> WithReply(snap, on)
    [] kind = "resolve" -> [snap EXCEPT !.resolved = on]
    [] kind = "react"   -> [snap EXCEPT !.hearts = @ + 1]

(* onSuccess of a reply: the synthetic comment becomes the stored one; if  *)
(* it is not there any more, the stored one is appended.                   *)
Swapped(snap, r) ==
  [snap EXCEPT !.copies[r] = @ + 1, !.pending = @ \ {r},
               !.authors = (@ \ {<<r, "pending">>}) \union {<<r, "stored">>}]
(* Fault: the answer is written into the copy onMutate kept.               *)
ConfirmedOnTheCopy(snap, q) ==
  LET kept == Optimistic(q.previous, q.kind, q.on)
  IN CASE q.kind = "reply"   -> Swapped(kept, q.on)
       [] q.kind = "resolve" -> [kept EXCEPT !.resolved = q.answer]
       [] q.kind = "react"   -> [kept EXCEPT !.hearts = q.answer]
Confirmed(snap, q) ==
  CASE q.kind = "reply"   -> Swapped(snap, q.on)
    [] q.kind = "resolve" -> [snap EXCEPT !.resolved = q.answer]
    [] q.kind = "react"   -> [snap EXCEPT !.hearts = q.answer]

OnThread(q) == q.kind \in {"reply", "resolve", "react"}
(* History: `crossed` marks a write during which its entry was also        *)
(* written by something else: another write, a sync, a reload.             *)
SameEntry(q, o) == q.kind # "fetch" /\ o.kind # "fetch" /\ (OnThread(q) <=> OnThread(o))
Crossed(qs, Touched(_)) == [i \in DOMAIN qs |-> [qs[i] EXCEPT !.crossed = @ \/ Touched(qs[i])]]
(* A request is younger than all that are out.                             *)
Youngest(qs) == CHOOSE n \in DOMAIN qs \union {0} : \A j \in DOMAIN qs : j <= n
Sent(qs, q) ==
  Upsert(Crossed(qs, LAMBDA o : SameEntry(q, o)), Youngest(qs) + 1,
         [q EXCEPT !.crossed = \E i \in DOMAIN qs : SameEntry(q, qs[i])])
Subject(q) == IF OnThread(q) THEN q.kind ELSE "viewed"

(* mutate on the snapshot entry: onMutate cancels a read of it that is     *)
(* out, keeps a copy, and writes; then the request goes.                   *)
Mutate(kind, on) ==
  /\ writes < MaxWrites /\ writes' = writes + 1
  /\ reload' = FALSE
  /\ shown' = Optimistic(shown, kind, on)
  /\ requests' = Sent(requests, Request(kind, on, shown))
  /\ sync' = IF sync = Nothing THEN Nothing ELSE [sync EXCEPT !.crossed = TRUE]
  /\ UNCHANGED <<daemon, viewed, pullSyncs, tangled, smudged>>

Replying == \E i \in DOMAIN requests : requests[i].kind = "reply"
TypeReply(r) ==
  /\ box = Nothing /\ r \notin written
  /\ Replying => Retypes
  /\ box' = r /\ written' = written \union {r}
  /\ UNCHANGED <<daemon, shown, viewed, requests, sync, pullSyncs, reload, tangled,
                 smudged, writes>>

(* submitReply: the composer closes and empties before the answer.         *)
Reply ==
  /\ box # Nothing
  /\ Mutate("reply", box)
  /\ box' = Nothing
  /\ UNCHANGED written

Resolve == Mutate("resolve", ~shown.resolved) /\ UNCHANGED <<box, written>>

React == Mutate("react", Nothing) /\ UNCHANGED <<box, written>>

(* useSetFileViewed: the same, on the viewed entry.                        *)
Unfetched(qs) == Without(qs, {n \in DOMAIN qs : qs[n].kind = "fetch"})
Toggle(p) ==
  LET now == IF viewed = Nothing THEN NoMarks ELSE viewed
  IN /\ writes < MaxWrites /\ writes' = writes + 1
     /\ viewed = Nothing => EarlyToggles
     /\ viewed' = [now EXCEPT ![p] = ~@]
     /\ requests' = Sent(Unfetched(requests), Request("toggle", <<p, ~now[p]>>, viewed))
     /\ UNCHANGED <<daemon, shown, box, sync, pullSyncs, reload, written, tangled, smudged>>

----------------------------------------------------------------------------
(* The daemon and GitHub.                                                  *)
ServedBefore(i) == \A j \in DOMAIN requests :
  j < i /\ Subject(requests[j]) = Subject(requests[i]) => requests[j].outcome # "out"
SettledBefore(i) == \A j \in DOMAIN requests : j < i => Subject(requests[j]) # Subject(requests[i])

(* The answers: the comment, the thread, the rollup after a read-back, the *)
(* whole map.  A second identical reaction of one account adds nothing.    *)
Landed(q) ==
  CASE q.kind = "reply"   -> [github EXCEPT !.posted[q.on] = @ + 1]
    [] q.kind = "resolve" -> [github EXCEPT !.resolved = q.on]
    [] q.kind = "react"   -> [github EXCEPT !.hearts = 1]
    [] OTHER              -> github
MarksAfter(q) == IF q.kind = "toggle" THEN [marks EXCEPT ![q.on[1]] = q.on[2]] ELSE marks
AnswerTo(q) ==
  CASE q.kind = "reply"   -> q.on
    [] q.kind = "resolve" -> q.on
    [] q.kind = "react"   -> 1
    [] OTHER              -> MarksAfter(q)

Serve(i) ==
  /\ requests[i].outcome = "out"
  /\ AnsweredInOrder => ServedBefore(i)
  /\ github' = Landed(requests[i]) /\ marks' = MarksAfter(requests[i])
  /\ requests' = [requests EXCEPT ![i].outcome = "done", ![i].answer = AnswerTo(requests[i])]
  /\ UNCHANGED <<stored, shown, viewed, box, sync, pullSyncs, reload, writes, written,
                 tangled, smudged>>

Refuse(i) ==
  /\ requests[i].outcome = "out" /\ requests[i].kind # "fetch"
  /\ AnsweredInOrder => ServedBefore(i)
  /\ requests' = [requests EXCEPT ![i].outcome = "refused"]
  /\ UNCHANGED <<daemon, shown, viewed, box, sync, pullSyncs, reload, writes, written,
                 tangled, smudged>>

(* A write that landed and was journalled, and whose answer is lost on the *)
(* way to the tab.  What GitHub's own lost answers do is in GithubWrites.  *)
Lose(i) ==
  /\ OnThread(requests[i]) /\ requests[i].outcome = "done"
  /\ requests' = [requests EXCEPT ![i].outcome = "lost"]
  /\ UNCHANGED <<daemon, shown, viewed, box, sync, pullSyncs, reload, writes, written,
                 tangled, smudged>>

----------------------------------------------------------------------------
(* The answers arrive.                                                     *)
Failed(q) == q.outcome \in {"refused", "lost"}
Arrives(i) == requests[i].outcome # "out" /\ (AnsweredInOrder => SettledBefore(i))

Succeed(i) ==
  LET q == requests[i]
  IN /\ Arrives(i) /\ ~Failed(q) /\ OnThread(q)
     /\ shown' = Confirmed(shown, q)
     /\ requests' = Without(requests, {i})
     /\ UNCHANGED <<daemon, viewed, box, sync, pullSyncs, reload, writes, written,
                    tangled, smudged>>

(* The map of the answer is taken whole.                                   *)
Toggling(qs) == \E i \in DOMAIN qs : qs[i].kind = "toggle"
TakeMarks(i) ==
  LET q == requests[i]
  IN /\ Arrives(i) /\ ~Failed(q) /\ ~OnThread(q)
     /\ viewed' = q.answer
     /\ requests' = Without(requests, {i})
     /\ smudged' = (smudged /\ Toggling(requests'))
     /\ UNCHANGED <<daemon, shown, box, sync, pullSyncs, reload, writes, written, tangled>>

(* onError puts the copy back.  The card's own onError refills the         *)
(* composer, and runs only for the card's latest reply.                    *)
LatestReply(i) == \A j \in DOMAIN requests : j > i => requests[j].kind # "reply"
(* Fault: the composer is refilled only when it is open.                   *)
RefilledIfOpen(i) ==
  IF requests[i].kind = "reply" /\ box # Nothing THEN requests[i].on ELSE box
Refilled(i) ==
  IF requests[i].kind = "reply" /\ LatestReply(i) THEN requests[i].on ELSE box

Fail(i) ==
  LET q == requests[i]
  IN /\ Arrives(i) /\ Failed(q) /\ OnThread(q)
     /\ shown' = q.previous
     /\ box' = Refilled(i)
     /\ requests' = Without(requests, {i})
     /\ tangled' = (tangled \/ q.outcome = "lost" \/ q.crossed)
     /\ UNCHANGED <<daemon, viewed, sync, pullSyncs, reload, writes, written, smudged>>

(* Nothing to put back: the entry is read again.  A read that is already   *)
(* out is dropped for the new one, unless the entry was never loaded.      *)
Fetching(qs) == \E i \in DOMAIN qs : qs[i].kind = "fetch"
Fetched(qs) == IF Fetching(qs) /\ viewed = Nothing THEN qs
               ELSE Upsert(Unfetched(qs), Youngest(qs) + 1, Request("fetch", Nothing, Nothing))
(* Fault: a refused mark stays on the screen.                              *)
KeepMarks(i) ==
  /\ Arrives(i) /\ Failed(requests[i]) /\ requests[i].kind = "toggle"
  /\ requests' = Without(requests, {i})
  /\ UNCHANGED <<daemon, shown, viewed, box, sync, pullSyncs, reload, writes, written,
                 tangled, smudged>>
RestoreMarks(i) ==
  LET q == requests[i]
  IN /\ Arrives(i) /\ Failed(q) /\ q.kind = "toggle"
     /\ viewed' = IF q.previous = Nothing THEN viewed ELSE q.previous
     /\ requests' = IF q.previous = Nothing THEN Fetched(Without(requests, {i}))
                    ELSE Without(requests, {i})
     /\ smudged' = (smudged \/ q.crossed)
     /\ UNCHANGED <<daemon, shown, box, sync, pullSyncs, reload, writes, written, tangled>>

----------------------------------------------------------------------------
(* useSyncPull.  GitHub is read at one moment: SnapshotCache has the rest. *)
StartSync ==
  /\ sync = Nothing /\ pullSyncs < MaxPullSyncs
  /\ pullSyncs' = pullSyncs + 1
  /\ sync' = [read |-> Nothing, crossed |-> \E i \in DOMAIN requests : OnThread(requests[i])]
  /\ UNCHANGED <<daemon, shown, viewed, box, requests, reload, writes, written, tangled, smudged>>

ReadGithub ==
  /\ sync # Nothing /\ sync.read = Nothing
  /\ stored' = SnapshotOf(github, pullSyncs)
  /\ sync' = [sync EXCEPT !.read = stored']
  /\ UNCHANGED <<github, marks, shown, viewed, box, requests, pullSyncs, reload, writes,
                 written, tangled, smudged>>

(* The snapshot replaces the entry, and the marks are read again.          *)
LandSync ==
  /\ sync # Nothing /\ sync.read # Nothing
  /\ shown' = sync.read
  /\ requests' = Fetched(Crossed(requests, OnThread))
  /\ tangled' = sync.crossed
  /\ sync' = Nothing
  /\ UNCHANGED <<daemon, viewed, box, pullSyncs, reload, writes, written, smudged>>

(* It fails before or after the daemon stored; when no answer came, the    *)
(* stored snapshot is read again.                                          *)
FailSync ==
  /\ sync # Nothing
  /\ sync' = Nothing
  /\ reload' \in {reload, TRUE}
  /\ UNCHANGED <<daemon, shown, viewed, box, requests, pullSyncs, writes, written,
                 tangled, smudged>>

Reload ==
  /\ reload /\ reload' = FALSE
  /\ shown' = stored /\ tangled' = TRUE
  /\ requests' = Crossed(requests, OnThread)
  /\ UNCHANGED <<daemon, viewed, box, sync, pullSyncs, writes, written, smudged>>

----------------------------------------------------------------------------
Begin == Reply \/ Resolve \/ React \/ (\E r \in Replies : TypeReply(r)) \/ (\E p \in Paths : Toggle(p))
Syncing == StartSync \/ ReadGithub \/ LandSync \/ FailSync \/ Reload
Wire(i) == Serve(i) \/ Refuse(i) \/ Lose(i)
Settle(i) == Succeed(i) \/ TakeMarks(i) \/ Fail(i) \/ RestoreMarks(i)
CacheNext == Begin \/ Syncing \/ \E i \in DOMAIN requests : Wire(i) \/ Settle(i)

CacheSpec == CacheInit /\ [][CacheNext]_cacheVars

----------------------------------------------------------------------------
Entries == Marks \union {Nothing}
CacheTypeOK ==
  /\ github \in Thread /\ marks \in Marks
  /\ stored \in Snapshots /\ shown \in Snapshots /\ viewed \in Entries
  /\ box \in Replies \union {Nothing} /\ written \subseteq Replies
  /\ pullSyncs \in 0..MaxPullSyncs /\ writes \in 0..MaxWrites
  /\ {reload, tangled, smudged} \subseteq BOOLEAN
  /\ sync # Nothing => sync.read \in Snapshots \union {Nothing} /\ sync.crossed \in BOOLEAN
  /\ \A i \in DOMAIN requests :
       IF OnThread(requests[i]) THEN requests[i].previous \in Snapshots
       ELSE requests[i].previous \in Entries

AllAnswered == sync = Nothing /\ ~reload /\ \A i \in DOMAIN requests : ~OnThread(requests[i])

(* Once everything has settled, the thread on the screen is the thread     *)
(* GitHub has: each reply once, under GitHub's id and with its author      *)
(* recorded, the resolution and the reactions as they are.  Writes may     *)
(* overlap and succeed in any order, and one may fail alone; what breaks   *)
(* it is a rollback over somebody else's change, a lost answer, and a sync *)
(* or a reload that crosses a write - and an uncrossed sync mends it.      *)
SettledShowsGithub ==
  AllAnswered /\ ~tangled => shown = SnapshotOf(github, shown.version)

(* A text typed into a reply is in the composer, on its way, or posted:    *)
(* a failed reply gives it back.                                           *)
TypedTextIsKept ==
  \A r \in written :
    \/ box = r \/ github.posted[r] > 0
    \/ \E i \in DOMAIN requests : requests[i].kind = "reply" /\ requests[i].on = r

(* Once no request about the marks is out, the checkboxes are the marks    *)
(* the daemon keeps, however toggles, refusals and the re-reads of syncs   *)
(* overlapped - unless a toggle was refused that overlapped another, and   *)
(* no answer has brought the whole map since.                              *)
MarksSettled == \A i \in DOMAIN requests : OnThread(requests[i])
SettledShowsMarks == MarksSettled /\ ~smudged => viewed = marks

(* viewed.ts: a toggle rolls back "to the pre-toggle state on failure", so *)
(* a mark that was refused is never left on the screen.                    *)
RefusedMarksGo == MarksSettled => viewed = marks

(* queries.ts, on the snapshot: "a snapshot changes only when the user     *)
(* syncs, never behind their back".  So it never goes back to an older     *)
(* sync's.                                                                 *)
SnapshotNeverGoesBack == [][shown'.version >= shown.version]_cacheVars
=============================================================================
