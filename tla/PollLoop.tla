------------------------------ MODULE PollLoop ------------------------------
(***************************************************************************)
(* The broker's pull list: a conditional poll of GitHub every half minute  *)
(* feeds an in-memory cache, and clients read the cache conditionally on   *)
(* an entity tag the broker composes.                                      *)
(*                                                                         *)
(* Only what the tags and the change detection tell apart is kept.  A pull *)
(* in GitHub's list is a revision: any move of its head, its base or its   *)
(* updated_at.  GitHub's own tag is the list it names.  Facts read for a   *)
(* pull (threads, commits, compare key) are the revision they were read    *)
(* for; its CI rollup and the host's annotations move with no revision.    *)
(***************************************************************************)
EXTENDS Integers, FiniteSets, Tables

CONSTANTS
  Pulls,
  Slots,        \* ticks that can be running at once, were nothing to stop them
  MaxStaleTicks,\* failing ticks tolerated before the list is unavailable
  MaxMoves,     \* bound: changes GitHub and the host make
  MaxFailures,  \* bound: calls that fail, rollups not answered for
  MaxRestarts,  \* bound: times the broker restarts
  None

ASSUME PollAssumption ==
  /\ IsFiniteSet(Pulls)
  /\ MaxStaleTicks \in Nat \ {0}
  /\ MaxMoves \in Nat /\ MaxFailures \in Nat /\ MaxRestarts \in Nat

VARIABLES
  upstream, \* GitHub: open pull -> revision
  ci,       \* GitHub: pull -> the rollup of its head
  file,     \* the reviewers file, as a read of it turns out
  authored, \* table pr_author: pulls whose author is recorded
  cache,    \* CacheState, or None before the first successful list
  reviewers,\* the last good reviewers record
  failures, \* consecutiveFailures
  ticks,    \* slot -> the pollOnce running in it
  client,   \* what a client last got: its tag and its items
  moves, failed, restarts, \* counters
  lag,      \* history: ticks that ended since one last succeeded in full
  skipped   \* history: <<pull, revision>> whose comparison could not be read

outside == <<upstream, ci, file, authored>>
broker  == <<cache, reviewers, failures, ticks>>
ghosts  == <<moves, failed, restarts, lag, skipped>>
vars    == <<upstream, ci, file, authored, cache, reviewers, failures, ticks,
             client, moves, failed, restarts, lag, skipped>>

Rollups == {"absent", "pending", "settled"}
Records == {"none", "some"}
Readings == Records \cup {"unreadable"}
Revisions == 0..MaxMoves

(* The CI rollup a facts query brings back for a pull it was asked about:  *)
(* what is there, or nothing at all (the query did not answer for it).     *)
Unobserved == "unobserved"

Item == [rev: Revisions, facts: Revisions, checks: Rollups,
         author: BOOLEAN, assigned: Records]

(* brokerEtag: GitHub's tag of the list, and a hash of what the host and   *)
(* CI add to it.  The facts are not in it.                                 *)
Annotations(items) ==
  [p \in DOMAIN items |->
     [checks |-> items[p].checks, author |-> items[p].author, assigned |-> items[p].assigned]]
BrokerEtag(list, items) == [list |-> list, annotations |-> Annotations(items)]

Init ==
  /\ upstream \in [Pulls -> {1}] /\ ci \in [Pulls -> {"absent", "pending"}]
  /\ file = "none" /\ authored = {}
  /\ cache = None /\ reviewers = "none" /\ failures = 0 /\ ticks = EmptyTable
  /\ client = None
  /\ moves = 0 /\ failed = 0 /\ restarts = 0 /\ lag = 0 /\ skipped = {}

----------------------------------------------------------------------------
(* GitHub and the host.                                                    *)
Move == moves < MaxMoves /\ moves' = moves + 1
Environment == UNCHANGED <<broker, client, failed, restarts, lag, skipped>>

(* A new head: CI may already run on it, or may not have registered yet.   *)
Push(p) ==
  /\ Move /\ Environment
  /\ p \in DOMAIN upstream
  /\ upstream' = [upstream EXCEPT ![p] = @ + 1]
  /\ \E s \in {"absent", "pending"} : ci' = [ci EXCEPT ![p] = s]
  /\ UNCHANGED <<file, authored>>

(* The base advances, or a title or label is edited.                       *)
Retouch(p) ==
  /\ Move /\ Environment
  /\ p \in DOMAIN upstream
  /\ upstream' = [upstream EXCEPT ![p] = @ + 1]
  /\ UNCHANGED <<ci, file, authored>>

ClosePull(p) ==
  /\ Move /\ Environment
  /\ p \in DOMAIN upstream
  /\ upstream' = Without(upstream, {p})
  /\ UNCHANGED <<ci, file, authored>>

(* CI moves and the list does not.                                         *)
CiMoves(p) ==
  /\ Move /\ Environment
  /\ p \in DOMAIN upstream
  /\ \E s \in {"pending", "settled"} : s # ci[p] /\ ci' = [ci EXCEPT ![p] = s]
  /\ UNCHANGED <<upstream, file, authored>>

EditFile ==
  /\ Move /\ Environment
  /\ \E r \in Readings : r # file /\ file' = r
  /\ UNCHANGED <<upstream, ci, authored>>

(* recordPrAuthor: the first record stays.                                 *)
RecordAuthor(p) ==
  /\ Move /\ Environment
  /\ p \notin authored /\ authored' = authored \cup {p}
  /\ UNCHANGED <<upstream, ci, file>>

----------------------------------------------------------------------------
(* load: a file that cannot be read or does not validate leaves the last   *)
(* good record in place.                                                   *)
Loaded == IF file \in Records THEN file ELSE reviewers

(* A tick starts unless one is still running.                              *)
(* Fault: it starts all the same.                                          *)
StartOverlapping(t) ==
  /\ t \notin DOMAIN ticks
  /\ reviewers' = Loaded
  /\ ticks' = Upsert(ticks, t, [step |-> "list", page |-> None, asked |-> {}, prior |-> EmptyTable,
                                tag |-> IF cache = None THEN None ELSE cache.list])
  /\ UNCHANGED <<outside, cache, failures, client, ghosts>>
StartTick(t) ==
  /\ ticks = EmptyTable
  /\ reviewers' = Loaded
  /\ ticks' = Upsert(ticks, t, [step |-> "list", page |-> None, asked |-> {}, prior |-> EmptyTable,
                                tag |-> IF cache = None THEN None ELSE cache.list])
  /\ UNCHANGED <<outside, cache, failures, client, ghosts>>

At(t, step) == t \in DOMAIN ticks /\ ticks[t].step = step
End(t) == ticks' = Without(ticks, {t})
Served == IF cache = None THEN EmptyTable ELSE cache.items

(* unsettledNumbers, changedNumbers.                                       *)
(* Fault: nothing is watched; a pull once listed is never read again.      *)
WatchNothing(items) == {}
OnlyNew(page, prior) == {p \in DOMAIN page : p \notin DOMAIN prior}
Unsettled(items) == {p \in DOMAIN items : items[p].checks = "pending"}
Changed(page, prior) == {p \in DOMAIN page : p \notin DOMAIN prior \/ prior[p].rev # page[p]}

(* A call fails: the credential is away, GitHub is down, the query is      *)
(* refused.  Only the sweep of a 304 absorbs it.                           *)
CountFailure == failed < MaxFailures /\ failed' = failed + 1
FailTick(t) ==
  /\ At(t, "list") \/ (At(t, "facts") /\ ticks[t].asked # {})
  /\ CountFailure
  /\ failures' = failures + 1 /\ lag' = lag + 1
  /\ End(t)
  /\ UNCHANGED <<outside, cache, reviewers, client, moves, restarts, skipped>>

(* 304: the list the tag names is still the list.                          *)
ListUnchanged(t) ==
  /\ At(t, "list") /\ ticks[t].tag = upstream
  /\ ticks' = [ticks EXCEPT ![t].step = "sweep", ![t].asked = Unsettled(Served)]
  /\ UNCHANGED <<outside, cache, reviewers, failures, client, ghosts>>

(* 200.  The cache it is compared with is the one of this moment.          *)
(* Fault: the list alone clears the failure streak.                        *)
ListClearsStreak(t) ==
  /\ At(t, "list") /\ ticks[t].tag # upstream
  /\ ticks' = [ticks EXCEPT ![t].step = "facts", ![t].page = upstream, ![t].prior = Served,
       ![t].asked = Changed(upstream, Served) \cup Unsettled(Served)]
  /\ failures' = 0
  /\ UNCHANGED <<outside, cache, reviewers, client, ghosts>>
ListChanged(t) ==
  /\ At(t, "list") /\ ticks[t].tag # upstream
  /\ ticks' = [ticks EXCEPT ![t].step = "facts", ![t].page = upstream, ![t].prior = Served,
       ![t].asked = Changed(upstream, Served) \cup Unsettled(Served)]
  /\ UNCHANGED <<outside, cache, reviewers, failures, client, ghosts>>

(* One batched query: a rollup for each pull asked about, or none.         *)
Observations(asked) ==
  {seen \in [asked -> Rollups \cup {Unobserved}] :
     \A p \in asked : seen[p] \in {ci[p], Unobserved}}
CountMissing(seen, others) ==
  /\ failed' = failed + others + Cardinality({p \in DOMAIN seen : seen[p] = Unobserved})
  /\ failed' <= MaxFailures
Settle(p, seen, before) ==
  IF p \in DOMAIN seen /\ seen[p] # Unobserved THEN seen[p] ELSE before

Annotated(p, rev, facts, checks) ==
  [rev |-> rev, facts |-> facts, checks |-> checks,
   author |-> p \in authored, assigned |-> reviewers]

Succeed(t, list, items) ==
  /\ cache' = [list |-> list, items |-> items, etag |-> BrokerEtag(list, items)]
  /\ failures' = 0 /\ lag' = 0
  /\ End(t)

Sweep(t, seen) ==
  [p \in DOMAIN Served |->
     Annotated(p, Served[p].rev, Served[p].facts, Settle(p, seen, Served[p].checks))]

(* The sweep's answer, or its failure, which is absorbed; then the cached  *)
(* items are annotated afresh.                                             *)
(* Fault: a 304 means the tag still fits.                                  *)
LandSweepKeepTag(t) ==
  /\ At(t, "sweep")
  /\ \E seen \in Observations(ticks[t].asked) :
       /\ CountMissing(seen, 0)
       /\ cache' = [cache EXCEPT !.items = Sweep(t, seen)]
  /\ failures' = 0 /\ lag' = 0
  /\ End(t)
  /\ UNCHANGED <<outside, reviewers, client, moves, restarts, skipped>>
LandSweep(t) ==
  /\ At(t, "sweep")
  /\ \E seen \in Observations(ticks[t].asked) :
       /\ CountMissing(seen, 0)
       /\ Succeed(t, cache.list, Sweep(t, seen))
  /\ UNCHANGED <<outside, reviewers, client, moves, restarts, skipped>>

(* The comparisons come one by one; one that fails leaves its pull with    *)
(* the facts it had, or the first-seen defaults.                           *)
Fresh(t) == Changed(ticks[t].page, ticks[t].prior)
Facts(t, p, unread) ==
  IF p \in Fresh(t) \ unread THEN ticks[t].page[p]
  ELSE IF p \in DOMAIN ticks[t].prior THEN ticks[t].prior[p].facts ELSE 0
Checks(t, p, seen) ==
  Settle(p, seen, IF p \in DOMAIN ticks[t].prior THEN ticks[t].prior[p].checks ELSE "absent")

LandList(t) ==
  /\ At(t, "facts")
  /\ \E unread \in SUBSET Fresh(t), seen \in Observations(ticks[t].asked) :
       /\ CountMissing(seen, Cardinality(unread))
       /\ skipped' = skipped \cup {<<p, ticks[t].page[p]>> : p \in unread}
       /\ Succeed(t, ticks[t].page,
            [p \in DOMAIN ticks[t].page |->
               Annotated(p, ticks[t].page[p], Facts(t, p, unread), Checks(t, p, seen))])
  /\ UNCHANGED <<outside, reviewers, client, moves, restarts>>

(* The process ends and another starts with an empty cache.                *)
Restart ==
  /\ restarts < MaxRestarts /\ restarts' = restarts + 1
  /\ cache' = None /\ reviewers' = "none" /\ failures' = 0 /\ ticks' = EmptyTable
  /\ lag' = 0
  /\ UNCHANGED <<outside, client, moves, failed, skipped>>

----------------------------------------------------------------------------
(* listPulls, and the client's conditional read of it: a matching tag      *)
(* keeps what the client has, an outage is an error and keeps it too.      *)
Unavailable == cache = None \/ failures >= MaxStaleTicks
HeldTag == IF client = None THEN None ELSE client.etag
ClientPolls ==
  /\ ~Unavailable
  /\ HeldTag # cache.etag
  /\ client' = [etag |-> cache.etag, items |-> cache.items]
  /\ UNCHANGED <<outside, broker, ghosts>>

Github == \E p \in Pulls : Push(p) \/ Retouch(p) \/ ClosePull(p) \/ CiMoves(p) \/ RecordAuthor(p)
TickStep(t) == ListUnchanged(t) \/ ListChanged(t) \/ LandSweep(t) \/ LandList(t)
Next ==
  \/ Github \/ EditFile
  \/ \E t \in Slots : StartTick(t) \/ TickStep(t) \/ FailTick(t)
  \/ Restart \/ ClientPolls

Spec == Init /\ [][Next]_vars

(* The timer keeps ticking, calls settle (failing at most MaxFailures      *)
(* times), and clients keep polling.                                       *)
FairSpec ==
  /\ Spec
  /\ WF_vars(\E t \in Slots : StartTick(t))
  /\ WF_vars(\E t \in Slots : TickStep(t))
  /\ WF_vars(ClientPolls)

----------------------------------------------------------------------------

TypeOK ==
  /\ IsTable(upstream, Pulls, 1..MaxMoves + 1) /\ ci \in [Pulls -> Rollups]
  /\ file \in Readings /\ reviewers \in Records /\ authored \subseteq Pulls
  /\ failures \in 0..MaxFailures /\ DOMAIN ticks \subseteq Slots

(* poll-loop.ts: the tag "is also meta-sensitive": a client whose tag is   *)
(* the broker's holds the broker's annotations and rollups, whatever moved *)
(* on a 304 and whichever process handed the tag out.                      *)
SameTagSameMeta ==
  client # None /\ cache # None /\ client.etag = cache.etag =>
    Annotations(client.items) = Annotations(cache.items)

(* The reason ticks never overlap: the list served only ever moves on.     *)
ListMovesOn ==
  [][cache # None /\ cache' # None =>
       \A p \in DOMAIN cache.items \cap DOMAIN cache'.items :
         cache.items[p].rev <= cache'.items[p].rev]_vars

(* "... rather than silently serving an indefinitely stale read": after    *)
(* MaxStaleTicks ticks without one that read both the list and the facts,  *)
(* nothing is served.                                                      *)
OutageIsTold == lag >= MaxStaleTicks => Unavailable

(* The compare key a pull is served with is that of the head and base it   *)
(* is served with, unless the comparison of exactly these could not be     *)
(* read.                                                                   *)
KeyFitsPull ==
  \A p \in DOMAIN Served :
    Served[p].facts = Served[p].rev \/ <<p, Served[p].rev>> \in skipped

(* "an UNSETTLED rollup is itself a change signal": a client that shows CI *)
(* running on a pull does not go on showing it once nothing runs.          *)
PendingIsNotForever ==
  \A p \in Pulls :
    []<>(\/ client = None \/ p \notin DOMAIN client.items
         \/ client.items[p].checks # "pending"
         \/ ci[p] = "pending")
=============================================================================
