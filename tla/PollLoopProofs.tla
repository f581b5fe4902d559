--------------------------- MODULE PollLoopProofs ---------------------------
(***************************************************************************)
(* What the broker's pull list promises for any pulls, and however often   *)
(* GitHub moves, calls fail and the broker restarts.                       *)
(*                                                                         *)
(* The argument: a tag is composed of the items it is handed out with; the *)
(* failure streak is the number of ticks without a good one; and because   *)
(* one tick runs at a time, the list a tick read is between the list that  *)
(* is served and GitHub's.                                                 *)
(***************************************************************************)
EXTENDS PollLoop, FiniteSetTheorems, TLAPS

Numbers == 1..MaxMoves + 1

Counted ==
  /\ moves \in 0..MaxMoves
  /\ \A p \in DOMAIN upstream : upstream[p] <= moves + 1
  /\ failed \in 0..MaxFailures
  /\ failures <= failed
  /\ lag = failures

\* Who holds a tag holds the annotations it is composed of.
Tagged ==
  /\ cache # None => cache.etag.annotations = Annotations(cache.items)
  /\ client # None => client.etag.annotations = Annotations(client.items)

\* Items that may be served: each with facts of its own revision, unless the
\* comparison of that revision could not be read.
Fitting(items) ==
  /\ DOMAIN items \subseteq Pulls
  /\ \A p \in DOMAIN items :
       /\ items[p].rev \in Numbers /\ items[p].checks \in Rollups
       /\ items[p].facts = items[p].rev \/ <<p, items[p].rev>> \in skipped

\* One list is no further than another.
UpTo(items, list) ==
  \A p \in DOMAIN items \cap DOMAIN list : items[p].rev <= list[p]

\* A tick that read the list is between what is served and what GitHub has.
TickIsBetween(t) ==
  LET tick == ticks[t] IN
  /\ DOMAIN tick = {"step", "page", "asked", "prior", "tag"}
  /\ tick.step \in {"list", "sweep", "facts"}
  /\ tick.asked \subseteq Pulls
  /\ tick.step = "facts" =>
       /\ IsTable(tick.page, Pulls, Numbers)
       /\ Fitting(tick.prior)
       /\ UpTo(Served, tick.page)
       /\ \A p \in DOMAIN tick.page \cap DOMAIN upstream : tick.page[p] <= upstream[p]

OneTick == \A t, u \in DOMAIN ticks : t = u

Inv ==
  /\ TypeOK
  /\ Counted
  /\ Tagged
  /\ Fitting(Served)
  /\ UpTo(Served, upstream)
  /\ OneTick
  /\ \A t \in DOMAIN ticks : TickIsBetween(t)

-----------------------------------------------------------------------------
LEMMA NumbersAreIntegers == \A n \in Numbers : n \in Int
BY PollAssumption DEF Numbers

LEMMA InitInv == Init => Inv
<1> SUFFICES ASSUME Init PROVE Inv
  OBVIOUS
<1>1. Served = EmptyTable /\ DOMAIN Served = {} /\ DOMAIN ticks = {}
  BY DEF Init, Served, EmptyTable
<1>2. IsTable(upstream, Pulls, Numbers)
  BY PollAssumption DEF Init, IsTable, Numbers
<1>3. ci \in [Pulls -> Rollups]
  BY DEF Init, Rollups
<1>4. TypeOK /\ Counted
  BY <1>1, <1>2, <1>3, PollAssumption DEF Init, TypeOK, Counted, Readings, Records, Numbers
<1>5. QED
  BY <1>1, <1>4 DEF Init, Inv, Tagged, Fitting, UpTo, OneTick

\* GitHub moves, and the host: lists only move on, and the broker is not told.
LEMMA OutsideMoves ==
  ASSUME Inv, Move, Environment,
         DOMAIN upstream' \subseteq DOMAIN upstream,
         IsTable(upstream', Pulls, Int),
         \A p \in DOMAIN upstream' :
           upstream[p] <= upstream'[p] /\ upstream'[p] <= upstream[p] + 1,
         ci' \in [Pulls -> Rollups], file' \in Readings, authored' \subseteq Pulls
  PROVE  Inv'
<1>1. /\ UNCHANGED <<cache, reviewers, failures, ticks, client, failed, lag, skipped>>
      /\ moves' = moves + 1 /\ moves' \in 0..MaxMoves
  BY PollAssumption DEF Move, Environment, broker, Inv, Counted
<1>2. \A p \in DOMAIN upstream' : upstream[p] \in Numbers
  BY DEF Inv, TypeOK, IsTable, Numbers
<1>3. \A p \in DOMAIN upstream' : upstream'[p] \in Numbers /\ upstream'[p] <= moves' + 1
  BY <1>1, <1>2, PollAssumption DEF Inv, Counted, IsTable, Numbers
<1>4. IsTable(upstream', Pulls, Numbers)
  BY <1>3 DEF IsTable
<1>5. TypeOK' /\ Counted'
  BY <1>1, <1>3, <1>4 DEF Inv, TypeOK, Counted, Numbers
<1>6. Served' = Served
  BY <1>1 DEF Served
<1>7. \A p \in DOMAIN Served : Served[p].rev \in Int
  BY NumbersAreIntegers DEF Inv, Fitting
<1>8. UpTo(Served, upstream)'
  BY <1>2, <1>3, <1>6, <1>7 DEF Inv, UpTo, Numbers
<1>9. ASSUME NEW t \in DOMAIN ticks PROVE TickIsBetween(t)'
  <2>1. TickIsBetween(t)
    BY DEF Inv
  <2>2. ASSUME ticks[t].step = "facts", NEW p \in DOMAIN ticks[t].page \cap DOMAIN upstream'
        PROVE  ticks[t].page[p] <= upstream'[p]
    BY <1>2, <1>3, <2>1, <2>2 DEF TickIsBetween, IsTable, Numbers
  <2>3. QED
    BY <1>1, <1>6, <2>1, <2>2 DEF TickIsBetween, Fitting
<1>10. QED
  BY <1>1, <1>5, <1>6, <1>8, <1>9 DEF Inv, Tagged, Fitting, OneTick

LEMMA GithubMoves ==
  ASSUME Inv, NEW p \in Pulls,
         Push(p) \/ Retouch(p) \/ ClosePull(p) \/ CiMoves(p) \/ RecordAuthor(p) \/ EditFile
  PROVE  Inv'
<1>1. IsTable(upstream, Pulls, Int) /\ \A q \in DOMAIN upstream : upstream[q] \in Int
  BY DEF Inv, TypeOK, IsTable
<1>2. /\ ci \in [Pulls -> Rollups] /\ file \in Readings /\ authored \subseteq Pulls
  BY DEF Inv, TypeOK
<1>3. ci' \in [Pulls -> Rollups] /\ file' \in Readings /\ authored' \subseteq Pulls
  BY <1>2 DEF Push, Retouch, ClosePull, CiMoves, RecordAuthor, EditFile, Rollups
<1>4. Move /\ Environment
  BY DEF Push, Retouch, ClosePull, CiMoves, RecordAuthor, EditFile
<1>5. /\ DOMAIN upstream' \subseteq DOMAIN upstream
      /\ IsTable(upstream', Pulls, Int)
      /\ \A q \in DOMAIN upstream' :
           upstream[q] <= upstream'[q] /\ upstream'[q] <= upstream[q] + 1
  <2>1. CASE Push(p) \/ Retouch(p)
    <3>1. p \in DOMAIN upstream /\ upstream' = [upstream EXCEPT ![p] = @ + 1]
      BY <2>1 DEF Push, Retouch
    <3>2. upstream[p] \in Int /\ upstream[p] + 1 \in Int
      BY <1>1, <3>1
    <3>3. /\ IsTable(upstream', Pulls, Int) /\ DOMAIN upstream' = DOMAIN upstream
          /\ upstream'[p] = upstream[p] + 1
          /\ \A q \in DOMAIN upstream : q # p => upstream'[q] = upstream[q]
      BY <1>1, <3>1, <3>2 DEF IsTable
    <3>4. QED
      BY <1>1, <3>2, <3>3
  <2>2. CASE ClosePull(p)
    <3>1. upstream' = Without(upstream, {p})
      BY <2>2 DEF ClosePull
    <3>2. /\ IsTable(upstream', Pulls, Int) /\ DOMAIN upstream' = DOMAIN upstream \ {p}
          /\ \A q \in DOMAIN upstream \ {p} : upstream'[q] = upstream[q]
      BY <1>1, <3>1 DEF IsTable, Without, Restrict
    <3>3. QED
      BY <1>1, <3>2
  <2>3. CASE CiMoves(p) \/ RecordAuthor(p) \/ EditFile
    BY <1>1, <2>3 DEF CiMoves, RecordAuthor, EditFile
  <2>4. QED
    BY <2>1, <2>2, <2>3
<1>6. QED
  BY <1>3, <1>4, <1>5, OutsideMoves

-----------------------------------------------------------------------------
(* The ticks *)

LEMMA StartMoves ==
  ASSUME Inv, NEW t \in Slots, StartTick(t)
  PROVE  Inv'
<1> PICK row : row = [step |-> "list", page |-> None, asked |-> {}, prior |-> EmptyTable,
                      tag |-> IF cache = None THEN None ELSE cache.list]
  OBVIOUS
<1>1. DOMAIN row = {"step", "page", "asked", "prior", "tag"} /\ row.step = "list" /\ row.asked = {}
  OBVIOUS
<1>2. DOMAIN ticks' = {t} /\ ticks'[t] = row
  BY DEF StartTick, Upsert, EmptyTable
<1>3. UNCHANGED <<upstream, ci, file, authored, cache, failures, client, moves, failed, lag, skipped>>
  BY DEF StartTick, outside, ghosts
<1>4. reviewers' \in Records
  BY DEF StartTick, Loaded, Inv, TypeOK
<1>5. TypeOK' /\ Counted' /\ Tagged'
  BY <1>2, <1>3, <1>4 DEF Inv, TypeOK, Counted, Tagged
<1>6. TickIsBetween(t)'
  BY <1>1, <1>2 DEF TickIsBetween
<1>7. Served' = Served
  BY <1>3 DEF Served
<1>8. QED
  BY <1>2, <1>3, <1>5, <1>6, <1>7 DEF Inv, Fitting, UpTo, OneTick

\* A tick that goes on: its own row, and nothing else.
LEMMA TickMoves ==
  ASSUME Inv, NEW t \in DOMAIN ticks, DOMAIN ticks' = DOMAIN ticks, TickIsBetween(t)',
         UNCHANGED <<outside, cache, reviewers, failures, client, ghosts>>
  PROVE  Inv'
<1>1. DOMAIN ticks' = {t}
  BY DEF Inv, OneTick
<1>2. TypeOK' /\ Counted' /\ Tagged'
  BY DEF outside, ghosts, Inv, TypeOK, Counted, Tagged
<1>3. Served' = Served
  BY DEF Served
<1>4. QED
  BY <1>1, <1>2, <1>3 DEF outside, ghosts, Inv, Fitting, UpTo, OneTick

LEMMA ListMoves ==
  ASSUME Inv, NEW t \in Slots, ListUnchanged(t) \/ ListChanged(t)
  PROVE  Inv'
<1>1. t \in DOMAIN ticks /\ TickIsBetween(t)
  BY DEF ListUnchanged, ListChanged, At, Inv
<1>2. UNCHANGED <<outside, cache, reviewers, failures, client, ghosts>>
  BY DEF ListUnchanged, ListChanged
<1>3. Served' = Served /\ UNCHANGED <<upstream, skipped>>
  BY <1>2 DEF Served, outside, ghosts
<1>4. CASE ListUnchanged(t)
  <2>1. /\ DOMAIN ticks' = DOMAIN ticks
        /\ DOMAIN ticks'[t] = DOMAIN ticks[t]
        /\ ticks'[t].step = "sweep" /\ ticks'[t].asked = Unsettled(Served)
    BY <1>1, <1>4 DEF ListUnchanged, TickIsBetween
  <2>2. TickIsBetween(t)'
    BY <1>1, <2>1 DEF TickIsBetween, Unsettled, Inv, Fitting
  <2>3. QED
    BY <1>1, <1>2, <2>1, <2>2, TickMoves
<1>5. CASE ListChanged(t)
  <2>1. /\ DOMAIN ticks' = DOMAIN ticks
        /\ DOMAIN ticks'[t] = DOMAIN ticks[t]
        /\ ticks'[t].step = "facts" /\ ticks'[t].page = upstream /\ ticks'[t].prior = Served
        /\ ticks'[t].asked = Changed(upstream, Served) \cup Unsettled(Served)
    BY <1>1, <1>5 DEF ListChanged, TickIsBetween
  <2>2. IsTable(upstream, Pulls, Numbers) /\ Fitting(Served) /\ UpTo(Served, upstream)
    BY DEF Inv, TypeOK, Numbers
  <2>3. \A p \in DOMAIN upstream : upstream[p] <= upstream[p]
    BY <2>2 DEF IsTable, Numbers
  <2>4. ticks'[t].asked \subseteq Pulls
    BY <2>1, <2>2 DEF Changed, Unsettled, IsTable, Fitting
  <2>5. TickIsBetween(t)'
    BY <1>1, <1>3, <2>1, <2>2, <2>3, <2>4 DEF TickIsBetween, Fitting, UpTo
  <2>6. QED
    BY <1>1, <1>2, <2>1, <2>5, TickMoves
<1>6. QED
  BY <1>4, <1>5

\* A tick that ends, with what it leaves to be served.
LEMMA EndMoves ==
  ASSUME Inv, NEW t \in DOMAIN ticks, End(t),
         UNCHANGED <<outside, reviewers, client, moves>>,
         skipped \subseteq skipped',
         failed' \in 0..MaxFailures, failures' \in Nat, failures' <= failed', lag' = failures',
         Fitting(Served)', UpTo(Served', upstream), Tagged'
  PROVE  Inv'
<1>1. DOMAIN ticks' = {}
  BY DEF End, Without, Restrict, Inv, OneTick
<1>2. failures' \in 0..MaxFailures
  BY PollAssumption
<1>3. TypeOK' /\ Counted'
  BY <1>1, <1>2 DEF outside, Inv, TypeOK, Counted
<1>4. QED
  BY <1>1, <1>3 DEF outside, Inv, UpTo, OneTick

LEMMA FailMoves ==
  ASSUME Inv, NEW t \in Slots, FailTick(t)
  PROVE  Inv'
<1>1. t \in DOMAIN ticks /\ End(t)
  BY DEF FailTick, At
<1>2. /\ UNCHANGED <<outside, cache, reviewers, client, moves, skipped>>
      /\ failures' = failures + 1 /\ lag' = lag + 1
      /\ failed < MaxFailures /\ failed' = failed + 1
  BY DEF FailTick, CountFailure
<1>3. /\ failures \in Nat /\ failed \in Nat /\ failures <= failed /\ lag = failures
  BY PollAssumption DEF Inv, TypeOK, Counted
<1>4. failed' \in 0..MaxFailures /\ failures' \in Nat /\ failures' <= failed' /\ lag' = failures'
  BY <1>2, <1>3, PollAssumption
<1>5. Served' = Served
  BY <1>2 DEF Served
<1>6. Fitting(Served)' /\ UpTo(Served', upstream) /\ Tagged'
  BY <1>2, <1>5 DEF Inv, Fitting, Tagged
<1>7. QED
  BY <1>1, <1>2, <1>4, <1>6, EndMoves

\* What a query leaves unanswered is counted.
LEMMA MissingIsCounted ==
  ASSUME Inv, NEW t, TickIsBetween(t), NEW seen \in Observations(ticks[t].asked),
         NEW others \in Nat, CountMissing(seen, others)
  PROVE  failed' \in 0..MaxFailures
<1>1. DOMAIN seen = ticks[t].asked
  BY DEF Observations
<1>2. IsFiniteSet({p \in DOMAIN seen : seen[p] = Unobserved})
  BY <1>1, PollAssumption, FS_Subset DEF TickIsBetween
<1>3. Cardinality({p \in DOMAIN seen : seen[p] = Unobserved}) \in Nat
  BY <1>2, FS_CardinalityType
<1>4. QED
  BY <1>3, PollAssumption DEF CountMissing, Inv, Counted

\* A pull the query answered for has the rollup it answered with.
LEMMA SettledIsRollup ==
  ASSUME Inv, NEW asked, asked \subseteq Pulls, NEW seen \in Observations(asked), NEW p,
         NEW before \in Rollups
  PROVE  Settle(p, seen, before) \in Rollups
<1>1. ci \in [Pulls -> Rollups]
  BY DEF Inv, TypeOK
<1>2. QED
  BY <1>1 DEF Settle, Observations

\* A tick that succeeds serves what it composed, under a tag of exactly that.
LEMMA SucceedMoves ==
  ASSUME Inv, NEW t \in DOMAIN ticks, NEW list, NEW items, Succeed(t, list, items),
         UNCHANGED <<outside, reviewers, client, moves>>,
         skipped \subseteq skipped', failed' \in 0..MaxFailures,
         DOMAIN items \subseteq Pulls,
         \A p \in DOMAIN items :
           /\ items[p].rev \in Numbers /\ items[p].checks \in Rollups
           /\ items[p].facts = items[p].rev \/ <<p, items[p].rev>> \in skipped',
         UpTo(items, upstream)
  PROVE  Inv' /\ (cache' # None => cache'.items = items)
<1>1. /\ cache' = [list |-> list, items |-> items, etag |-> BrokerEtag(list, items)]
      /\ failures' = 0 /\ lag' = 0 /\ End(t)
  BY DEF Succeed
<1>2. cache'.items = items /\ cache'.etag.annotations = Annotations(items)
  BY <1>1 DEF BrokerEtag
<1>3. Served' = items \/ Served' = EmptyTable
  BY <1>2 DEF Served
<1>4. DOMAIN EmptyTable = {}
  BY DEF EmptyTable
<1>5. Fitting(Served)' /\ UpTo(Served', upstream)
  BY <1>3, <1>4 DEF Fitting, UpTo
<1>6. Tagged'
  BY <1>2 DEF Tagged, Inv
<1>7. QED
  BY <1>1, <1>2, <1>5, <1>6, EndMoves

LEMMA SweepMoves ==
  ASSUME Inv, NEW t \in Slots, LandSweep(t)
  PROVE  /\ Inv'
         /\ cache # None /\ cache' # None => \A p \in DOMAIN cache.items \cap DOMAIN cache'.items :
              cache'.items[p].rev = cache.items[p].rev
<1>1. t \in DOMAIN ticks /\ TickIsBetween(t)
  BY DEF LandSweep, At, Inv
<1>2. UNCHANGED <<outside, reviewers, client, moves, skipped>>
  BY DEF LandSweep
<1>3. PICK seen \in Observations(ticks[t].asked) :
        CountMissing(seen, 0) /\ Succeed(t, cache.list, Sweep(t, seen))
  BY DEF LandSweep
<1>4. failed' \in 0..MaxFailures
  BY <1>1, <1>3, MissingIsCounted
<1> PICK items : items = Sweep(t, seen)
  OBVIOUS
<1>5. /\ DOMAIN items = DOMAIN Served
      /\ \A p \in DOMAIN Served :
           /\ items[p].rev = Served[p].rev /\ items[p].facts = Served[p].facts
           /\ items[p].checks = Settle(p, seen, Served[p].checks)
  BY DEF Sweep, Annotated
<1>6. \A p \in DOMAIN Served : items[p].checks \in Rollups
  <2>1. ticks[t].asked \subseteq Pulls /\ \A p \in DOMAIN Served : Served[p].checks \in Rollups
    BY <1>1 DEF Inv, Fitting, TickIsBetween
  <2>2. QED
    BY <1>5, <2>1, SettledIsRollup
<1>7. Fitting(Served) /\ UpTo(Served, upstream)
  BY DEF Inv
<1>8. /\ DOMAIN items \subseteq Pulls
      /\ \A p \in DOMAIN items :
           /\ items[p].rev \in Numbers /\ items[p].checks \in Rollups
           /\ items[p].facts = items[p].rev \/ <<p, items[p].rev>> \in skipped'
      /\ UpTo(items, upstream)
  BY <1>2, <1>5, <1>6, <1>7 DEF Fitting, UpTo
<1>9. Inv' /\ (cache' # None => cache'.items = items)
  BY <1>1, <1>2, <1>3, <1>4, <1>8, SucceedMoves
<1>10. QED
  BY <1>5, <1>9 DEF Served

LEMMA LandMoves ==
  ASSUME Inv, NEW t \in Slots, LandList(t)
  PROVE  /\ Inv'
         /\ cache # None /\ cache' # None => \A p \in DOMAIN cache.items \cap DOMAIN cache'.items :
              cache.items[p].rev <= cache'.items[p].rev
<1> PICK page, prior : page = ticks[t].page /\ prior = ticks[t].prior
  OBVIOUS
<1>1. t \in DOMAIN ticks /\ ticks[t].step = "facts" /\ TickIsBetween(t)
  BY DEF LandList, At, Inv
<1>2. UNCHANGED <<outside, reviewers, client, moves>>
  BY DEF LandList
<1>3. PICK unread \in SUBSET Fresh(t), seen \in Observations(ticks[t].asked) :
        /\ CountMissing(seen, Cardinality(unread))
        /\ skipped' = skipped \cup {<<p, page[p]>> : p \in unread}
        /\ Succeed(t, page, [p \in DOMAIN page |->
             Annotated(p, page[p], Facts(t, p, unread), Checks(t, p, seen))])
  BY DEF LandList
<1> PICK items : items = [p \in DOMAIN page |->
             Annotated(p, page[p], Facts(t, p, unread), Checks(t, p, seen))]
  OBVIOUS
<1>4. /\ IsTable(page, Pulls, Numbers) /\ Fitting(prior) /\ UpTo(Served, page)
      /\ \A p \in DOMAIN page \cap DOMAIN upstream : page[p] <= upstream[p]
  BY <1>1 DEF TickIsBetween
<1>5. Fresh(t) = {p \in DOMAIN page : p \notin DOMAIN prior \/ prior[p].rev # page[p]}
  BY DEF Fresh, Changed
<1>6. Cardinality(unread) \in Nat
  <2>1. unread \subseteq Pulls
    BY <1>4, <1>5 DEF IsTable
  <2>2. QED
    BY <2>1, PollAssumption, FS_Subset, FS_CardinalityType
<1>7. failed' \in 0..MaxFailures
  BY <1>1, <1>3, <1>6, MissingIsCounted
<1>8. /\ DOMAIN items = DOMAIN page
      /\ \A p \in DOMAIN page :
           /\ items[p].rev = page[p] /\ items[p].facts = Facts(t, p, unread)
           /\ items[p].checks = Checks(t, p, seen)
  BY DEF Annotated
<1>9. ASSUME NEW p \in DOMAIN page
      PROVE  /\ items[p].rev \in Numbers /\ items[p].checks \in Rollups
             /\ items[p].facts = items[p].rev \/ <<p, items[p].rev>> \in skipped'
  <2>1. items[p].rev \in Numbers
    BY <1>4, <1>8 DEF IsTable
  <2>2. items[p].checks \in Rollups
    <3>1. (IF p \in DOMAIN prior THEN prior[p].checks ELSE "absent") \in Rollups
      BY <1>4 DEF Fitting, Rollups
    <3>2. ticks[t].asked \subseteq Pulls
      BY <1>1 DEF TickIsBetween
    <3>3. QED
      BY <1>8, <3>1, <3>2, SettledIsRollup DEF Checks
  <2>3. items[p].facts = items[p].rev \/ <<p, items[p].rev>> \in skipped'
    <3>1. CASE p \in Fresh(t) \ unread
      BY <1>8, <3>1 DEF Facts
    <3>2. CASE p \in unread
      BY <1>3, <1>8, <3>2
    <3>3. CASE p \notin Fresh(t)
      <4>1. p \in DOMAIN prior /\ prior[p].rev = page[p]
        BY <1>5, <3>3
      <4>2. items[p].facts = prior[p].facts
        BY <1>8, <3>3, <4>1 DEF Facts
      <4>3. prior[p].facts = prior[p].rev \/ <<p, prior[p].rev>> \in skipped
        BY <1>4, <4>1 DEF Fitting
      <4>4. QED
        BY <1>3, <1>8, <4>1, <4>2, <4>3
    <3>4. QED
      BY <3>1, <3>2, <3>3
  <2>4. QED
    BY <2>1, <2>2, <2>3
<1>10. DOMAIN items \subseteq Pulls /\ UpTo(items, upstream)
  BY <1>4, <1>8 DEF IsTable, UpTo
<1>11. Inv' /\ (cache' # None => cache'.items = items)
  BY <1>1, <1>2, <1>3, <1>7, <1>8, <1>9, <1>10, SucceedMoves
<1>12. cache # None => \A p \in DOMAIN cache.items \cap DOMAIN page : cache.items[p].rev <= page[p]
  BY <1>4 DEF Served, UpTo
<1>13. QED
  BY <1>8, <1>11, <1>12

-----------------------------------------------------------------------------
LEMMA RestartMoves == ASSUME Inv, Restart PROVE Inv'
<1>1. /\ UNCHANGED <<upstream, ci, file, authored, client, moves, failed, skipped>>
      /\ cache' = None /\ reviewers' = "none" /\ failures' = 0 /\ lag' = 0 /\ ticks' = EmptyTable
  BY DEF Restart, outside
<1>2. DOMAIN ticks' = {} /\ DOMAIN Served' = {}
  BY <1>1 DEF Served, EmptyTable
<1>3. TypeOK' /\ Counted'
  BY <1>1, <1>2, PollAssumption DEF Inv, TypeOK, Counted, Records
<1>4. QED
  BY <1>1, <1>2, <1>3 DEF Inv, Tagged, Fitting, UpTo, OneTick

LEMMA ClientMoves == ASSUME Inv, ClientPolls PROVE Inv'
<1>1. /\ UNCHANGED <<upstream, ci, file, authored, cache, reviewers, failures, ticks,
                     moves, failed, lag, skipped>>
      /\ cache # None
      /\ client' = [etag |-> cache.etag, items |-> cache.items]
  BY DEF ClientPolls, outside, broker, ghosts, Unavailable
<1>2. client'.etag = cache.etag /\ client'.items = cache.items
  BY <1>1
<1>3. Tagged'
  BY <1>1, <1>2 DEF Inv, Tagged
<1>4. Served' = Served
  BY <1>1 DEF Served
<1>5. \A t \in DOMAIN ticks : TickIsBetween(t)'
  BY <1>1, <1>4 DEF Inv, TickIsBetween, Fitting
<1>6. QED
  BY <1>1, <1>3, <1>4, <1>5 DEF Inv, TypeOK, Counted, Fitting, UpTo, OneTick

MovesOn ==
  cache # None /\ cache' # None =>
    \A p \in DOMAIN cache.items \cap DOMAIN cache'.items :
      cache.items[p].rev <= cache'.items[p].rev

LEMMA StillMovesOn == ASSUME Inv, UNCHANGED cache PROVE MovesOn
<1>1. cache # None => \A p \in DOMAIN cache.items : cache.items[p].rev \in Int
  BY NumbersAreIntegers DEF Inv, Fitting, Served
<1>2. QED
  BY <1>1 DEF MovesOn

LEMMA NextMoves == ASSUME Inv, [Next]_vars PROVE Inv' /\ MovesOn
<1>1. CASE UNCHANGED vars
  <2>1. Served' = Served
    BY <1>1 DEF vars, Served
  <2>2. \A t \in DOMAIN ticks : TickIsBetween(t)'
    BY <1>1, <2>1 DEF vars, Inv, TickIsBetween, Fitting
  <2>3. QED
    BY <1>1, <2>1, <2>2, StillMovesOn DEF vars, Inv, TypeOK, Counted, Tagged, Fitting, UpTo, OneTick
<1>2. CASE Github
  <2>1. PICK p \in Pulls :
          Push(p) \/ Retouch(p) \/ ClosePull(p) \/ CiMoves(p) \/ RecordAuthor(p)
    BY <1>2 DEF Github
  <2>2. UNCHANGED cache
    BY <2>1 DEF Push, Retouch, ClosePull, CiMoves, RecordAuthor, Environment, broker
  <2>3. QED
    BY <2>1, <2>2, GithubMoves, StillMovesOn
<1>3. CASE EditFile
  <2>1. /\ Move /\ Environment /\ UNCHANGED <<upstream, ci, authored, cache>> /\ file' \in Readings
    BY <1>3 DEF EditFile, Environment, broker
  <2>2. /\ IsTable(upstream, Pulls, Int) /\ \A p \in DOMAIN upstream : upstream[p] \in Int
        /\ ci \in [Pulls -> Rollups] /\ authored \subseteq Pulls
    BY DEF Inv, TypeOK, IsTable
  <2>3. Inv'
    BY <2>1, <2>2, OutsideMoves
  <2>4. QED
    BY <2>1, <2>3, StillMovesOn
<1>4. ASSUME NEW t \in Slots, StartTick(t) \/ TickStep(t) \/ FailTick(t)
      PROVE  Inv' /\ MovesOn
  <2>1. CASE StartTick(t) \/ ListUnchanged(t) \/ ListChanged(t) \/ FailTick(t)
    <3>1. UNCHANGED cache
      BY <2>1 DEF StartTick, ListUnchanged, ListChanged, FailTick
    <3>2. QED
      BY <2>1, <3>1, StartMoves, ListMoves, FailMoves, StillMovesOn
  <2>2. CASE LandSweep(t)
    <3>1. cache # None => \A p \in DOMAIN cache.items : cache.items[p].rev \in Int
      BY NumbersAreIntegers DEF Inv, Fitting, Served
    <3>2. QED
      BY <2>2, <3>1, SweepMoves DEF MovesOn
  <2>3. CASE LandList(t)
    BY <2>3, LandMoves DEF MovesOn
  <2>4. QED
    BY <1>4, <2>1, <2>2, <2>3 DEF TickStep
<1>5. CASE Restart
  BY <1>5, RestartMoves DEF Restart, MovesOn
<1>6. CASE ClientPolls
  <2>1. UNCHANGED cache
    BY <1>6 DEF ClientPolls, broker
  <2>2. QED
    BY <1>6, <2>1, ClientMoves, StillMovesOn
<1>7. QED
  BY <1>1, <1>2, <1>3, <1>4, <1>5, <1>6 DEF Next

LEMMA InvHolds == Spec => []Inv
<1>1. Inv /\ [Next]_vars => Inv'
  BY NextMoves
<1>2. QED
  BY InitInv, <1>1, PTL DEF Spec

-----------------------------------------------------------------------------

\* Every variable of the poll loop keeps its type (poll-loop.ts).
THEOREM TypeCorrect == Spec => []TypeOK
<1>1. Inv => TypeOK
  BY DEF Inv
<1>2. QED
  BY <1>1, InvHolds, PTL

\* A client whose tag is the broker's holds the broker's rollups, authors and
\* reviewers, whichever process handed the tag out (brokerEtag).
THEOREM SameTagIsSameMeta == Spec => []SameTagSameMeta
<1>1. Inv => SameTagSameMeta
  BY DEF Inv, Tagged, SameTagSameMeta
<1>2. QED
  BY <1>1, InvHolds, PTL

\* After maxStaleTicks ticks without a good one no list is served (listPulls):
\* the streak counts every tick that read less than the list and the facts.
THEOREM OutagesAreTold == Spec => []OutageIsTold
<1>1. Inv => OutageIsTold
  BY DEF Inv, Counted, OutageIsTold, Unavailable
<1>2. QED
  BY <1>1, InvHolds, PTL

\* The compare key served with a pull is that of its own head and base, unless
\* the comparison of exactly these failed (changedNumbers, fetchFacts).
THEOREM KeysFitTheirPulls == Spec => []KeyFitsPull
<1>1. Inv => KeyFitsPull
  BY DEF Inv, Fitting, KeyFitsPull
<1>2. QED
  BY <1>1, InvHolds, PTL

\* The list served only moves on, which is why ticks never overlap.
THEOREM TheListMovesOn == Spec => ListMovesOn
<1>1. Inv /\ [Next]_vars => [MovesOn]_vars
  BY NextMoves
<1>2. Spec => [][MovesOn]_vars
  BY <1>1, InvHolds, PTL DEF Spec
<1>3. QED
  BY <1>2 DEF ListMovesOn, MovesOn
=============================================================================
