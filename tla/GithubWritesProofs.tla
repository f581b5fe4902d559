------------------------- MODULE GithubWritesProofs -------------------------
(***************************************************************************)
(* What the writes promise for any number of slots, heads and comments.    *)
(*                                                                         *)
(* The argument: GitHub's list of reviews only grows, so what a request    *)
(* knows of a review stays true until it answers.  A request that passed   *)
(* the retry check holds every review equal to its own among its           *)
(* candidates; it rejects only those that differ; so when it posts there   *)
(* is none, and as long as submits are served one at a time there is none  *)
(* when the post lands either.                                             *)
(***************************************************************************)
EXTENDS GithubWrites, NaturalsInduction, WellFoundedInduction, TLAPS

-----------------------------------------------------------------------------
(* Writing and deleting rows keeps a table a table of its type.            *)
LEMMA UpsertTable ==
  ASSUME NEW K, NEW V, NEW t, IsTable(t, K, V), NEW k \in K, NEW v \in V
  PROVE  /\ IsTable(Upsert(t, k, v), K, V)
         /\ DOMAIN Upsert(t, k, v) = DOMAIN t \cup {k}
         /\ Upsert(t, k, v)[k] = v
         /\ \A x \in DOMAIN t : x # k => Upsert(t, k, v)[x] = t[x]
BY DEF IsTable, Upsert

LEMMA WithoutTable ==
  ASSUME NEW K, NEW V, NEW t, IsTable(t, K, V), NEW S
  PROVE  /\ IsTable(Without(t, S), K, V)
         /\ DOMAIN Without(t, S) = DOMAIN t \ S
         /\ \A x \in DOMAIN t \ S : Without(t, S)[x] = t[x]
BY DEF IsTable, Without, Restrict

LEMMA UpsertType ==
  ASSUME NEW K, NEW V, NEW t, IsTable(t, K, V), NEW k \in K, NEW v \in V
  PROVE  IsTable(Upsert(t, k, v), K, V) /\ DOMAIN Upsert(t, k, v) = DOMAIN t \cup {k}
BY DEF IsTable, Upsert

LEMMA WithoutType ==
  ASSUME NEW K, NEW V, NEW t, IsTable(t, K, V), NEW S
  PROVE  IsTable(Without(t, S), K, V) /\ DOMAIN Without(t, S) = DOMAIN t \ S
BY DEF IsTable, Without, Restrict

LEMMA EmptyTableIsTable ==
  ASSUME NEW K, NEW V
  PROVE  IsTable(EmptyTable, K, V) /\ DOMAIN EmptyTable = {}
BY DEF IsTable, EmptyTable

LEMMA ExceptTable ==
  ASSUME NEW K, NEW V, NEW t, IsTable(t, K, V), NEW k \in DOMAIN t, NEW v \in V
  PROVE  /\ IsTable([t EXCEPT ![k] = v], K, V)
         /\ DOMAIN [t EXCEPT ![k] = v] = DOMAIN t
         /\ [t EXCEPT ![k] = v][k] = v
         /\ \A x \in DOMAIN t : x # k => [t EXCEPT ![k] = v][x] = t[x]
BY DEF IsTable

(* A set of naturals has a least element.                                  *)
LEMMA LeastNatural ==
  ASSUME NEW T \in SUBSET Nat, T # {}
  PROVE  \E x \in T : \A y \in T : x <= y
<1>1. PICK x \in T : \A y \in T : <<y, x>> \notin OpToRel(<, Nat)
  BY NatLessThanWellFounded, WFMin, Zenon
<1>2. \A y \in T : ~(y < x)
  BY <1>1 DEF OpToRel
<1>3. \A y \in T : x <= y
  BY <1>2
<1> QED
  BY <1>3

-----------------------------------------------------------------------------

SubmitSteps == {"guard", "list", "match", "posting", "comments"}
WriteSteps  == {"reply", "resolve", "unresolve", "react"}

Job ==
  [step: SubmitSteps \cup WriteSteps, draft: Draft \cup {None},
   expected: Heads \cup {0}, commit: Heads \cup {0},
   candidates: SUBSET Nat, review: Nat]
Call == [landed: BOOLEAN, review: Review \cup {None}]

\* The review a job posts, and the one it looks for.
Posted(job) ==
  [author |-> Viewer, commit |-> job.commit, says |-> job.draft.says, of |-> job.draft.of]

\* A submit carries the row it was given, and the row is still that one.
CarriesTheRow(q) ==
  jobs[q].step \in SubmitSteps =>
    /\ jobs[q].draft \in Draft /\ jobs[q].draft # None
    /\ draft \in {None, jobs[q].draft}

\* What a request holds when it is about to use it.
HoldsWhatItUses(q) ==
  LET job == jobs[q] IN
  /\ job.step \in {"list", "match", "posting"} => job.commit \in Heads
  /\ job.step = "match" =>
       /\ job.candidates # {}
       /\ \A i \in job.candidates : i \in DOMAIN reviews /\ ReviewMatches(reviews[i], job)
  /\ job.step = "posting" =>
       /\ q \in DOMAIN calls /\ calls[q].review = Posted(job)
       /\ calls[q].landed =>
            job.review \in DOMAIN reviews /\ reviews[job.review] = Posted(job)
  /\ job.step = "comments" =>
       job.review \in DOMAIN reviews /\ reviews[job.review].says = job.draft.says
  /\ q \in DOMAIN calls /\ ~calls[q].landed => job.step = "posting"

Tabled ==
  /\ IsTable(jobs, Slots, Job)
  /\ IsTable(calls, Slots, Call)

Inv ==
  /\ TypeOK
  /\ Tabled
  /\ draft # None => started # 0
  /\ \A q \in DOMAIN jobs : CarriesTheRow(q) /\ HoldsWhatItUses(q)

\* The second argument, for submits served one at a time.
OneSubmit == \A q, r \in Submits : q = r

\* No review a request posted, or will look at, escapes its retry check.
Seen(q) ==
  \A i \in DOMAIN reviews :
    /\ jobs[q].step = "match" /\ reviews[i] = Posted(jobs[q]) => i \in jobs[q].candidates
    /\ jobs[q].step = "posting" /\ reviews[i] = Posted(jobs[q]) => calls[q].landed

OnceInv ==
  /\ Inv
  /\ OneSubmit
  /\ \A q \in DOMAIN jobs : Seen(q)
  /\ PostedOncePerHead

-----------------------------------------------------------------------------
(* What one request does leaves the others as they were. *)

Grown ==
  /\ \A i \in DOMAIN reviews : i \in DOMAIN reviews' /\ reviews'[i] = reviews[i]
  /\ draft' \in {draft, None}

Kept(r) ==
  /\ r \in DOMAIN jobs /\ jobs'[r] = jobs[r]
  /\ r \in DOMAIN calls' <=> r \in DOMAIN calls
  /\ r \in DOMAIN calls => calls'[r] = calls[r]

Holds(q) == CarriesTheRow(q) /\ HoldsWhatItUses(q)

LEMMA KeptHolds ==
  ASSUME NEW r, Holds(r), Grown, Kept(r)
  PROVE  Holds(r)'
<1>1. CarriesTheRow(r)'
  BY DEF Holds, CarriesTheRow, Grown, Kept
<1>2. HoldsWhatItUses(r)'
  BY DEF Holds, HoldsWhatItUses, Grown, Kept, ReviewMatches, Posted
<1>3. QED
  BY <1>1, <1>2 DEF Holds

\* A step of one request: its own row, and GitHub's answer to it.
LEMMA OneMoves ==
  ASSUME Inv, NEW q \in Slots, Grown, UNCHANGED started, TypeOK', Tabled',
         \A r \in DOMAIN jobs' \ {q} : Kept(r),
         q \in DOMAIN jobs' => Holds(q)'
  PROVE  Inv'
<1>1. \A r \in DOMAIN jobs' : Holds(r)'
  BY KeptHolds DEF Inv, Holds, Kept
<1>2. QED
  BY <1>1 DEF Inv, Holds, Grown

\* A request that ends takes its row and its call with it.
LEMMA EndMoves ==
  ASSUME Inv, NEW q \in Slots, End(q), UNCHANGED <<github, started>>,
         draft' \in {draft, None}
  PROVE  Inv'
<1>0. IsTable(jobs, Slots, Job) /\ IsTable(calls, Slots, Call)
  BY DEF Inv, Tabled
<1>1. /\ IsTable(jobs', Slots, Job) /\ DOMAIN jobs' = DOMAIN jobs \ {q}
      /\ IsTable(calls', Slots, Call) /\ DOMAIN calls' = DOMAIN calls \ {q}
  BY <1>0, WithoutType DEF End
<1>2. /\ \A r \in DOMAIN jobs \ {q} : jobs'[r] = jobs[r]
      /\ \A r \in DOMAIN calls \ {q} : calls'[r] = calls[r]
  BY DEF End, Without, Restrict
<1>3. Grown
  BY DEF Grown, github
<1>4. TypeOK'
  BY <1>1, <1>2 DEF Inv, TypeOK, github
<1>5. \A r \in DOMAIN jobs' \ {q} : Kept(r)
  BY <1>1, <1>2 DEF Kept
<1>6. QED
  BY <1>1, <1>2, <1>3, <1>4, <1>5, OneMoves DEF Tabled

\* The row of a slot is a job.
LEMMA RowIsJob ==
  ASSUME Inv, NEW q \in DOMAIN jobs
  PROVE  /\ q \in Slots /\ jobs[q] \in Job /\ Holds(q)
         /\ q \in DOMAIN calls => calls[q] \in Call
BY DEF Inv, Tabled, IsTable, Holds, TypeOK

\* What a submit posts once it passed the guard is a review.
LEMMA PostedIsReview ==
  ASSUME NEW job \in Job, job.draft \in Draft, job.commit \in Heads
  PROVE  Posted(job) \in Review
BY DEF Job, Draft, Posted, Review

\* The candidates that are left have a first one.
LEMMA CandidateIsOne ==
  ASSUME Inv, NEW q, At(q, "match")
  PROVE  Candidate(q) \in jobs[q].candidates
<1>1. q \in DOMAIN jobs /\ jobs[q].step = "match"
  BY DEF At
<1>2. jobs[q].candidates \in SUBSET Nat /\ jobs[q].candidates # {}
  BY <1>1, RowIsJob DEF Job, Holds, HoldsWhatItUses
<1>3. \E i \in jobs[q].candidates : \A j \in jobs[q].candidates : i <= j
  BY <1>2, LeastNatural, Zenon
<1>4. QED
  BY <1>3 DEF Candidate

-----------------------------------------------------------------------------
(* The steps, one by one *)

\* A request of which nothing but its row and its call changes.
LEMMA RowMoves ==
  ASSUME Inv, NEW q \in DOMAIN jobs, NEW job \in Job,
         jobs' = [jobs EXCEPT ![q] = job],
         IsTable(calls', Slots, Call), DOMAIN calls' \subseteq DOMAIN jobs,
         \A r \in Slots \ {q} :
           /\ r \in DOMAIN calls' <=> r \in DOMAIN calls
           /\ r \in DOMAIN calls => calls'[r] = calls[r],
         UNCHANGED <<draft, started>>, Grown,
         TypeOK' \/ UNCHANGED <<github, started>>,
         jobs'[q] = job => Holds(q)'
  PROVE  Inv' /\ jobs'[q] = job
<1>1. /\ IsTable(jobs', Slots, Job) /\ DOMAIN jobs' = DOMAIN jobs /\ jobs'[q] = job
      /\ \A r \in DOMAIN jobs : r # q => jobs'[r] = jobs[r]
  BY ExceptTable DEF Inv, Tabled
<1>2. TypeOK'
  BY <1>1 DEF Inv, TypeOK, github
<1>3. \A r \in DOMAIN jobs' \ {q} : Kept(r)
  BY <1>1 DEF Kept, Inv, TypeOK
<1>4. Tabled' /\ Holds(q)' /\ q \in Slots
  BY <1>1, RowIsJob DEF Tabled
<1>5. QED
  BY <1>1, <1>2, <1>3, <1>4, OneMoves

LEMMA GrownByNothing ==
  ASSUME UNCHANGED reviews, draft' \in {draft, None}
  PROVE  Grown
BY DEF Grown

LEMMA PassGuardMoves ==
  ASSUME Inv, NEW q \in Slots, PassGuard(q)
  PROVE  Inv'
<1> DEFINE job == [jobs[q] EXCEPT !.commit = head, !.step = "list"]
<1>1. q \in DOMAIN jobs /\ jobs[q].step = "guard"
  BY DEF PassGuard, At
<1>2. jobs[q] \in Job /\ Holds(q) /\ head \in Heads /\ (q \in DOMAIN calls => calls[q] \in Call)
  BY <1>1, RowIsJob DEF Inv, TypeOK
<1>3. job \in Job /\ job.step = "list" /\ job.commit = head /\ job.draft = jobs[q].draft
  BY <1>2 DEF Job, SubmitSteps
<1>4. jobs' = [jobs EXCEPT ![q] = job]
  BY DEF PassGuard
<1>5. UNCHANGED <<github, draft, calls, started>> /\ Grown
  BY GrownByNothing DEF PassGuard, disk, github
<1>6. jobs'[q] = job => Holds(q)'
  BY <1>1, <1>2, <1>3, <1>5
     DEF Holds, CarriesTheRow, HoldsWhatItUses, SubmitSteps, Call
<1> HIDE DEF job
<1>7. QED
  BY <1>1, <1>3, <1>4, <1>5, <1>6, RowMoves DEF Inv, TypeOK, Tabled

\* The retry check goes on with the candidates that are left, or posts.
LEMMA PursueMoves ==
  ASSUME Inv, NEW q \in Slots, At(q, "list") \/ At(q, "match"),
         NEW candidates \in SUBSET Nat,
         \A i \in candidates : i \in DOMAIN reviews /\ ReviewMatches(reviews[i], jobs[q]),
         Pursue(q, candidates), UNCHANGED <<github, disk, started>>
  PROVE  /\ Inv'
         /\ jobs'[q].draft = jobs[q].draft /\ jobs'[q].commit = jobs[q].commit
         /\ jobs'[q].candidates = candidates
         /\ jobs'[q].step = IF candidates = {} THEN "posting" ELSE "match"
         /\ DOMAIN jobs' = DOMAIN jobs
         /\ \A r \in DOMAIN jobs \ {q} : jobs'[r] = jobs[r]
<1> DEFINE step == IF candidates = {} THEN "posting" ELSE "match"
           job  == [jobs[q] EXCEPT !.candidates = candidates, !.step = step]
<1>1. q \in DOMAIN jobs /\ jobs[q].step \in {"list", "match"}
  BY DEF At
<1>2. /\ jobs[q] \in Job /\ Holds(q)
      /\ jobs[q].commit \in Heads /\ jobs[q].draft \in Draft
      /\ q \in DOMAIN calls => calls[q] \in Call /\ calls[q].landed
  BY <1>1, RowIsJob DEF Holds, HoldsWhatItUses, CarriesTheRow, SubmitSteps, Call
<1>3. /\ job \in Job /\ job.step = step /\ job.candidates = candidates
      /\ job.draft = jobs[q].draft /\ job.commit = jobs[q].commit
  BY <1>2 DEF Job, SubmitSteps
<1>4. jobs' = [jobs EXCEPT ![q] = job]
  BY DEF Pursue
<1>5. UNCHANGED <<github, draft, started>> /\ Grown
  BY GrownByNothing DEF disk, github
<1> DEFINE call == [landed |-> FALSE, review |-> Posted(jobs[q])]
<1>6. call \in Call
  BY <1>2, PostedIsReview DEF Call
<1>7. /\ IsTable(calls', Slots, Call) /\ DOMAIN calls' \subseteq DOMAIN jobs
      /\ \A r \in Slots \ {q} :
           /\ r \in DOMAIN calls' <=> r \in DOMAIN calls
           /\ r \in DOMAIN calls => calls'[r] = calls[r]
      /\ candidates = {} => q \in DOMAIN calls' /\ calls'[q] = call
      /\ candidates # {} => calls' = calls
  <2>1. CASE candidates # {}
    BY <2>1 DEF Pursue, Inv, Tabled, TypeOK
  <2>2. CASE candidates = {}
    <3>1. calls' = Upsert(calls, q, call)
      BY <2>2 DEF Pursue, Posted
    <3> HIDE DEF call
    <3>a. IsTable(calls, Slots, Call)
      BY DEF Inv, Tabled
    <3>2. /\ IsTable(Upsert(calls, q, call), Slots, Call)
          /\ DOMAIN Upsert(calls, q, call) = DOMAIN calls \cup {q}
          /\ Upsert(calls, q, call)[q] = call
          /\ \A x \in DOMAIN calls : x # q => Upsert(calls, q, call)[x] = calls[x]
      BY <1>6, <3>a, UpsertTable
    <3>3. QED
      BY <1>1, <2>2, <3>1, <3>2 DEF Inv, TypeOK
  <2>3. QED
    BY <2>1, <2>2
<1>8. ASSUME jobs'[q] = job
      PROVE  Holds(q)'
  <2>1. CarriesTheRow(q)'
    BY <1>1, <1>2, <1>3, <1>5, <1>8 DEF Holds, CarriesTheRow, SubmitSteps
  <2>2. HoldsWhatItUses(q)'
    BY <1>2, <1>3, <1>5, <1>7, <1>8 DEF HoldsWhatItUses, ReviewMatches, Posted, github
  <2>3. QED
    BY <2>1, <2>2 DEF Holds
<1> HIDE DEF job, call, step
<1>9. Inv' /\ jobs'[q] = job
  BY <1>1, <1>3, <1>4, <1>5, <1>7, <1>8, RowMoves
<1>10. QED
  BY <1>3, <1>4, <1>9 DEF step

\* A review that was found or confirmed is the one its comments are read of.
LEMMA AdoptMoves ==
  ASSUME Inv, NEW q \in DOMAIN jobs, jobs[q].step \in {"match", "posting"},
         NEW i \in DOMAIN reviews, reviews[i].says = jobs[q].draft.says,
         Adopt(q, i), UNCHANGED <<github, draft, started>>
  PROVE  Inv'
<1> DEFINE job == [jobs[q] EXCEPT !.review = i, !.step = "comments"]
<1>1. jobs[q] \in Job /\ Holds(q)
  BY RowIsJob
<1>2. i \in Nat
  BY DEF Inv, TypeOK
<1>3. job \in Job /\ job.step = "comments" /\ job.review = i /\ job.draft = jobs[q].draft
  BY <1>1, <1>2 DEF Job, SubmitSteps
<1>4. jobs' = [jobs EXCEPT ![q] = job]
  BY DEF Adopt
<1>5. Grown
  BY GrownByNothing DEF github
<1>6. /\ IsTable(calls', Slots, Call) /\ DOMAIN calls' = DOMAIN calls \ {q}
      /\ \A r \in DOMAIN calls \ {q} : calls'[r] = calls[r]
  <2>1. IsTable(calls, Slots, Call)
    BY DEF Inv, Tabled
  <2>2. QED
    BY <2>1, WithoutTable DEF Adopt
<1>7. jobs'[q] = job => Holds(q)'
  BY <1>1, <1>3, <1>6 DEF Holds, CarriesTheRow, HoldsWhatItUses, SubmitSteps, github
<1> HIDE DEF job
<1>8. QED
  BY <1>3, <1>4, <1>5, <1>6, <1>7, RowMoves DEF Inv, TypeOK

LEMMA LandReviewMoves ==
  ASSUME Inv, NEW q \in Slots, LandReview(q)
  PROVE  /\ Inv'
         /\ q \in DOMAIN jobs /\ jobs[q].step = "posting" /\ jobs'[q].step = "posting"
         /\ reviews' = Append(reviews, Posted(jobs[q])) /\ calls'[q].landed
<1>1. q \in DOMAIN calls /\ ~calls[q].landed /\ q \in DOMAIN jobs
  BY DEF LandReview, Inv, TypeOK
<1>2. jobs[q] \in Job /\ Holds(q) /\ calls[q] \in Call
  BY <1>1, RowIsJob
<1>3. /\ jobs[q].step = "posting" /\ calls[q].review = Posted(jobs[q])
      /\ jobs[q].draft \in Draft /\ jobs[q].commit \in Heads
  BY <1>1, <1>2 DEF Holds, HoldsWhatItUses, CarriesTheRow, SubmitSteps
<1>4. Posted(jobs[q]) \in Review
  BY <1>2, <1>3, PostedIsReview
<1>5. /\ reviews' = Append(reviews, Posted(jobs[q])) /\ reviews \in Seq(Review)
      /\ Len(reviews') = Len(reviews) + 1 /\ Len(reviews') <= MaxReviews
      /\ Len(reviews) \in Nat
      /\ \A i \in DOMAIN reviews : i \in DOMAIN reviews' /\ reviews'[i] = reviews[i]
      /\ Len(reviews') \in DOMAIN reviews' /\ reviews'[Len(reviews')] = Posted(jobs[q])
  BY <1>3, <1>4, WritesAssumption DEF LandReview, Inv, TypeOK
<1> DEFINE job  == [jobs[q] EXCEPT !.review = Len(reviews')]
           call == [calls[q] EXCEPT !.landed = TRUE]
<1>6. /\ job \in Job /\ job.step = "posting" /\ job.review = Len(reviews')
      /\ job.draft = jobs[q].draft /\ job.commit = jobs[q].commit
  BY <1>2, <1>3, <1>5 DEF Job
<1>7. call \in Call /\ call.landed /\ call.review = Posted(jobs[q])
  BY <1>2, <1>3 DEF Call
<1>8. jobs' = [jobs EXCEPT ![q] = job]
  BY DEF LandReview
<1>9. calls' = [calls EXCEPT ![q] = call]
  BY DEF LandReview
<1>10. UNCHANGED <<head, thread, draft, started>>
  BY DEF LandReview, disk
<1> HIDE DEF call
<1>11. /\ IsTable(calls', Slots, Call) /\ DOMAIN calls' = DOMAIN calls /\ calls'[q] = call
       /\ \A r \in DOMAIN calls : r # q => calls'[r] = calls[r]
  BY <1>1, <1>7, <1>9, ExceptTable DEF Inv, Tabled
<1>12. Posted(job) = Posted(jobs[q])
  BY <1>6 DEF Posted
<1> HIDE DEF job
<1>13. /\ IsTable(jobs', Slots, Job) /\ DOMAIN jobs' = DOMAIN jobs /\ jobs'[q] = job
       /\ \A r \in DOMAIN jobs : r # q => jobs'[r] = jobs[r]
  BY <1>1, <1>6, <1>8, ExceptTable DEF Inv, Tabled
<1>14. Holds(q)'
  <2>1. CarriesTheRow(q)'
    BY <1>2, <1>3, <1>6, <1>10, <1>13 DEF Holds, CarriesTheRow, SubmitSteps
  <2>2. HoldsWhatItUses(q)'
    BY <1>2, <1>3, <1>5, <1>6, <1>7, <1>11, <1>12, <1>13, <1>1 DEF HoldsWhatItUses
  <2>3. QED
    BY <2>1, <2>2 DEF Holds
<1>15. Grown
  BY <1>5, <1>10 DEF Grown
<1>16. TypeOK'
  BY <1>4, <1>5, <1>10, <1>11, <1>13 DEF Inv, TypeOK
<1>17. \A r \in DOMAIN jobs' \ {q} : Kept(r)
  BY <1>11, <1>13 DEF Kept
<1>18. Inv'
  BY <1>10, <1>11, <1>13, <1>14, <1>15, <1>16, <1>17, OneMoves DEF Tabled
<1>19. QED
  BY <1>1, <1>3, <1>5, <1>6, <1>7, <1>11, <1>13, <1>18

\* A request starts in a slot that was free.
LEMMA StartMoves ==
  ASSUME Inv, NEW q \in Slots, q \notin DOMAIN jobs, NEW job \in Job,
         jobs' = Upsert(jobs, q, job), UNCHANGED <<github, disk, calls, started>>,
         \/ job.step = "guard" /\ job.draft = draft /\ draft \in Draft /\ draft # None
         \/ job.step \in WriteSteps
  PROVE  Inv' /\ jobs'[q] = job /\ DOMAIN jobs' = DOMAIN jobs \cup {q}
              /\ \A r \in DOMAIN jobs : jobs'[r] = jobs[r]
<1>1. /\ IsTable(Upsert(jobs, q, job), Slots, Job)
      /\ DOMAIN Upsert(jobs, q, job) = DOMAIN jobs \cup {q}
      /\ Upsert(jobs, q, job)[q] = job
      /\ \A r \in DOMAIN jobs : r # q => Upsert(jobs, q, job)[r] = jobs[r]
  <2>1. IsTable(jobs, Slots, Job)
    BY DEF Inv, Tabled
  <2>2. QED
    BY <2>1, UpsertTable
<1>2. /\ IsTable(jobs', Slots, Job) /\ DOMAIN jobs' = DOMAIN jobs \cup {q} /\ jobs'[q] = job
      /\ \A r \in DOMAIN jobs : jobs'[r] = jobs[r]
  BY <1>1
<1>3. q \notin DOMAIN calls
  BY DEF Inv, TypeOK
<1>4. CarriesTheRow(q)'
  BY <1>2 DEF CarriesTheRow, SubmitSteps, WriteSteps, disk
<1>5. HoldsWhatItUses(q)'
  BY <1>2, <1>3 DEF HoldsWhatItUses, WriteSteps
<1>6. Grown
  BY GrownByNothing DEF github, disk
<1>7. TypeOK' /\ Tabled'
  BY <1>2 DEF Inv, TypeOK, Tabled, github, disk
<1>8. \A r \in DOMAIN jobs' \ {q} : Kept(r)
  BY <1>2 DEF Kept
<1>9. QED
  BY <1>2, <1>4, <1>5, <1>6, <1>7, <1>8, OneMoves DEF Holds

LEMMA NewJobIsJob ==
  ASSUME NEW step \in SubmitSteps \cup WriteSteps
  PROVE  NewJob(step) \in Job /\ NewJob(step).step = step /\ NewJob(step).draft = None
BY DEF NewJob, Job

LEMMA StartSubmitMoves ==
  ASSUME Inv, NEW q \in Slots, NEW h \in Heads, StartSubmit(q, h)
  PROVE  /\ Inv' /\ jobs'[q].step = "guard" /\ DOMAIN jobs' = DOMAIN jobs \cup {q}
         /\ \A r \in DOMAIN jobs : jobs'[r] = jobs[r]
<1> DEFINE job == [NewJob("guard") EXCEPT !.draft = draft, !.expected = h]
<1>1. draft \in Draft /\ draft # None /\ q \notin DOMAIN jobs
  BY DEF StartSubmit, Inv, TypeOK
<1>2. job \in Job /\ job.step = "guard" /\ job.draft = draft
  BY <1>1, NewJobIsJob DEF Job, SubmitSteps, NewJob
<1>3. jobs' = Upsert(jobs, q, job) /\ UNCHANGED <<github, disk, calls, started>>
  BY DEF StartSubmit
<1> HIDE DEF job
<1>4. QED
  BY <1>1, <1>2, <1>3, StartMoves

LEMMA StartWriteMoves ==
  ASSUME Inv, NEW q \in Slots, NEW verb \in WriteSteps, StartWrite(q, verb)
  PROVE  /\ Inv' /\ jobs'[q].step = verb /\ DOMAIN jobs' = DOMAIN jobs \cup {q}
         /\ \A r \in DOMAIN jobs : jobs'[r] = jobs[r]
<1>1. NewJob(verb) \in Job /\ NewJob(verb).step = verb
  BY NewJobIsJob
<1>2. q \notin DOMAIN jobs /\ jobs' = Upsert(jobs, q, NewJob(verb))
  BY DEF StartWrite
<1>3. QED
  BY <1>1, <1>2, StartMoves DEF StartWrite

LEMMA LandWriteMoves ==
  ASSUME Inv, NEW q \in Slots, LandWrite(q)
  PROVE  /\ Inv' /\ DOMAIN jobs' = DOMAIN jobs
         /\ q \in DOMAIN jobs /\ jobs'[q].step = jobs[q].step /\ jobs[q].step \in WriteSteps
         /\ \A r \in DOMAIN jobs : r # q => jobs'[r] = jobs[r]
<1>1. q \in DOMAIN jobs /\ jobs[q].step \in WriteSteps
  BY DEF LandWrite, Effects, WriteSteps
<1>2. jobs[q] \in Job /\ Holds(q)
  BY <1>1, RowIsJob
<1>3. thread \in [replies: 0..MaxReplies, resolved: BOOLEAN, reacted: BOOLEAN]
  BY DEF Inv, TypeOK
<1>4. thread' \in [replies: 0..MaxReplies, resolved: BOOLEAN, reacted: BOOLEAN]
  <2>1. CASE jobs[q].step = "reply"
    <3>1. thread' = [thread EXCEPT !.replies = @ + 1] /\ thread.replies < MaxReplies
      BY <2>1 DEF LandWrite, Effects
    <3>2. QED
      BY <1>3, <3>1, WritesAssumption
  <2>2. CASE jobs[q].step # "reply"
    <3>1. \/ thread' = [thread EXCEPT !.resolved = TRUE]
          \/ thread' = [thread EXCEPT !.resolved = FALSE]
          \/ thread' = [thread EXCEPT !.reacted = TRUE]
      <4>1. thread' = Effects[jobs[q].step]
        BY DEF LandWrite
      <4>2. /\ Effects["resolve"] = [thread EXCEPT !.resolved = TRUE]
            /\ Effects["unresolve"] = [thread EXCEPT !.resolved = FALSE]
            /\ Effects["react"] = [thread EXCEPT !.reacted = TRUE]
        BY DEF Effects
      <4>3. QED
        BY <1>1, <2>2, <4>1, <4>2 DEF WriteSteps
    <3>2. QED
      BY <1>3, <3>1
  <2>3. QED
    BY <2>1, <2>2
<1> DEFINE job == [jobs[q] EXCEPT !.review = thread'.replies]
<1>5. job \in Job /\ job.step = jobs[q].step
  BY <1>2, <1>4, WritesAssumption DEF Job
<1>6. PICK call \in Call : call = [landed |-> TRUE, review |-> None]
  BY DEF Call
<1>7. jobs' = [jobs EXCEPT ![q] = job] /\ calls' = Upsert(calls, q, call)
  BY <1>6 DEF LandWrite
<1> HIDE DEF job
<1>8. IsTable(calls, Slots, Call) /\ IsTable(jobs, Slots, Job)
  BY DEF Inv, Tabled
<1>9. /\ IsTable(calls', Slots, Call) /\ DOMAIN calls' = DOMAIN calls \cup {q} /\ calls'[q] = call
      /\ \A r \in DOMAIN calls : r # q => calls'[r] = calls[r]
  <2>1. /\ IsTable(Upsert(calls, q, call), Slots, Call)
        /\ DOMAIN Upsert(calls, q, call) = DOMAIN calls \cup {q}
    BY <1>8, UpsertType
  <2>2. /\ Upsert(calls, q, call)[q] = call
        /\ \A r \in DOMAIN calls : r # q => Upsert(calls, q, call)[r] = calls[r]
    BY DEF Upsert
  <2>3. QED
    BY <1>7, <2>1, <2>2
<1>10. /\ IsTable(jobs', Slots, Job) /\ DOMAIN jobs' = DOMAIN jobs /\ jobs'[q] = job
       /\ \A r \in DOMAIN jobs : r # q => jobs'[r] = jobs[r]
  BY <1>1, <1>5, <1>7, <1>8, ExceptTable
<1>11. UNCHANGED <<head, reviews, draft, started>> /\ Grown
  BY GrownByNothing DEF LandWrite, disk
<1>12. Holds(q)'
  BY <1>1, <1>5, <1>6, <1>9, <1>10 DEF Holds, CarriesTheRow, HoldsWhatItUses, SubmitSteps, WriteSteps
<1>13. TypeOK'
  BY <1>1, <1>4, <1>9, <1>10, <1>11 DEF Inv, TypeOK
<1>14. \A r \in DOMAIN jobs' \ {q} : Kept(r)
  BY <1>9, <1>10 DEF Kept
<1>15. QED
  BY <1>1, <1>5, <1>9, <1>10, <1>11, <1>12, <1>13, <1>14, OneMoves DEF Tabled

LEMMA ListReviewsMoves ==
  ASSUME Inv, NEW q \in Slots, ListReviews(q)
  PROVE  Inv'
<1> DEFINE found == {i \in DOMAIN reviews : ReviewMatches(reviews[i], jobs[q])}
<1>1. found \in SUBSET Nat /\ \A i \in found : i \in DOMAIN reviews /\ ReviewMatches(reviews[i], jobs[q])
  BY DEF Inv, TypeOK
<1>2. At(q, "list") /\ Pursue(q, found) /\ UNCHANGED <<github, disk, started>>
  BY DEF ListReviews
<1> HIDE DEF found
<1>3. QED
  BY <1>1, <1>2, PursueMoves

LEMMA RejectCandidateMoves ==
  ASSUME Inv, NEW q \in Slots, RejectCandidate(q)
  PROVE  Inv'
<1> DEFINE left == jobs[q].candidates \ {Candidate(q)}
<1>1. At(q, "match") /\ Pursue(q, left) /\ UNCHANGED <<github, disk, started>>
  BY DEF RejectCandidate
<1>2. q \in DOMAIN jobs /\ jobs[q].step = "match"
  BY <1>1 DEF At
<1>3. jobs[q] \in Job /\ Holds(q)
  BY <1>2, RowIsJob
<1>4. left \in SUBSET Nat /\ \A i \in left : i \in DOMAIN reviews /\ ReviewMatches(reviews[i], jobs[q])
  BY <1>2, <1>3 DEF Job, Holds, HoldsWhatItUses
<1> HIDE DEF left
<1>5. QED
  BY <1>1, <1>4, PursueMoves

\* What the retry check accepts says what the draft says.
LEMMA AcceptedSaysIt ==
  ASSUME Inv, NEW q, At(q, "match"), CommentsMatch(reviews[Candidate(q)], jobs[q])
  PROVE  /\ Candidate(q) \in DOMAIN reviews
         /\ reviews[Candidate(q)].says = jobs[q].draft.says
<1>1. q \in DOMAIN jobs /\ jobs[q].step = "match"
  BY DEF At
<1>2. Candidate(q) \in jobs[q].candidates
  BY CandidateIsOne
<1>3. jobs[q] \in Job /\ Holds(q) /\ jobs[q].draft \in Draft
  BY <1>1, RowIsJob DEF Holds, CarriesTheRow, SubmitSteps
<1>4. Candidate(q) \in DOMAIN reviews /\ ReviewMatches(reviews[Candidate(q)], jobs[q])
  BY <1>1, <1>2, <1>3 DEF Holds, HoldsWhatItUses
<1>5. reviews[Candidate(q)] \in Review
  BY <1>4 DEF Inv, TypeOK
<1>6. /\ reviews[Candidate(q)].says \in Says /\ jobs[q].draft.says \in Says
      /\ reviews[Candidate(q)].says.summary = jobs[q].draft.says.summary
      /\ reviews[Candidate(q)].says.comments = jobs[q].draft.says.comments
  BY <1>3, <1>4, <1>5 DEF Review, Draft, ReviewMatches, CommentsMatch
<1>7. QED
  BY <1>4, <1>6 DEF Says

LEMMA AcceptCandidateMoves ==
  ASSUME Inv, NEW q \in Slots, AcceptCandidate(q)
  PROVE  Inv'
<1>1. At(q, "match") /\ CommentsMatch(reviews[Candidate(q)], jobs[q])
  BY DEF AcceptCandidate
<1>2. QED
  BY <1>1, AcceptedSaysIt, AdoptMoves DEF AcceptCandidate, At

LEMMA ReviewConfirmedMoves ==
  ASSUME Inv, NEW q \in Slots, ReviewConfirmed(q)
  PROVE  Inv'
<1>1. q \in DOMAIN jobs /\ jobs[q].step = "posting" /\ calls[q].landed
  BY DEF ReviewConfirmed, At
<1>2. jobs[q].review \in DOMAIN reviews /\ reviews[jobs[q].review] = Posted(jobs[q])
  BY <1>1, RowIsJob DEF Holds, HoldsWhatItUses
<1>3. QED
  BY <1>1, <1>2, AdoptMoves DEF ReviewConfirmed, Posted

\* The steps that end a request.
Ends(q) ==
  \/ FailCall(q) \/ HeadMoved(q) \/ Forbidden(q) \/ Conflict(q) \/ LoseAnswer(q)
  \/ RecordFails(q) \/ FinishSubmit(q) \/ DeleteFails(q) \/ WriteConfirmed(q) \/ LoseWrite(q)

LEMMA EndsEnd ==
  ASSUME NEW q, Ends(q)
  PROVE  End(q) /\ UNCHANGED <<github, started>> /\ draft' \in {draft, None}
<1>1. CASE FinishSubmit(q)
  BY <1>1 DEF FinishSubmit
<1>2. CASE WriteConfirmed(q)
  BY <1>2 DEF WriteConfirmed
<1>3. CASE FailCall(q) \/ HeadMoved(q) \/ Forbidden(q) \/ Conflict(q) \/ LoseAnswer(q)
  BY <1>3 DEF FailCall, HeadMoved, Forbidden, Conflict, LoseAnswer, disk
<1>4. CASE RecordFails(q) \/ DeleteFails(q) \/ LoseWrite(q)
  BY <1>4 DEF RecordFails, DeleteFails, LoseWrite, disk
<1>5. QED
  BY <1>1, <1>2, <1>3, <1>4 DEF Ends

\* The reviewer edits while nothing is being submitted; GitHub's branch moves;
\* the daemon stops.
LEMMA IdleMoves ==
  ASSUME Inv, UNCHANGED <<jobs, calls, reviews, thread>>, head' \in Heads,
         started' \in 0..MaxDrafts, draft' \in Draft \cup {None},
         draft' = draft \/ Submits = {}, draft' # None => started' # 0
  PROVE  Inv'
<1>1. TypeOK' /\ Tabled'
  BY DEF Inv, TypeOK, Tabled
<1>2. ASSUME NEW q \in DOMAIN jobs'
      PROVE  CarriesTheRow(q)' /\ HoldsWhatItUses(q)'
  <2>1. CarriesTheRow(q) /\ HoldsWhatItUses(q)
    BY <1>2 DEF Inv
  <2>2. CarriesTheRow(q)'
    BY <1>2, <2>1 DEF CarriesTheRow, Submits
  <2>3. HoldsWhatItUses(q)'
    BY <2>1 DEF HoldsWhatItUses, ReviewMatches, Posted
  <2>4. QED
    BY <2>2, <2>3
<1>3. QED
  BY <1>1, <1>2 DEF Inv

LEMMA PutDraftMoves ==
  ASSUME Inv, NEW says \in Says, PutDraft(says)
  PROVE  Inv'
<1>1. started' \in 0..MaxDrafts /\ draft' \in Draft /\ started' # 0
  <2>1. CASE draft = None /\ started < MaxDrafts /\ started' = started + 1
    BY <2>1, WritesAssumption DEF PutDraft, Inv, TypeOK, Draft
  <2>2. CASE draft # None /\ started' = started
    <3>1. started \in 1..MaxDrafts
      BY <2>2, WritesAssumption DEF Inv, TypeOK
    <3>2. QED
      BY <2>2, <3>1 DEF PutDraft, Draft
  <2>3. QED
    BY <2>1, <2>2 DEF PutDraft
<1>2. QED
  BY <1>1, IdleMoves DEF PutDraft, github, Inv, TypeOK

LEMMA RestartMoves ==
  ASSUME Inv, Restart
  PROVE  Inv'
<1>1. DOMAIN jobs' = {} /\ DOMAIN calls' = {}
  BY EmptyTableIsTable DEF Restart
<1>2. IsTable(jobs', Slots, Job) /\ IsTable(calls', Slots, Call)
  BY EmptyTableIsTable DEF Restart
<1>3. QED
  BY <1>1, <1>2 DEF Restart, Inv, TypeOK, Tabled, github, disk

LEMMA InitHolds ==
  ASSUME Init
  PROVE  Inv
<1>1. DOMAIN jobs = {} /\ DOMAIN calls = {}
      /\ IsTable(jobs, Slots, Job) /\ IsTable(calls, Slots, Call)
  BY EmptyTableIsTable DEF Init
<1>2. reviews \in Seq(Review) /\ Len(reviews) = 0
  BY DEF Init
<1>3. QED
  BY <1>1, <1>2, WritesAssumption DEF Init, Inv, TypeOK, Tabled, Heads

\* The steps of a request, told apart by what they do to its row.
LEMMA StepsOfARequest ==
  ASSUME Inv, NEW q \in Slots, SubmitStep(q) \/ WriteStep(q)
  PROVE  \/ \E h \in Heads : StartSubmit(q, h)
         \/ PassGuard(q) \/ ListReviews(q) \/ RejectCandidate(q) \/ AcceptCandidate(q)
         \/ LandReview(q) \/ ReviewConfirmed(q) \/ LandWrite(q)
         \/ \E verb \in WriteSteps : StartWrite(q, verb)
         \/ Ends(q)
BY DEF SubmitStep, WriteStep, Ends, Effects, WriteSteps

LEMMA InvStep ==
  ASSUME Inv, [Next]_vars
  PROVE  Inv'
<1>1. ASSUME NEW q \in Slots, SubmitStep(q) \/ WriteStep(q)
      PROVE  Inv'
  <2>1. ASSUME NEW h \in Heads, StartSubmit(q, h)
        PROVE  Inv'
    BY <2>1, StartSubmitMoves
  <2>2. ASSUME NEW verb \in WriteSteps, StartWrite(q, verb)
        PROVE  Inv'
    BY <2>2, StartWriteMoves
  <2>3. CASE PassGuard(q)
    BY <2>3, PassGuardMoves
  <2>4. CASE ListReviews(q)
    BY <2>4, ListReviewsMoves
  <2>5. CASE RejectCandidate(q)
    BY <2>5, RejectCandidateMoves
  <2>6. CASE AcceptCandidate(q)
    BY <2>6, AcceptCandidateMoves
  <2>7. CASE LandReview(q)
    BY <2>7, LandReviewMoves
  <2>8. CASE ReviewConfirmed(q)
    BY <2>8, ReviewConfirmedMoves
  <2>9. CASE LandWrite(q)
    BY <2>9, LandWriteMoves
  <2>10. CASE Ends(q)
    BY <2>10, EndsEnd, EndMoves
  <2>11. QED
    BY <1>1, <2>1, <2>2, <2>3, <2>4, <2>5, <2>6, <2>7, <2>8, <2>9, <2>10, StepsOfARequest
<1>2. CASE \E says \in Says : PutDraft(says)
  BY <1>2, PutDraftMoves
<1>3. CASE DiscardDraft
  BY <1>3, IdleMoves DEF DiscardDraft, github, Inv, TypeOK
<1>4. CASE Push
  <2>1. head' \in Heads
    BY <1>4, WritesAssumption DEF Push, Inv, TypeOK, Heads
  <2>2. QED
    BY <1>4, <2>1, IdleMoves DEF Push, disk, Inv, TypeOK
<1>5. CASE Restart
  BY <1>5, RestartMoves
<1>6. CASE UNCHANGED vars
  BY <1>6, IdleMoves DEF vars, Inv, TypeOK
<1>7. QED
  BY <1>1, <1>2, <1>3, <1>4, <1>5, <1>6 DEF Next

\* The state of every request is well formed, whatever is lost or refused.
THEOREM TypeCorrect == Spec => []TypeOK
<1>1. Init => Inv
  BY InitHolds
<1>2. Inv /\ [Next]_vars => Inv'
  BY InvStep
<1>3. Inv => TypeOK
  BY DEF Inv
<1>4. QED
  BY <1>1, <1>2, <1>3, PTL DEF Spec

-----------------------------------------------------------------------------
(* The draft and the journal *)

\* Only a submit that has its review removes the row while it is served.
LEMMA DraftGoes ==
  ASSUME Inv, [Next]_vars
  PROVE  [\A q \in DOMAIN jobs \ DOMAIN jobs' :
            draft # None /\ draft' = None =>
              \E i \in DOMAIN reviews : reviews[i].says = draft.says]_vars
<1>1. SUFFICES ASSUME Next, NEW r \in DOMAIN jobs \ DOMAIN jobs', draft # None, draft' = None
               PROVE  \E i \in DOMAIN reviews : reviews[i].says = draft.says
  OBVIOUS
<1>2. jobs' # jobs
  BY <1>1
<1>3. PICK q \in Slots : FinishSubmit(q)
  <2>1. ASSUME NEW q \in Slots, SubmitStep(q) \/ WriteStep(q)
        PROVE  FinishSubmit(q)
    <3>1. CASE PassGuard(q) \/ ListReviews(q) \/ RejectCandidate(q) \/ LandReview(q)
                 \/ LandWrite(q)
      BY <1>1, <3>1 DEF PassGuard, ListReviews, RejectCandidate, LandReview, LandWrite, disk
    <3>2. CASE AcceptCandidate(q) \/ ReviewConfirmed(q) \/ WriteConfirmed(q)
      BY <1>1, <3>2 DEF AcceptCandidate, ReviewConfirmed, WriteConfirmed
    <3>3. CASE FailCall(q) \/ HeadMoved(q) \/ Forbidden(q) \/ Conflict(q) \/ LoseAnswer(q)
      BY <1>1, <3>3 DEF FailCall, HeadMoved, Forbidden, Conflict, LoseAnswer, disk
    <3>4. CASE RecordFails(q) \/ DeleteFails(q) \/ LoseWrite(q)
      BY <1>1, <3>4 DEF RecordFails, DeleteFails, LoseWrite, disk
    <3>5. ASSUME NEW h \in Heads, StartSubmit(q, h)
          PROVE  FALSE
      BY <1>1, <3>5 DEF StartSubmit, disk
    <3>6. ASSUME NEW verb \in WriteSteps, StartWrite(q, verb)
          PROVE  FALSE
      BY <1>1, <3>6 DEF StartWrite, disk
    <3>7. QED
      BY <2>1, <3>1, <3>2, <3>3, <3>4, <3>5, <3>6, StepsOfARequest DEF Ends
  <2>2. ~(\E says \in Says : PutDraft(says)) /\ ~DiscardDraft
    BY <1>2 DEF PutDraft, DiscardDraft
  <2>3. ~Push /\ ~Restart
    BY <1>1 DEF Push, Restart, disk
  <2>4. QED
    BY <1>1, <2>1, <2>2, <2>3 DEF Next
<1>4. q \in DOMAIN jobs /\ jobs[q].step = "comments"
  BY <1>3 DEF FinishSubmit, At
<1>5. Holds(q)
  BY <1>4, RowIsJob
<1>6. /\ draft = jobs[q].draft /\ jobs[q].review \in DOMAIN reviews
      /\ reviews[jobs[q].review].says = jobs[q].draft.says
  BY <1>1, <1>4, <1>5 DEF Holds, CarriesTheRow, HoldsWhatItUses, SubmitSteps
<1>7. QED
  BY <1>6

(* "A draft SURVIVES everything" (writes.ts:29): no failure, lost           *)
(* answer, push or restart takes the row; the submit that takes it leaves a *)
(* review that says what the row said.  Any number of submits at a time.   *)
THEOREM DraftIsNotLost == Spec => DraftGoesWithItsReview
<1>1. Init => Inv
  BY InitHolds
<1>2. Inv /\ [Next]_vars => Inv'
  BY InvStep
<1>3. Inv /\ [Next]_vars
        => [\A q \in DOMAIN jobs \ DOMAIN jobs' :
              draft # None /\ draft' = None =>
                \E i \in DOMAIN reviews : reviews[i].says = draft.says]_vars
  BY DraftGoes
<1>4. QED
  BY <1>1, <1>2, <1>3, PTL DEF Spec, DraftGoesWithItsReview

(* The journal only grows, and whatever enters `confirmed` enters it first *)
(* (writes.ts:438, 490, 519, 568).                                         *)
THEOREM WritesAreJournalled == Spec => []ConfirmedIsJournalled
<1>1. Init => ConfirmedIsJournalled
  BY DEF Init, ConfirmedIsJournalled
<1>2. ASSUME ConfirmedIsJournalled, [Next]_vars
      PROVE  ConfirmedIsJournalled'
  <2>1. ASSUME NEW q \in Slots, SubmitStep(q)
        PROVE  ConfirmedIsJournalled'
    <3>1. CASE FinishSubmit(q)
      BY <1>2, <3>1 DEF FinishSubmit, Recorded, ConfirmedIsJournalled
    <3>2. CASE AcceptCandidate(q) \/ ReviewConfirmed(q)
      BY <1>2, <3>2 DEF AcceptCandidate, ReviewConfirmed, Adopt, Recorded, ConfirmedIsJournalled
    <3>3. CASE PassGuard(q) \/ ListReviews(q) \/ RejectCandidate(q) \/ LandReview(q)
      BY <1>2, <3>3
         DEF PassGuard, ListReviews, RejectCandidate, LandReview, disk, ConfirmedIsJournalled
    <3>4. CASE FailCall(q) \/ HeadMoved(q) \/ Forbidden(q) \/ Conflict(q) \/ LoseAnswer(q)
      BY <1>2, <3>4
         DEF FailCall, HeadMoved, Forbidden, Conflict, LoseAnswer, disk, ConfirmedIsJournalled
    <3>5. CASE RecordFails(q) \/ DeleteFails(q) \/ \E h \in Heads : StartSubmit(q, h)
      BY <1>2, <3>5 DEF RecordFails, DeleteFails, StartSubmit, disk, ConfirmedIsJournalled
    <3>6. QED
      BY <2>1, <3>1, <3>2, <3>3, <3>4, <3>5 DEF SubmitStep
  <2>2. ASSUME NEW q \in Slots, WriteStep(q)
        PROVE  ConfirmedIsJournalled'
    <3>1. CASE WriteConfirmed(q)
      BY <1>2, <3>1 DEF WriteConfirmed, Recorded, ConfirmedIsJournalled
    <3>2. CASE LandWrite(q) \/ LoseWrite(q) \/ \E verb \in DOMAIN Effects : StartWrite(q, verb)
      BY <1>2, <3>2 DEF LandWrite, LoseWrite, StartWrite, disk, ConfirmedIsJournalled
    <3>3. QED
      BY <2>2, <3>1, <3>2 DEF WriteStep
  <2>3. CASE Push \/ Restart \/ DiscardDraft \/ \E says \in Says : PutDraft(says)
    BY <1>2, <2>3 DEF Push, Restart, DiscardDraft, PutDraft, disk, ConfirmedIsJournalled
  <2>4. CASE UNCHANGED vars
    BY <1>2, <2>4 DEF vars, ConfirmedIsJournalled
  <2>5. QED
    BY <1>2, <2>1, <2>2, <2>3, <2>4 DEF Next
<1>3. QED
  BY <1>1, <1>2, PTL DEF Spec

-----------------------------------------------------------------------------
(* One draft, one head, one review *)

LEMMA OthersAreKept ==
  ASSUME Inv, NEW q \in Slots, SubmitStep(q) \/ WriteStep(q),
         NEW r \in DOMAIN jobs', r # q
  PROVE  Kept(r)
<1>1. ASSUME NEW h \in Heads, StartSubmit(q, h)
      PROVE  Kept(r)
  BY <1>1 DEF StartSubmit, Upsert, Kept
<1>2. ASSUME NEW verb \in WriteSteps, StartWrite(q, verb)
      PROVE  Kept(r)
  BY <1>2 DEF StartWrite, Upsert, Kept
<1>3. CASE PassGuard(q)
  BY <1>3 DEF PassGuard, Kept
<1>4. CASE ListReviews(q) \/ RejectCandidate(q)
  <2>1. PICK candidates : Pursue(q, candidates)
    BY <1>4 DEF ListReviews, RejectCandidate
  <2>2. r \in DOMAIN jobs /\ jobs'[r] = jobs[r]
    BY <2>1 DEF Pursue
  <2>3. CASE candidates = {}
    BY <2>1, <2>2, <2>3 DEF Pursue, Upsert, Kept
  <2>4. CASE candidates # {}
    BY <2>1, <2>2, <2>4 DEF Pursue, Kept
  <2>5. QED
    BY <2>3, <2>4
<1>5. CASE AcceptCandidate(q) \/ ReviewConfirmed(q)
  <2>1. PICK i : Adopt(q, i)
    BY <1>5 DEF AcceptCandidate, ReviewConfirmed
  <2>2. QED
    BY <2>1 DEF Adopt, Without, Restrict, Kept
<1>6. CASE LandReview(q)
  BY <1>6 DEF LandReview, Kept
<1>7. CASE LandWrite(q)
  BY <1>7 DEF LandWrite, Upsert, Kept
<1>8. CASE Ends(q)
  <2>1. End(q)
    BY <1>8, EndsEnd
  <2>2. QED
    BY <2>1 DEF End, Without, Restrict, Kept
<1>9. QED
  BY <1>1, <1>2, <1>3, <1>4, <1>5, <1>6, <1>7, <1>8, StepsOfARequest

LEMMA OneSubmitStays ==
  ASSUME SerialSubmits, Inv, OneSubmit, NEW q \in Slots, SubmitStep(q) \/ WriteStep(q)
  PROVE  OneSubmit'
<1>1. \A r \in DOMAIN jobs' : r # q => r \in DOMAIN jobs /\ jobs'[r] = jobs[r]
  BY OthersAreKept DEF Kept
<1>2. ASSUME NEW h \in Heads, StartSubmit(q, h)
      PROVE  OneSubmit'
  BY <1>1, <1>2 DEF StartSubmit, OneSubmit, Submits
<1>3. ASSUME NEW verb \in WriteSteps, StartWrite(q, verb)
      PROVE  OneSubmit'
  <2>1. jobs'[q].draft = None
    BY <1>3, NewJobIsJob DEF StartWrite, Upsert
  <2>2. QED
    BY <1>1, <2>1 DEF OneSubmit, Submits
<1>4. CASE Ends(q)
  <2>1. DOMAIN jobs' = DOMAIN jobs \ {q}
    BY <1>4, EndsEnd DEF End, Without, Restrict
  <2>2. QED
    BY <1>1, <2>1 DEF OneSubmit, Submits
<1>5. ASSUME PassGuard(q) \/ ListReviews(q) \/ RejectCandidate(q) \/ AcceptCandidate(q)
               \/ LandReview(q) \/ ReviewConfirmed(q) \/ LandWrite(q)
      PROVE  OneSubmit'
  <2>1. q \in DOMAIN jobs
    BY <1>5 DEF PassGuard, ListReviews, RejectCandidate, AcceptCandidate, LandReview,
                ReviewConfirmed, LandWrite, At, Inv, TypeOK
  <2>2. jobs'[q].draft = jobs[q].draft
    <3>0. jobs[q] \in Job
      BY <2>1, RowIsJob
    <3>1. CASE PassGuard(q)
      BY <2>1, <3>0, <3>1 DEF PassGuard, Job
    <3>2. CASE ListReviews(q) \/ RejectCandidate(q)
      BY <2>1, <3>0, <3>2 DEF ListReviews, RejectCandidate, Pursue, Job
    <3>3. CASE AcceptCandidate(q) \/ ReviewConfirmed(q)
      BY <2>1, <3>0, <3>3 DEF AcceptCandidate, ReviewConfirmed, Adopt, Job
    <3>4. CASE LandReview(q) \/ LandWrite(q)
      BY <2>1, <3>0, <3>4 DEF LandReview, LandWrite, Job
    <3>5. QED
      BY <1>5, <3>1, <3>2, <3>3, <3>4
  <2>3. QED
    BY <1>1, <2>1, <2>2 DEF OneSubmit, Submits
<1>6. QED
  BY <1>2, <1>3, <1>4, <1>5, StepsOfARequest

\* A request that is not touched has still seen what there is to see.
LEMMA KeptSees ==
  ASSUME NEW r, Kept(r), Seen(r), HoldsWhatItUses(r), UNCHANGED reviews
  PROVE  Seen(r)'
BY DEF Kept, Seen, HoldsWhatItUses, Posted

\* What is looked for is among the candidates; what is rejected is not it.
LEMMA PursueSees ==
  ASSUME Inv, NEW q \in Slots, At(q, "list") \/ At(q, "match"),
         NEW candidates \in SUBSET Nat,
         \A i \in candidates : i \in DOMAIN reviews /\ ReviewMatches(reviews[i], jobs[q]),
         \A i \in DOMAIN reviews : reviews[i] = Posted(jobs[q]) => i \in candidates,
         Pursue(q, candidates), UNCHANGED <<github, disk, started>>
  PROVE  Seen(q)'
<1>1. /\ jobs'[q].draft = jobs[q].draft /\ jobs'[q].commit = jobs[q].commit
      /\ jobs'[q].candidates = candidates
      /\ jobs'[q].step = IF candidates = {} THEN "posting" ELSE "match"
  BY PursueMoves
<1>2. Posted(jobs'[q]) = Posted(jobs[q])
  BY <1>1 DEF Posted
<1>3. QED
  BY <1>1, <1>2 DEF Seen, github

LEMMA ListSees ==
  ASSUME Inv, NEW q \in Slots, ListReviews(q)
  PROVE  Seen(q)'
<1> DEFINE found == {i \in DOMAIN reviews : ReviewMatches(reviews[i], jobs[q])}
<1>1. found \in SUBSET Nat /\ \A i \in found : i \in DOMAIN reviews /\ ReviewMatches(reviews[i], jobs[q])
  BY DEF Inv, TypeOK
<1>2. At(q, "list") /\ Pursue(q, found) /\ UNCHANGED <<github, disk, started>>
  BY DEF ListReviews
<1>3. \A i \in DOMAIN reviews : reviews[i] = Posted(jobs[q]) => i \in found
  BY DEF Posted, ReviewMatches
<1> HIDE DEF found
<1>4. QED
  BY <1>1, <1>2, <1>3, PursueSees

LEMMA RejectSees ==
  ASSUME Inv, NEW q \in Slots, RejectCandidate(q), Seen(q)
  PROVE  Seen(q)'
<1> DEFINE left == jobs[q].candidates \ {Candidate(q)}
<1>1. At(q, "match") /\ Pursue(q, left) /\ UNCHANGED <<github, disk, started>>
  BY DEF RejectCandidate
<1>2. q \in DOMAIN jobs /\ jobs[q].step = "match"
  BY <1>1 DEF At
<1>3. jobs[q] \in Job /\ Holds(q)
  BY <1>2, RowIsJob
<1>4. left \in SUBSET Nat /\ \A i \in left : i \in DOMAIN reviews /\ ReviewMatches(reviews[i], jobs[q])
  BY <1>2, <1>3 DEF Job, Holds, HoldsWhatItUses
<1>5. \A i \in DOMAIN reviews : reviews[i] = Posted(jobs[q]) => i \in left
  <2>1. reviews[Candidate(q)] # Posted(jobs[q])
    BY DEF RejectCandidate, CommentsMatch, Posted
  <2>2. QED
    BY <1>2, <2>1 DEF Seen
<1> HIDE DEF left
<1>6. QED
  BY <1>1, <1>4, <1>5, PursueSees

LEMMA OnceStep ==
  ASSUME SerialSubmits, OnceInv, [Next]_vars
  PROVE  OnceInv'
<1>0. Inv /\ Inv'
  BY InvStep DEF OnceInv
<1>1. ASSUME NEW q \in Slots, LandReview(q)
      PROVE  OnceInv'
  <2>1. /\ q \in DOMAIN jobs /\ jobs[q].step = "posting" /\ jobs'[q].step = "posting"
        /\ reviews' = Append(reviews, Posted(jobs[q])) /\ calls'[q].landed
        /\ ~calls[q].landed
    BY <1>0, <1>1, LandReviewMoves DEF LandReview
  <2>2. OneSubmit'
    BY <1>0, <1>1, OneSubmitStays DEF OnceInv, SubmitStep
  <2>3. q \in Submits
    BY <1>0, <2>1, RowIsJob DEF Submits, Holds, CarriesTheRow, SubmitSteps
  <2>4. ASSUME NEW r \in DOMAIN jobs', r # q
        PROVE  jobs'[r].step \notin SubmitSteps
    <3>1. r \in DOMAIN jobs /\ jobs'[r] = jobs[r]
      BY <1>0, <1>1, <2>4, OthersAreKept DEF Kept, SubmitStep
    <3>2. r \notin Submits
      BY <2>3, <2>4 DEF OnceInv, OneSubmit
    <3>3. QED
      BY <1>0, <3>1, <3>2, RowIsJob DEF Submits, Holds, CarriesTheRow
  <2>5. \A r \in DOMAIN jobs' : Seen(r)'
    BY <2>1, <2>4 DEF Seen, SubmitSteps
  <2>6. PostedOncePerHead'
    <3>1. reviews \in Seq(Review) /\ reviews' \in Seq(Review)
      BY <1>0 DEF Inv, TypeOK
    <3>2. \A i \in DOMAIN reviews : reviews[i] # Posted(jobs[q])
      BY <2>1 DEF OnceInv, Seen
    <3>3. SUFFICES ASSUME NEW i \in DOMAIN reviews', NEW j \in DOMAIN reviews',
                          reviews'[i].of = reviews'[j].of,
                          reviews'[i].commit = reviews'[j].commit,
                          reviews'[i].says = reviews'[j].says
                   PROVE  i = j
      BY DEF PostedOncePerHead
    <3>4. reviews'[i] \in Review /\ reviews'[j] \in Review
      BY <3>1
    <3>5. reviews'[i] = reviews'[j]
      BY <3>3, <3>4 DEF Review
    <3>6. CASE i \in DOMAIN reviews /\ j \in DOMAIN reviews
      <4>1. reviews'[i] = reviews[i] /\ reviews'[j] = reviews[j]
        BY <2>1, <3>1, <3>6
      <4>2. QED
        BY <3>3, <3>6, <4>1 DEF OnceInv, PostedOncePerHead
    <3>7. \A k \in DOMAIN reviews' \ DOMAIN reviews :
            k = Len(reviews) + 1 /\ reviews'[k] = Posted(jobs[q])
      BY <2>1, <3>1
    <3>8. \A k \in DOMAIN reviews : reviews'[k] = reviews[k]
      BY <2>1, <3>1
    <3>9. QED
      BY <3>2, <3>5, <3>6, <3>7, <3>8
  <2>7. QED
    BY <1>0, <2>2, <2>5, <2>6 DEF OnceInv
<1>2. ASSUME NEW q \in Slots, SubmitStep(q) \/ WriteStep(q), ~LandReview(q)
      PROVE  OnceInv'
  <2>1. UNCHANGED reviews
    <3>1. CASE Ends(q)
      BY <3>1, EndsEnd DEF github
    <3>2. QED
      BY <1>0, <1>2, <3>1, StepsOfARequest
         DEF StartSubmit, StartWrite, PassGuard, ListReviews, RejectCandidate,
             AcceptCandidate, ReviewConfirmed, LandWrite, github
  <2>2. OneSubmit'
    BY <1>0, <1>2, OneSubmitStays DEF OnceInv
  <2>3. ASSUME NEW r \in DOMAIN jobs', r # q
        PROVE  Seen(r)'
    <3>1. Kept(r)
      BY <1>0, <1>2, <2>3, OthersAreKept
    <3>2. Seen(r) /\ HoldsWhatItUses(r)
      BY <1>0, <3>1 DEF OnceInv, Inv, Kept
    <3>3. QED
      BY <2>1, <3>1, <3>2, KeptSees
  <2>4. ASSUME q \in DOMAIN jobs'
        PROVE  Seen(q)'
    <3>1. CASE ListReviews(q)
      BY <1>0, <3>1, ListSees
    <3>2. CASE RejectCandidate(q)
      <4>1. q \in DOMAIN jobs
        BY <3>2 DEF RejectCandidate, At
      <4>2. QED
        BY <1>0, <3>2, <4>1, RejectSees DEF OnceInv
    <3>3. CASE Ends(q)
      <4>1. jobs' = Without(jobs, {q})
        BY <3>3, EndsEnd DEF End
      <4>2. q \notin DOMAIN jobs'
        BY <4>1 DEF Without, Restrict
      <4>3. QED
        BY <2>4, <4>2
    <3>4. CASE LandWrite(q)
      BY <1>0, <3>4, LandWriteMoves DEF Seen, WriteSteps
    <3>5. ASSUME NEW h \in Heads, StartSubmit(q, h)
          PROVE  Seen(q)'
      BY <1>0, <3>5, StartSubmitMoves DEF Seen
    <3>6. ASSUME NEW verb \in WriteSteps, StartWrite(q, verb)
          PROVE  Seen(q)'
      BY <1>0, <3>6, StartWriteMoves DEF Seen, WriteSteps
    <3>7. CASE PassGuard(q)
      <4>1. q \in DOMAIN jobs /\ jobs[q] \in Job
        BY <1>0, <3>7, RowIsJob DEF PassGuard, At
      <4>2. jobs'[q].step = "list"
        BY <3>7, <4>1 DEF PassGuard, Job
      <4>3. QED
        BY <4>2 DEF Seen
    <3>8. CASE AcceptCandidate(q) \/ ReviewConfirmed(q)
      <4>1. q \in DOMAIN jobs /\ jobs[q] \in Job
        BY <1>0, <3>8, RowIsJob DEF AcceptCandidate, ReviewConfirmed, At
      <4>2. jobs'[q].step = "comments"
        <5>1. PICK i : Adopt(q, i)
          BY <3>8 DEF AcceptCandidate, ReviewConfirmed
        <5>2. QED
          BY <4>1, <5>1 DEF Adopt, Job
      <4>3. QED
        BY <4>2 DEF Seen
    <3>9. QED
      BY <1>0, <1>2, <3>1, <3>2, <3>3, <3>4, <3>5, <3>6, <3>7, <3>8, StepsOfARequest
  <2>5. QED
    BY <1>0, <2>1, <2>2, <2>3, <2>4 DEF OnceInv, PostedOncePerHead
<1>3. CASE (\E says \in Says : PutDraft(says)) \/ DiscardDraft \/ Push \/ UNCHANGED vars
  <2>1. UNCHANGED <<jobs, calls, reviews>>
    BY <1>3 DEF PutDraft, DiscardDraft, Push, vars, github
  <2>2. OneSubmit' /\ PostedOncePerHead'
    BY <2>1 DEF OnceInv, OneSubmit, Submits, PostedOncePerHead
  <2>3. \A r \in DOMAIN jobs' : Seen(r)'
    BY <2>1 DEF OnceInv, Seen, Posted
  <2>4. QED
    BY <1>0, <2>2, <2>3 DEF OnceInv
<1>4. CASE Restart
  <2>1. DOMAIN jobs' = {} /\ UNCHANGED reviews
    BY <1>4, EmptyTableIsTable DEF Restart, github
  <2>2. QED
    BY <1>0, <2>1 DEF OnceInv, OneSubmit, Submits, PostedOncePerHead
<1>5. QED
  BY <1>1, <1>2, <1>3, <1>4 DEF Next

(* "Submit is idempotent under a retry-after-timeout" (writes.ts:36-39),    *)
(* per head and for submits served one at a time: one draft posted against *)
(* one commit is one review, whatever is lost, failed, killed or retried.  *)
THEOREM PostedOnceTheorem == ASSUME SerialSubmits PROVE Spec => []PostedOncePerHead
<1>1. Init => OnceInv
  <2>1. SUFFICES ASSUME Init
                 PROVE  OnceInv
    OBVIOUS
  <2>2. Inv /\ DOMAIN jobs = {} /\ DOMAIN reviews = {}
    BY <2>1, InitHolds, EmptyTableIsTable DEF Init
  <2>3. QED
    BY <2>2 DEF OnceInv, OneSubmit, Submits, PostedOncePerHead
<1>2. OnceInv /\ [Next]_vars => OnceInv'
  BY OnceStep
<1>3. OnceInv => PostedOncePerHead
  BY DEF OnceInv
<1>4. QED
  BY <1>1, <1>2, <1>3, PTL DEF Spec

=============================================================================
