-------------------------- MODULE CollectorProofs --------------------------
(***************************************************************************)
(* The collector, for any number of workspaces and people.                 *)
(*                                                                         *)
(* The argument: GitHub numbers what it makes once, so a journalled id     *)
(* names one artifact, and it is the artifact its workspace made.  The     *)
(* host's journal holds only rows some workspace's journal holds, under    *)
(* the human bound to it.  So what the journal vouches for was made        *)
(* through revu; and what a person or the bot did past revu is vouched for *)
(* by nothing, however the listings and the journal are interleaved.       *)
(***************************************************************************)
EXTENDS Collector, FiniteSetTheorems, SequenceTheorems, TLAPS

-----------------------------------------------------------------------------
(* Writing and deleting rows keeps a table a table of its type.            *)
LEMMA UpsertTable ==
  ASSUME NEW K, NEW V, NEW t, IsTable(t, K, V), NEW k \in K, NEW v \in V
  PROVE  /\ IsTable(Upsert(t, k, v), K, V)
         /\ DOMAIN Upsert(t, k, v) = DOMAIN t \cup {k}
         /\ Upsert(t, k, v)[k] = v
         /\ \A x \in DOMAIN t : x # k => Upsert(t, k, v)[x] = t[x]
BY DEF IsTable, Upsert

LEMMA UpsertType ==
  ASSUME NEW K, NEW V, NEW t, IsTable(t, K, V), NEW k \in K, NEW v \in V
  PROVE  IsTable(Upsert(t, k, v), K, V) /\ DOMAIN Upsert(t, k, v) = DOMAIN t \cup {k}
BY DEF IsTable, Upsert

LEMMA WithoutTable ==
  ASSUME NEW K, NEW V, NEW t, IsTable(t, K, V), NEW S
  PROVE  /\ IsTable(Without(t, S), K, V)
         /\ DOMAIN Without(t, S) = DOMAIN t \ S
         /\ \A x \in DOMAIN t \ S : Without(t, S)[x] = t[x]
BY DEF IsTable, Without, Restrict

LEMMA EmptyTableIsTable ==
  ASSUME NEW K, NEW V
  PROVE  IsTable(EmptyTable, K, V) /\ DOMAIN EmptyTable = {}
BY DEF IsTable, EmptyTable

-----------------------------------------------------------------------------
(* The inductive invariant. *)

Rows == [endpoint : Endpoints, id : Nat]
Humans == {EmailOf[o] : o \in Owners}
Texts == Owners \X Nat
Drafts == [humanId : Humans, text : Texts]
AuditRows == [human : Humans, workspace : Owners, endpoint : Endpoints, id : Nat]
Pulls == [rows : SUBSET Rows, version : Nat, humanId : Humans]

\* A number is given once in its space; nothing is there that was not made, and
\* a comment comes with a review by the same hand.
Numbered(artifacts) ==
  /\ artifacts \in SUBSET Artifact /\ IsFiniteSet(artifacts)
  /\ \A a \in artifacts : a.id \in 1..Cardinality(OfKind(artifacts, a.kind))
  /\ \A a, b \in artifacts : a.kind = b.kind /\ a.id = b.id => a = b
MadeOnce ==
  /\ Numbered(made) /\ present \in SUBSET made
  /\ \A a \in made : Bypass(a) => a.author = "bot"
  /\ \A c \in OfKind(made, "review_comment") :
       \E r \in OfKind(made, "review") : r.id = c.reviewId /\ r.by = c.by

\* A row that says revu created something names what its workspace made.
Names(o, row) ==
  /\ row.endpoint = "submitReview" =>
       \E r \in OfKind(made, "review") : r.id = row.id /\ r.by = o
  /\ row.endpoint = "replyToThread" =>
       \E c \in OfKind(made, "review_comment") : c.id = row.id /\ c.by = o
JournalsNameTheirWrites ==
  /\ journals \in [Owners -> SUBSET Rows] /\ owing \in [Owners -> SUBSET SUBSET Rows]
  /\ \A o \in Owners :
       /\ IsFiniteSet(journals[o])
       /\ \A row \in journals[o] : Names(o, row)
       /\ \A rows \in owing[o] : IsFiniteSet(rows) /\ \A row \in rows : Names(o, row)

\* The host's tables, their values given.
HostIsSound(h) ==
  /\ h = [drafts |-> h.drafts, viewed |-> h.viewed, audit |-> h.audit]
  /\ IsTable(h.drafts, Humans, Drafts)
  /\ \A e \in DOMAIN h.drafts :
       h.drafts[e].humanId = e /\ EmailOf[h.drafts[e].text[1]] = e
  /\ IsTable(h.viewed, Humans, Texts)
  /\ \A e \in DOMAIN h.viewed : EmailOf[h.viewed[e][1]] = e
  /\ h.audit \in Seq(AuditRows) /\ IsInjective(h.audit)
  /\ \A row \in ToSet(h.audit) :
       /\ row.human = EmailOf[row.workspace]
       /\ Row(row.endpoint, row.id) \in journals[row.workspace]
KeptIsInTheJournal ==
  \A k \in kept : /\ k \in Owners \X Rows
                  /\ AuditRow(k[1], k[2]) \in ToSet(host.audit)

\* What a tick pulled, some workspace's journal holds.
PulledIsJournalled ==
  /\ IsTable(tick.pulled, Owners, Pulls)
  /\ \A o \in DOMAIN tick.pulled : tick.pulled[o].rows \subseteq journals[o]
  /\ tick.toLand \in SUBSET DOMAIN tick.pulled
  /\ tick.step \notin {"pull", "land"} => tick.toLand = {}

\* What the listings showed: every bypass that is still there from before the
\* tick, and with a review it listed, those of its comments still there.
TickShape ==
  /\ tick = [step |-> tick.step, pulled |-> tick.pulled, toLand |-> tick.toLand,
             found |-> tick.found, before |-> tick.before, committed |-> tick.committed]
  /\ tick.step \in {"idle", "pull", "land", "comments", "issues", "detect"}
  /\ tick.found = [reviews |-> tick.found.reviews,
                   reviewComments |-> tick.found.reviewComments,
                   issueComments |-> tick.found.issueComments]
Listed ==
  /\ tick.found.reviews \subseteq OfKind(made, "review")
  /\ tick.found.reviewComments \subseteq OfKind(made, "review_comment")
  /\ tick.found.issueComments \subseteq OfKind(made, "issue_comment")
  /\ tick.before \subseteq {a \in made : Bypass(a)}
  /\ tick.step \in {"comments", "issues", "detect"} =>
       OfKind(tick.before \cap present, "review") \subseteq tick.found.reviews
  /\ tick.step \in {"issues", "detect"} =>
       /\ OfKind(tick.before \cap present, "review_comment") \subseteq tick.found.reviewComments
       /\ \A c \in OfKind(present, "review_comment"), r \in tick.found.reviews :
            c.reviewId = r.id => c \in tick.found.reviewComments
  /\ tick.step = "detect" =>
       OfKind(tick.before \cap present, "issue_comment") \subseteq tick.found.issueComments

Counted ==
  /\ events \in 0..MaxEvents /\ bound \in SUBSET Owners
  /\ work \in [Owners -> Nat] /\ \A o \in Owners : work[o] <= events

CInv ==
  /\ MadeOnce /\ JournalsNameTheirWrites
  /\ HostIsSound(host) /\ KeptIsInTheJournal
  /\ PulledIsJournalled /\ TickShape /\ Listed /\ Counted

-----------------------------------------------------------------------------
(* Lists of a set, and what each landing leaves of the host's tables. *)

(* The rows of a finite set, listed: each of them, once.                   *)
LEMMA ListsOnce ==
  ASSUME NEW S, IsFiniteSet(S)
  PROVE  /\ SetToSeq(S) \in Seq(S) /\ IsInjective(SetToSeq(S))
         /\ ToSet(SetToSeq(S)) = S
<1> DEFINE n == Cardinality(S)
<1>1. n \in Nat /\ \E f \in [1..n -> S] : IsInjective(f)
  BY FS_CardinalityType DEF ExistsBijection, Bijection, Injection
<1>2. PICK f : f = SetToSeq(S)
  OBVIOUS
<1>3. f \in [1..n -> S] /\ IsInjective(f)
  BY <1>1, <1>2 DEF SetToSeq
<1>4. IsFiniteSet(1..n) /\ Cardinality(1..n) = n
  BY <1>1, FS_Interval
<1>5. f \in Surjection(1..n, S)
  <2>1. f \in Injection(1..n, S)
    BY <1>3 DEF Injection
  <2> QED
    BY <2>1, <1>4, FS_Injection
<1>6. \A t \in S : \E i \in 1..n : f[i] = t
  BY <1>5, Zenon DEF Surjection
<1>7. f \in Seq(S)
  BY <1>1, <1>3
<1>8. ToSet(f) = S
  BY <1>3, <1>6 DEF ToSet
<1> QED
  BY <1>2, <1>3, <1>7, <1>8

(* Appending rows a list lacks: nothing moves, nothing comes twice.        *)
LEMMA AppendsWhatLacks ==
  ASSUME NEW R, NEW s \in Seq(R), NEW t \in Seq(R), IsInjective(s), IsInjective(t),
         ToSet(s) \cap ToSet(t) = {}
  PROVE  /\ s \o t \in Seq(R) /\ IsInjective(s \o t)
         /\ ToSet(s \o t) = ToSet(s) \cup ToSet(t)
         /\ IsPrefix(s, s \o t)
<1> DEFINE u == s \o t
<1>1. /\ u \in Seq(R) /\ Len(u) = Len(s) + Len(t)
      /\ \A i \in 1..Len(s) + Len(t) : u[i] = IF i <= Len(s) THEN s[i] ELSE t[i - Len(s)]
  BY ConcatProperties
<1>2. Len(s) \in Nat /\ Len(t) \in Nat /\ DOMAIN s = 1..Len(s) /\ DOMAIN t = 1..Len(t)
      /\ DOMAIN u = 1..Len(s) + Len(t)
  BY <1>1
<1> HIDE DEF u
<1>3. \A i \in 1..Len(s) : i \in DOMAIN u /\ u[i] = s[i]
  BY <1>1, <1>2
<1>4. ASSUME NEW i \in 1..Len(t)
      PROVE  Len(s) + i \in DOMAIN u /\ u[Len(s) + i] = t[i]
  <2>1. PICK k : k = Len(s) + i
    OBVIOUS
  <2>2. k \in 1..Len(s) + Len(t) /\ ~(k <= Len(s)) /\ k - Len(s) = i
    BY <2>1, <1>2
  <2>3. u[k] = t[k - Len(s)]
    BY <2>2, <1>1
  <2> QED
    BY <2>1, <2>2, <2>3, <1>2
<1>5. \A i \in DOMAIN u : i \notin 1..Len(s) => i - Len(s) \in 1..Len(t) /\ u[i] = t[i - Len(s)]
  BY <1>1, <1>2
<1>6. ToSet(u) = ToSet(s) \cup ToSet(t)
  <2>1. \A x \in ToSet(u) : x \in ToSet(s) \cup ToSet(t)
    BY <1>2, <1>3, <1>5 DEF ToSet
  <2>2. \A x \in ToSet(s) : x \in ToSet(u)
    BY <1>2, <1>3 DEF ToSet
  <2>3. \A x \in ToSet(t) : x \in ToSet(u)
    BY <1>2, <1>4 DEF ToSet
  <2> QED
    BY <2>1, <2>2, <2>3
<1>7. IsInjective(u)
  <2> SUFFICES ASSUME NEW i \in DOMAIN u, NEW j \in DOMAIN u, u[i] = u[j]
               PROVE  i = j
    BY DEF IsInjective
  <2>1. CASE i \in 1..Len(s) /\ j \in 1..Len(s)
    BY <2>1, <1>2, <1>3 DEF IsInjective
  <2>2. CASE i \notin 1..Len(s) /\ j \notin 1..Len(s)
    <3>1. i - Len(s) \in DOMAIN t /\ j - Len(s) \in DOMAIN t
          /\ t[i - Len(s)] = t[j - Len(s)]
      BY <2>2, <1>2, <1>5
    <3>2. i - Len(s) = j - Len(s)
      BY <3>1 DEF IsInjective
    <3> QED
      BY <3>2, <1>2
  <2>3. CASE i \in 1..Len(s) /\ j \notin 1..Len(s)
    <3>1. u[i] \in ToSet(s) /\ u[j] \in ToSet(t)
      BY <2>3, <1>2, <1>3, <1>5 DEF ToSet
    <3> QED
      BY <3>1
  <2>4. CASE i \notin 1..Len(s) /\ j \in 1..Len(s)
    <3>1. u[j] \in ToSet(s) /\ u[i] \in ToSet(t)
      BY <2>4, <1>2, <1>3, <1>5 DEF ToSet
    <3> QED
      BY <3>1
  <2> QED
    BY <2>1, <2>2, <2>3, <2>4
<1>8. IsPrefix(s, u)
  <2>1. SubSeq(s, 1, Len(s)) = [i \in 1..Len(s) |-> s[i]]
    BY <1>2
  <2>2. SubSeq(u, 1, Len(s)) = [i \in 1..Len(s) |-> u[i]]
    BY <1>1, <1>2
  <2>3. [i \in 1..Len(s) |-> s[i]] = [i \in 1..Len(s) |-> u[i]]
    BY <1>3
  <2>4. Len(s) <= Len(u)
    BY <1>1, <1>2
  <2> QED
    BY <2>1, <2>2, <2>3, <2>4 DEF IsPrefix
<1> QED
  BY <1>1, <1>6, <1>7, <1>8 DEF u

LEMMA PrefixOfItself ==
  ASSUME NEW R, NEW s \in Seq(R)
  PROVE  IsPrefix(s, s)
<1>1. Len(s) <= Len(s)
  BY LenProperties
<1> QED
  BY <1>1 DEF IsPrefix

(* A workspace's rows, keyed by the human bound to it.                     *)
LEMMA RowsAreFinite ==
  ASSUME NEW o \in Owners, NEW rows \in SUBSET Rows, IsFiniteSet(rows)
  PROVE  /\ IsFiniteSet({AuditRow(o, r) : r \in rows})
         /\ {AuditRow(o, r) : r \in rows} \in SUBSET AuditRows
<1> DEFINE T == {AuditRow(o, r) : r \in rows}
           f == [r \in rows |-> AuditRow(o, r)]
<1>1. f \in Surjection(rows, T)
  BY DEF Surjection
<1>2. IsFiniteSet(T)
  BY <1>1, FS_Surjection
<1>3. EmailOf[o] \in Humans
  BY DEF Humans
<1>4. \A r \in rows : AuditRow(o, r) \in AuditRows
  BY <1>3 DEF AuditRow, AuditRows, Rows
<1> QED
  BY <1>2, <1>4

(* One landing, of drafts, of marks, of the journal: the tables stay sound. *)
LEMMA DraftLands ==
  ASSUME NEW h, HostIsSound(h), NEW o \in Owners, NEW v \in Nat, NEW e \in Humans
  PROVE  /\ HostIsSound(landDraft(h, o, [humanId |-> e, text |-> <<o, v>>]))
         /\ landDraft(h, o, [humanId |-> e, text |-> <<o, v>>]).audit = h.audit
<1>1. PICK r : r = [humanId |-> EmailOf[o], text |-> <<o, v>>]
  OBVIOUS
<1>2. PICK ds : ds = Upsert(h.drafts, EmailOf[o], r)
  OBVIOUS
<1>3. r \in Drafts /\ r.humanId = EmailOf[o] /\ r.text[1] = o /\ EmailOf[o] \in Humans
  BY <1>1 DEF Drafts, Texts, Humans
<1>4. PICK g : g = landDraft(h, o, [humanId |-> e, text |-> <<o, v>>])
  OBVIOUS
<1>5. g = [drafts |-> ds, viewed |-> h.viewed, audit |-> h.audit]
  BY <1>4, <1>2, <1>1 DEF landDraft, HostIsSound
<1>6. IsTable(h.drafts, Humans, Drafts)
      /\ \A x \in DOMAIN h.drafts : h.drafts[x].humanId = x /\ EmailOf[h.drafts[x].text[1]] = x
  BY DEF HostIsSound
<1>7. /\ IsTable(ds, Humans, Drafts)
      /\ DOMAIN ds = DOMAIN h.drafts \cup {EmailOf[o]}
      /\ ds[EmailOf[o]] = r
      /\ \A x \in DOMAIN h.drafts : x # EmailOf[o] => ds[x] = h.drafts[x]
  <2>1. PICK d : d = h.drafts
    OBVIOUS
  <2>2. IsTable(d, Humans, Drafts)
    BY <2>1, <1>6
  <2>3. /\ IsTable(Upsert(d, EmailOf[o], r), Humans, Drafts)
        /\ DOMAIN Upsert(d, EmailOf[o], r) = DOMAIN d \cup {EmailOf[o]}
        /\ Upsert(d, EmailOf[o], r)[EmailOf[o]] = r
        /\ \A x \in DOMAIN d : x # EmailOf[o] => Upsert(d, EmailOf[o], r)[x] = d[x]
    BY <1>3, <2>2, UpsertTable
  <2> QED
    BY <1>2, <2>1, <2>3
<1>8. \A x \in DOMAIN ds : ds[x].humanId = x /\ EmailOf[ds[x].text[1]] = x
  BY <1>3, <1>6, <1>7
<1>9. /\ g.drafts = ds /\ g.viewed = h.viewed /\ g.audit = h.audit
      /\ g = [drafts |-> g.drafts, viewed |-> g.viewed, audit |-> g.audit]
  BY <1>5
<1>10. HostIsSound(g)
  BY <1>7, <1>8, <1>9 DEF HostIsSound
<1> QED
  BY <1>4, <1>9, <1>10

LEMMA MarksLand ==
  ASSUME NEW h, HostIsSound(h), NEW o \in Owners, NEW v \in Nat
  PROVE  /\ HostIsSound(landViewed(h, o, <<o, v>>))
         /\ landViewed(h, o, <<o, v>>).audit = h.audit
<1>1. PICK r : r = <<o, v>>
  OBVIOUS
<1>2. PICK vs : vs = Upsert(h.viewed, EmailOf[o], r)
  OBVIOUS
<1>3. r \in Texts /\ r[1] = o /\ EmailOf[o] \in Humans
  BY <1>1 DEF Texts, Humans
<1>4. PICK g : g = landViewed(h, o, <<o, v>>)
  OBVIOUS
<1>5. g = [drafts |-> h.drafts, viewed |-> vs, audit |-> h.audit]
  BY <1>4, <1>2, <1>1 DEF landViewed, HostIsSound
<1>6. IsTable(h.viewed, Humans, Texts)
      /\ \A x \in DOMAIN h.viewed : EmailOf[h.viewed[x][1]] = x
  BY DEF HostIsSound
<1>7. /\ IsTable(vs, Humans, Texts)
      /\ DOMAIN vs = DOMAIN h.viewed \cup {EmailOf[o]}
      /\ vs[EmailOf[o]] = r
      /\ \A x \in DOMAIN h.viewed : x # EmailOf[o] => vs[x] = h.viewed[x]
  <2>1. PICK m : m = h.viewed
    OBVIOUS
  <2>2. PICK e : e = EmailOf[o]
    OBVIOUS
  <2>3. IsTable(m, Humans, Texts) /\ e \in Humans /\ r \in Texts
    BY <2>1, <2>2, <1>3, <1>6
  <2>4. IsTable(Upsert(m, e, r), Humans, Texts)
    BY <2>3, UpsertType
  <2>5. /\ DOMAIN Upsert(m, e, r) = DOMAIN m \cup {e}
        /\ Upsert(m, e, r)[e] = r
        /\ \A x \in DOMAIN m : x # e => Upsert(m, e, r)[x] = m[x]
    BY DEF Upsert
  <2> QED
    BY <1>2, <2>1, <2>2, <2>4, <2>5
<1>8. \A x \in DOMAIN vs : EmailOf[vs[x][1]] = x
  BY <1>3, <1>6, <1>7
<1>9. /\ g.drafts = h.drafts /\ g.viewed = vs /\ g.audit = h.audit
      /\ g = [drafts |-> g.drafts, viewed |-> g.viewed, audit |-> g.audit]
  BY <1>5
<1>10. HostIsSound(g)
  BY <1>7, <1>8, <1>9 DEF HostIsSound
<1> QED
  BY <1>4, <1>9, <1>10

LEMMA JournalLands ==
  ASSUME NEW h, HostIsSound(h), NEW o \in Owners, NEW rows \in SUBSET journals[o],
         rows \in SUBSET Rows, IsFiniteSet(rows)
  PROVE  /\ HostIsSound(landAudit(h, o, rows))
         /\ IsPrefix(h.audit, landAudit(h, o, rows).audit)
         /\ \A r \in rows : AuditRow(o, r) \in ToSet(landAudit(h, o, rows).audit)
         /\ ToSet(h.audit) \subseteq ToSet(landAudit(h, o, rows).audit)
<1>1. PICK T : T = {AuditRow(o, r) : r \in rows} \ ToSet(h.audit)
  OBVIOUS
<1>2. PICK t : t = SetToSeq(T)
  OBVIOUS
<1>3. PICK g : g = landAudit(h, o, rows)
  OBVIOUS
<1>4. /\ IsFiniteSet({AuditRow(o, r) : r \in rows})
      /\ {AuditRow(o, r) : r \in rows} \in SUBSET AuditRows
  BY RowsAreFinite
<1>5. T \in SUBSET {AuditRow(o, r) : r \in rows} /\ T \in SUBSET AuditRows
      /\ T \cap ToSet(h.audit) = {}
  BY <1>1, <1>4
<1>6. IsFiniteSet(T)
  BY <1>4, <1>5, FS_Subset
<1>7. t \in Seq(T) /\ IsInjective(t) /\ ToSet(t) = T
  BY <1>2, <1>6, ListsOnce
<1>8. t \in Seq(AuditRows) /\ h.audit \in Seq(AuditRows) /\ IsInjective(h.audit)
  BY <1>5, <1>7 DEF HostIsSound
<1>9. PICK u : u = h.audit \o t
  OBVIOUS
<1>10. /\ u \in Seq(AuditRows) /\ IsInjective(u) /\ IsPrefix(h.audit, u)
       /\ ToSet(u) = ToSet(h.audit) \cup T
  <2>1. ToSet(h.audit) \cap ToSet(t) = {}
    BY <1>5, <1>7
  <2> QED
    BY <2>1, <1>7, <1>8, <1>9, AppendsWhatLacks
<1>11. g = [drafts |-> h.drafts, viewed |-> h.viewed, audit |-> u]
  BY <1>3, <1>9, <1>2, <1>1 DEF landAudit, HostIsSound
<1>12. /\ g.drafts = h.drafts /\ g.viewed = h.viewed /\ g.audit = u
       /\ g = [drafts |-> g.drafts, viewed |-> g.viewed, audit |-> g.audit]
  BY <1>11
<1>13. \A row \in T : /\ row.human = EmailOf[row.workspace]
                      /\ Row(row.endpoint, row.id) \in journals[row.workspace]
  <2> SUFFICES ASSUME NEW r \in rows
               PROVE  /\ AuditRow(o, r).human = EmailOf[AuditRow(o, r).workspace]
                      /\ Row(AuditRow(o, r).endpoint, AuditRow(o, r).id)
                           \in journals[AuditRow(o, r).workspace]
    BY <1>5
  <2>1. r = Row(r.endpoint, r.id)
    BY DEF Rows, Row
  <2>2. PICK a : a = AuditRow(o, r)
    OBVIOUS
  <2>3. a.human = EmailOf[o] /\ a.workspace = o /\ a.endpoint = r.endpoint /\ a.id = r.id
    BY <2>2 DEF AuditRow
  <2> QED
    BY <2>1, <2>2, <2>3
<1>14. \A row \in ToSet(h.audit) :
         /\ row.human = EmailOf[row.workspace]
         /\ Row(row.endpoint, row.id) \in journals[row.workspace]
  BY DEF HostIsSound
<1>15. HostIsSound(g)
  BY <1>10, <1>12, <1>13, <1>14 DEF HostIsSound
<1>16. \A r \in rows : AuditRow(o, r) \in ToSet(u)
  BY <1>10, <1>1
<1> QED
  BY <1>3, <1>10, <1>12, <1>15, <1>16

(* All three, or the first of them, of one container.                      *)
LEMMA KindsLand ==
  ASSUME HostIsSound(host), NEW o \in Owners, tick.pulled[o] \in Pulls,
         tick.pulled[o].rows \in SUBSET journals[o], IsFiniteSet(journals[o]),
         NEW n \in 0..3
  PROVE  /\ HostIsSound(LandKinds(o, n))
         /\ IsPrefix(host.audit, LandKinds(o, n).audit)
         /\ ToSet(host.audit) \subseteq ToSet(LandKinds(o, n).audit)
         /\ n = 3 => \A r \in tick.pulled[o].rows :
                       AuditRow(o, r) \in ToSet(LandKinds(o, n).audit)
<1>1. PICK p : p = tick.pulled[o]
  OBVIOUS
<1>2. /\ p.rows \in SUBSET Rows /\ p.version \in Nat /\ p.humanId \in Humans
      /\ p.rows \in SUBSET journals[o]
  BY <1>1 DEF Pulls
<1>3. IsFiniteSet(p.rows)
  BY <1>2, FS_Subset
<1>4. PICK h1 : h1 = IF n >= 1 /\ p.version > 0
                     THEN landDraft(host, o, [humanId |-> p.humanId, text |-> <<o, p.version>>])
                     ELSE host
  OBVIOUS
<1>5. HostIsSound(h1) /\ h1.audit = host.audit
  BY <1>2, <1>4, DraftLands
<1>6. PICK h2 : h2 = IF n >= 2 /\ p.version > 0
                     THEN landViewed(h1, o, <<o, p.version>>) ELSE h1
  OBVIOUS
<1>7. HostIsSound(h2) /\ h2.audit = host.audit
  BY <1>2, <1>5, <1>6, MarksLand
<1>8. LandKinds(o, n) = IF n = 3 THEN landAudit(h2, o, p.rows) ELSE h2
  BY <1>1, <1>4, <1>6, Zenon DEF LandKinds
<1>9. CASE n = 3
  <2>1. LandKinds(o, n) = landAudit(h2, o, p.rows)
    BY <1>8, <1>9
  <2>2. PICK g : g = landAudit(h2, o, p.rows)
    OBVIOUS
  <2>3. /\ HostIsSound(g) /\ IsPrefix(h2.audit, g.audit)
        /\ \A r \in p.rows : AuditRow(o, r) \in ToSet(g.audit)
        /\ ToSet(h2.audit) \subseteq ToSet(g.audit)
    BY <2>2, <1>2, <1>3, <1>7, JournalLands
  <2> QED
    BY <2>1, <2>2, <2>3, <1>1, <1>7
<1>10. CASE n # 3
  <2>1. host.audit \in Seq(AuditRows)
    BY DEF HostIsSound
  <2>2. IsPrefix(host.audit, host.audit)
    BY <2>1, PrefixOfItself
  <2> QED
    BY <2>2, <1>10, <1>7, <1>8
<1> QED
  BY <1>9, <1>10

(* Off-boarding takes drafts and marks, and leaves the journal.            *)
LEMMA PurgeKeepsTheJournal ==
  ASSUME NEW h, HostIsSound(h), NEW o \in Owners
  PROVE  /\ HostIsSound(purgeWorkingState(h, o))
         /\ purgeWorkingState(h, o).audit = h.audit
<1>1. PICK ds : ds = Without(h.drafts, {EmailOf[o]})
  OBVIOUS
<1>2. PICK vs : vs = Without(h.viewed, {EmailOf[o]})
  OBVIOUS
<1>3. PICK g : g = purgeWorkingState(h, o)
  OBVIOUS
<1>4. g = [drafts |-> ds, viewed |-> vs, audit |-> h.audit]
  BY <1>1, <1>2, <1>3 DEF purgeWorkingState, HostIsSound
<1>5. /\ IsTable(h.drafts, Humans, Drafts) /\ IsTable(h.viewed, Humans, Texts)
      /\ \A x \in DOMAIN h.drafts : h.drafts[x].humanId = x /\ EmailOf[h.drafts[x].text[1]] = x
      /\ \A x \in DOMAIN h.viewed : EmailOf[h.viewed[x][1]] = x
  BY DEF HostIsSound
<1>6. IsTable(ds, Humans, Drafts) /\ \A x \in DOMAIN ds : x \in DOMAIN h.drafts /\ ds[x] = h.drafts[x]
  <2>1. PICK d : d = h.drafts
    OBVIOUS
  <2>2. PICK gone : gone = {EmailOf[o]}
    OBVIOUS
  <2>3. IsTable(d, Humans, Drafts) /\ ds = Without(d, gone)
    BY <2>1, <2>2, <1>1, <1>5
  <2>4. /\ IsTable(Without(d, gone), Humans, Drafts)
        /\ DOMAIN Without(d, gone) = DOMAIN d \ gone
        /\ \A x \in DOMAIN d \ gone : Without(d, gone)[x] = d[x]
    BY <2>3, WithoutTable
  <2> QED
    BY <2>1, <2>3, <2>4
<1>7. IsTable(vs, Humans, Texts) /\ \A x \in DOMAIN vs : x \in DOMAIN h.viewed /\ vs[x] = h.viewed[x]
  <2>1. PICK m : m = h.viewed
    OBVIOUS
  <2>2. PICK gone : gone = {EmailOf[o]}
    OBVIOUS
  <2>3. IsTable(m, Humans, Texts) /\ vs = Without(m, gone)
    BY <2>1, <2>2, <1>2, <1>5
  <2>4. /\ IsTable(Without(m, gone), Humans, Texts)
        /\ DOMAIN Without(m, gone) = DOMAIN m \ gone
        /\ \A x \in DOMAIN m \ gone : Without(m, gone)[x] = m[x]
    BY <2>3, WithoutTable
  <2> QED
    BY <2>1, <2>3, <2>4
<1>8. /\ g.drafts = ds /\ g.viewed = vs /\ g.audit = h.audit
      /\ g = [drafts |-> g.drafts, viewed |-> g.viewed, audit |-> g.audit]
  BY <1>4
<1>9. \A x \in DOMAIN ds : ds[x].humanId = x /\ EmailOf[ds[x].text[1]] = x
  BY <1>5, <1>6
<1>10. \A x \in DOMAIN vs : EmailOf[vs[x][1]] = x
  BY <1>5, <1>7
<1>11. HostIsSound(g)
  BY <1>6, <1>7, <1>8, <1>9, <1>10 DEF HostIsSound
<1> QED
  BY <1>3, <1>8, <1>11

-----------------------------------------------------------------------------
(* What GitHub makes. *)

(* One more artifact of a kind takes the next number of that kind, and no  *)
(* number of another.                                                      *)
LEMMA OneMore ==
  ASSUME NEW M, Numbered(M), NEW a \in Artifact,
         a.id = Cardinality(OfKind(M, a.kind)) + 1
  PROVE  /\ Numbered(M \cup {a})
         /\ \A b \in M : b.kind = a.kind => b.id # a.id
         /\ \A k : k # a.kind => OfKind(M \cup {a}, k) = OfKind(M, k)
<1> DEFINE N == M \cup {a}
<1>1. /\ M \in SUBSET Artifact /\ IsFiniteSet(M)
      /\ \A b \in M : b.id \in 1..Cardinality(OfKind(M, b.kind))
      /\ \A b, c \in M : b.kind = c.kind /\ b.id = c.id => b = c
  BY DEF Numbered
<1>2. \A k : OfKind(M, k) \in SUBSET M
  BY DEF OfKind
<1>3. \A k : IsFiniteSet(OfKind(M, k)) /\ Cardinality(OfKind(M, k)) \in Nat
  <2> SUFFICES ASSUME NEW k
               PROVE  IsFiniteSet(OfKind(M, k)) /\ Cardinality(OfKind(M, k)) \in Nat
    OBVIOUS
  <2>1. IsFiniteSet(OfKind(M, k))
    BY <1>1, <1>2, FS_Subset
  <2> QED
    BY <2>1, FS_CardinalityType
<1>4. \A b \in M : b.kind = a.kind => b.id # a.id
  <2> SUFFICES ASSUME NEW b \in M, b.kind = a.kind
               PROVE  b.id # a.id
    OBVIOUS
  <2>1. PICK m : m = Cardinality(OfKind(M, a.kind))
    OBVIOUS
  <2>2. m \in Nat /\ b.id \in 1..m /\ a.id = m + 1
    BY <1>1, <1>3, <2>1
  <2> QED
    BY <2>2
<1>5. \A k : k # a.kind => OfKind(N, k) = OfKind(M, k)
  BY DEF OfKind
<1>6. OfKind(N, a.kind) = OfKind(M, a.kind) \cup {a}
  BY DEF OfKind
<1>7. a \notin OfKind(M, a.kind)
  BY <1>4 DEF OfKind
<1>8. Cardinality(OfKind(N, a.kind)) = Cardinality(OfKind(M, a.kind)) + 1
  BY <1>3, <1>6, <1>7, FS_AddElement
<1>9. IsFiniteSet(N) /\ N \in SUBSET Artifact
  BY <1>1, FS_AddElement
<1>10. ASSUME NEW b \in N
       PROVE  b.id \in 1..Cardinality(OfKind(N, b.kind))
  <2>1. PICK m : m = Cardinality(OfKind(M, a.kind))
    OBVIOUS
  <2>2. m \in Nat /\ Cardinality(OfKind(N, a.kind)) = m + 1
    BY <2>1, <1>3, <1>8
  <2>3. CASE b = a
    BY <2>1, <2>2, <2>3
  <2>4. CASE b # a /\ b.kind = a.kind
    <3>1. b.id \in 1..m
      BY <2>1, <2>4, <1>1
    <3> QED
      BY <2>2, <2>4, <3>1
  <2>5. CASE b.kind # a.kind
    <3>1. b \in M /\ OfKind(N, b.kind) = OfKind(M, b.kind)
      BY <2>5, <1>5
    <3> QED
      BY <3>1, <1>1
  <2> QED
    BY <2>3, <2>4, <2>5
<1>11. \A b, c \in N : b.kind = c.kind /\ b.id = c.id => b = c
  BY <1>1, <1>4
<1>12. Numbered(N)
  BY <1>9, <1>10, <1>11 DEF Numbered
<1> QED
  BY <1>4, <1>5, <1>12

LEMMA NextIdIsNatural ==
  ASSUME MadeOnce, NEW k \in Kinds
  PROVE  NextId(k) \in Nat \ {0}
<1>1. OfKind(made, k) \in SUBSET made /\ IsFiniteSet(made)
  BY DEF OfKind, MadeOnce, Numbered
<1>2. Cardinality(OfKind(made, k)) \in Nat
  BY <1>1, FS_Subset, FS_CardinalityType
<1> QED
  BY <1>2 DEF NextId

LEMMA NewIsArtifact ==
  ASSUME MadeOnce, NEW k \in Kinds, NEW i \in Nat, NEW by \in Makers
  PROVE  /\ New(k, i, by) \in Artifact
         /\ New(k, i, by).kind = k /\ New(k, i, by).id = NextId(k)
         /\ New(k, i, by).reviewId = i /\ New(k, i, by).by = by
         /\ by # "person" => New(k, i, by).author = "bot"
<1>1. PICK n : n = NextId(k)
  OBVIOUS
<1>2. n \in Nat
  BY <1>1, NextIdIsNatural
<1>3. PICK author : author = IF by = "person" THEN "person" ELSE "bot"
  OBVIOUS
<1>4. author \in {"bot", "person"} /\ (by # "person" => author = "bot")
  BY <1>3
<1>5. PICK a : a = [kind |-> k, id |-> n, reviewId |-> i, by |-> by, author |-> author]
  OBVIOUS
<1>6. /\ a \in Artifact /\ a.kind = k /\ a.id = n /\ a.reviewId = i /\ a.by = by
      /\ a.author = author
  BY <1>2, <1>4, <1>5 DEF Artifact
<1>7. New(k, i, by) = a
  BY <1>1, <1>3, <1>5 DEF New
<1> QED
  BY <1>1, <1>4, <1>6, <1>7

(* What a POST creates: the numbers stay given once, and nothing that was  *)
(* there before is a comment of the new review.                            *)
Creates(artifacts, by) ==
  \/ \E comments \in BOOLEAN : artifacts = ReviewWith(comments, by)
  \/ by = "bypass" /\ artifacts = {New("issue_comment", 0, by)}

LEMMA CreatedOnce ==
  ASSUME MadeOnce, NEW by \in Makers, NEW artifacts, Creates(artifacts, by),
         made' = made \cup artifacts, present' = present \cup artifacts
  PROVE  /\ MadeOnce'
         /\ \A a \in artifacts : a \notin made
         /\ \A c \in OfKind(artifacts, "review_comment"), r \in OfKind(made, "review") :
              c.reviewId # r.id
<1>1. /\ Numbered(made) /\ present \in SUBSET made
      /\ \A a \in made : Bypass(a) => a.author = "bot"
      /\ \A c \in OfKind(made, "review_comment") :
           \E r \in OfKind(made, "review") : r.id = c.reviewId /\ r.by = c.by
  BY DEF MadeOnce
<1>2. present' \in SUBSET made'
  BY <1>1
<1>3. "review" \in Kinds /\ "review_comment" \in Kinds /\ "issue_comment" \in Kinds
  BY DEF Kinds
<1>4. CASE by = "bypass" /\ artifacts = {New("issue_comment", 0, by)}
  <2>1. PICK a : a = New("issue_comment", 0, by)
    OBVIOUS
  <2>2. /\ a \in Artifact /\ a.kind = "issue_comment" /\ a.id = NextId("issue_comment")
        /\ a.by = by /\ a.author = "bot"
    BY <2>1, <1>3, <1>4, NewIsArtifact
  <2>3. /\ Numbered(made \cup {a})
        /\ \A b \in made : b.kind = a.kind => b.id # a.id
        /\ \A k : k # a.kind => OfKind(made \cup {a}, k) = OfKind(made, k)
    BY <1>1, <2>2, OneMore DEF NextId
  <2>4. made' = made \cup {a} /\ artifacts = {a}
    BY <1>4, <2>1
  <2>5. \A b \in made' : Bypass(b) => b.author = "bot"
    BY <1>1, <2>2, <2>4 DEF Bypass
  <2>6. /\ OfKind(made', "review") = OfKind(made, "review")
        /\ OfKind(made', "review_comment") = OfKind(made, "review_comment")
    BY <2>2, <2>3, <2>4
  <2>7. Numbered(made') /\ a \notin made /\ OfKind(artifacts, "review_comment") = {}
    BY <2>2, <2>3, <2>4 DEF OfKind
  <2>8. Numbered(made)'
    BY <2>7 DEF Numbered, OfKind
  <2>9. MadeOnce'
    BY <1>1, <1>2, <2>5, <2>6, <2>8 DEF MadeOnce, Bypass, OfKind
  <2> QED
    BY <2>4, <2>7, <2>9
<1>5. ASSUME NEW comments \in BOOLEAN, artifacts = ReviewWith(comments, by)
      PROVE  /\ MadeOnce'
             /\ \A a \in artifacts : a \notin made
             /\ \A c \in OfKind(artifacts, "review_comment"), r \in OfKind(made, "review") :
                  c.reviewId # r.id
  <2>1. PICK n : n = NextId("review")
    OBVIOUS
  <2>2. PICK r : r = New("review", 0, by)
    OBVIOUS
  <2>3. PICK c : c = New("review_comment", n, by)
    OBVIOUS
  <2>4. n \in Nat
    BY <2>1, <1>3, NextIdIsNatural
  <2>5. /\ r \in Artifact /\ r.kind = "review" /\ r.id = n /\ r.by = by
        /\ by # "person" => r.author = "bot"
    BY <2>1, <2>2, <1>3, NewIsArtifact
  <2>6. /\ c \in Artifact /\ c.kind = "review_comment" /\ c.id = NextId("review_comment")
        /\ c.reviewId = n /\ c.by = by
        /\ by # "person" => c.author = "bot"
    BY <2>3, <2>4, <1>3, NewIsArtifact
  <2>7. PICK M : M = made \cup {r}
    OBVIOUS
  <2>8. /\ Numbered(M)
        /\ \A b \in made : b.kind = "review" => b.id # n
        /\ OfKind(M, "review_comment") = OfKind(made, "review_comment")
    BY <1>1, <2>1, <2>5, <2>7, OneMore DEF NextId
  <2>9. c.id = Cardinality(OfKind(M, c.kind)) + 1
    BY <2>6, <2>8 DEF NextId
  <2>10. /\ Numbered(M \cup {c})
         /\ \A b \in M : b.kind = "review_comment" => b.id # c.id
    BY <2>6, <2>8, <2>9, OneMore
  <2>11. artifacts = IF comments THEN {r, c} ELSE {r}
    BY <1>5, <2>1, <2>2, <2>3 DEF ReviewWith
  <2>12. made' = IF comments THEN M \cup {c} ELSE M
    BY <2>7, <2>11
  <2>13. Numbered(made)'
    <3>1. Numbered(made')
      BY <2>8, <2>10, <2>12
    <3> QED
      BY <3>1 DEF Numbered, OfKind
  <2>14. \A a \in made' : Bypass(a) => a.author = "bot"
    <3>1. Bypass(r) => r.author = "bot"
      BY <2>5 DEF Bypass
    <3>2. Bypass(c) => c.author = "bot"
      BY <2>6 DEF Bypass
    <3> QED
      BY <1>1, <2>7, <2>12, <3>1, <3>2
  <2>15. \A d \in OfKind(made', "review_comment") :
           \E q \in OfKind(made', "review") : q.id = d.reviewId /\ q.by = d.by
    <3>1. OfKind(made, "review") \subseteq OfKind(made', "review") /\ r \in OfKind(made', "review")
      BY <2>5, <2>7, <2>12 DEF OfKind
    <3>2. \A d \in OfKind(made', "review_comment") : d \in OfKind(made, "review_comment") \/ d = c
      BY <2>5, <2>7, <2>12 DEF OfKind
    <3> QED
      BY <3>1, <3>2, <1>1, <2>5, <2>6
  <2>16. MadeOnce'
    BY <1>2, <2>13, <2>14, <2>15 DEF MadeOnce, Bypass, OfKind
  <2>17. r \notin made /\ c \notin made
    BY <2>5, <2>6, <2>7, <2>8, <2>10
  <2>18. \A d \in OfKind(artifacts, "review_comment") : d = c
    BY <2>5, <2>11 DEF OfKind
  <2>19. \A q \in OfKind(made, "review") : q.id # n
    BY <2>8 DEF OfKind
  <2> QED
    BY <2>6, <2>11, <2>16, <2>17, <2>18, <2>19
<1> QED
  BY <1>4, <1>5 DEF Creates

-----------------------------------------------------------------------------
(* What a step that leaves part of the state alone leaves of the invariant. *)

LEMMA NamesStay ==
  ASSUME made \subseteq made', NEW o, NEW row, Names(o, row)
  PROVE  Names(o, row)'
BY DEF Names, OfKind

LEMMA DiscussionStays ==
  ASSUME MadeOnce, UNCHANGED discussion
  PROVE  MadeOnce'
BY DEF MadeOnce, Numbered, OfKind, discussion

LEMMA JournalsStay ==
  ASSUME JournalsNameTheirWrites, made \subseteq made', UNCHANGED <<journals, owing>>
  PROVE  JournalsNameTheirWrites'
<1>1. /\ journals' \in [Owners -> SUBSET Rows] /\ owing' \in [Owners -> SUBSET SUBSET Rows]
      /\ \A o \in Owners :
           /\ IsFiniteSet(journals'[o])
           /\ \A row \in journals'[o] : Names(o, row)
           /\ \A rows \in owing'[o] : IsFiniteSet(rows) /\ \A row \in rows : Names(o, row)
  BY DEF JournalsNameTheirWrites
<1>2. \A o, row : Names(o, row) => Names(o, row)'
  BY NamesStay
<1> QED
  BY <1>1, <1>2 DEF JournalsNameTheirWrites

(* The host's tables stay sound while the workspaces' journals grow.       *)
LEMMA HostStays ==
  ASSUME HostIsSound(host'), journals \in [Owners -> SUBSET Rows],
         \A o \in Owners : journals[o] \subseteq journals'[o]
  PROVE  HostIsSound(host)'
<1>1. \A row \in ToSet(host'.audit) :
        /\ row.human = EmailOf[row.workspace]
        /\ Row(row.endpoint, row.id) \in journals[row.workspace]
        /\ row.workspace \in Owners
  <2>1. host'.audit \in Seq(AuditRows)
    BY DEF HostIsSound
  <2>2. \A row \in ToSet(host'.audit) : row \in AuditRows
    BY <2>1 DEF ToSet
  <2>3. \A row \in ToSet(host'.audit) : row.workspace \in Owners
    BY <2>2 DEF AuditRows
  <2> QED
    BY <2>3 DEF HostIsSound
<1>2. \A row \in ToSet(host'.audit) :
        /\ row.human = EmailOf[row.workspace]
        /\ Row(row.endpoint, row.id) \in journals'[row.workspace]
  BY <1>1
<1> QED
  BY <1>2 DEF HostIsSound

LEMMA KeptStays ==
  ASSUME KeptIsInTheJournal, ToSet(host.audit) \subseteq ToSet(host'.audit), kept' = kept
  PROVE  KeptIsInTheJournal'
<1>1. \A k \in kept' : /\ k \in Owners \X Rows
                       /\ AuditRow(k[1], k[2]) \in ToSet(host'.audit)
  BY DEF KeptIsInTheJournal
<1> QED
  BY <1>1 DEF KeptIsInTheJournal

LEMMA PulledStays ==
  ASSUME PulledIsJournalled, tick' = tick, \A o \in Owners : journals[o] \subseteq journals'[o]
  PROVE  PulledIsJournalled'
<1>1. /\ IsTable(tick.pulled, Owners, Pulls)
      /\ \A o \in DOMAIN tick.pulled : tick.pulled[o].rows \subseteq journals[o]
      /\ tick.toLand \in SUBSET DOMAIN tick.pulled
      /\ tick.step \notin {"pull", "land"} => tick.toLand = {}
  BY DEF PulledIsJournalled
<1>2. DOMAIN tick.pulled \subseteq Owners
  BY <1>1 DEF IsTable
<1>3. \A o \in DOMAIN tick.pulled : tick.pulled[o].rows \subseteq journals'[o]
  BY <1>1, <1>2
<1> QED
  BY <1>1, <1>3 DEF PulledIsJournalled

LEMMA ShapeStays ==
  ASSUME TickShape, tick' = tick
  PROVE  TickShape'
BY DEF TickShape

(* What was listed stays so: what comes up is new, and is no comment of a  *)
(* review that was there.                                                  *)
LEMMA ListedStays ==
  ASSUME Listed, tick' = tick, made \subseteq made',
         \A a \in present' : a \in present \/ a \notin made,
         \A c \in OfKind(present', "review_comment"), r \in OfKind(made, "review") :
           c.reviewId = r.id => c \in present
  PROVE  Listed'
<1>1. /\ tick.found.reviews \subseteq OfKind(made, "review")
      /\ tick.found.reviewComments \subseteq OfKind(made, "review_comment")
      /\ tick.found.issueComments \subseteq OfKind(made, "issue_comment")
      /\ tick.before \subseteq {a \in made : Bypass(a)}
  BY DEF Listed
<1>2. /\ tick.found.reviews \subseteq OfKind(made', "review")
      /\ tick.found.reviewComments \subseteq OfKind(made', "review_comment")
      /\ tick.found.issueComments \subseteq OfKind(made', "issue_comment")
      /\ tick.before \subseteq {a \in made' : Bypass(a)}
  BY <1>1 DEF OfKind
<1>3. \A k : OfKind(tick.before \cap present', k) \subseteq OfKind(tick.before \cap present, k)
  BY <1>1 DEF OfKind
<1>4. tick.step \in {"comments", "issues", "detect"} =>
        OfKind(tick.before \cap present', "review") \subseteq tick.found.reviews
  BY <1>3 DEF Listed
<1>5. tick.step \in {"issues", "detect"} =>
        OfKind(tick.before \cap present', "review_comment") \subseteq tick.found.reviewComments
  BY <1>3 DEF Listed
<1>6. tick.step \in {"issues", "detect"} =>
        \A c \in OfKind(present', "review_comment"), r \in tick.found.reviews :
          c.reviewId = r.id => c \in tick.found.reviewComments
  <2> SUFFICES ASSUME tick.step \in {"issues", "detect"},
                      NEW c \in OfKind(present', "review_comment"), NEW r \in tick.found.reviews,
                      c.reviewId = r.id
               PROVE  c \in tick.found.reviewComments
    OBVIOUS
  <2>1. c \in OfKind(present, "review_comment")
    BY <1>1 DEF OfKind
  <2> QED
    BY <2>1 DEF Listed
<1>7. tick.step = "detect" =>
        OfKind(tick.before \cap present', "issue_comment") \subseteq tick.found.issueComments
  BY <1>3 DEF Listed
<1> QED
  BY <1>2, <1>4, <1>5, <1>6, <1>7 DEF Listed, OfKind, Bypass

(* An event is counted.                                                    *)
LEMMA CountStays ==
  ASSUME Counted, Event \/ UNCHANGED events, UNCHANGED <<bound, work>>
  PROVE  Counted'
<1>1. MaxEvents \in Nat
  BY CollectorAssumption
<1>2. events \in Nat /\ events \in 0..MaxEvents /\ events' \in 0..MaxEvents
      /\ events <= events'
  BY <1>1 DEF Counted, Event
<1>3. \A o \in Owners : work[o] <= events'
  BY <1>1, <1>2 DEF Counted
<1> QED
  BY <1>2, <1>3 DEF Counted

-----------------------------------------------------------------------------
(* Steps of the workspaces and on GitHub. *)

LEMMA HostLooksOn ==
  ASSUME CInv, UNCHANGED <<hosted, tick, kept>>,
         \A o \in Owners : journals[o] \subseteq journals'[o]
  PROVE  HostIsSound(host)' /\ KeptIsInTheJournal' /\ PulledIsJournalled' /\ TickShape'
<1>1. host' = host /\ tick' = tick /\ kept' = kept
  BY DEF hosted
<1>2. HostIsSound(host') /\ journals \in [Owners -> SUBSET Rows]
  BY <1>1 DEF CInv, JournalsNameTheirWrites
<1>3. HostIsSound(host)'
  BY <1>2, HostStays
<1>4. KeptIsInTheJournal'
  BY <1>1, KeptStays DEF CInv
<1>5. PulledIsJournalled' /\ TickShape'
  BY <1>1, PulledStays, ShapeStays DEF CInv
<1> QED
  BY <1>3, <1>4, <1>5

LEMMA CreationIsSeen ==
  ASSUME CInv, NEW by \in Makers, NEW artifacts, Creates(artifacts, by), Create(artifacts),
         UNCHANGED <<hosted, work, tick, kept, journals>>
  PROVE  /\ MadeOnce' /\ Listed' /\ Counted' /\ made \subseteq made'
         /\ HostIsSound(host)' /\ KeptIsInTheJournal' /\ PulledIsJournalled' /\ TickShape'
<1>1. made' = made \cup artifacts /\ present' = present \cup artifacts /\ Event
  BY DEF Create
<1>2. /\ MadeOnce'
      /\ \A a \in artifacts : a \notin made
      /\ \A c \in OfKind(artifacts, "review_comment"), r \in OfKind(made, "review") :
           c.reviewId # r.id
  BY <1>1, CreatedOnce DEF CInv
<1>3. made \subseteq made' /\ \A a \in present' : a \in present \/ a \notin made
  BY <1>1, <1>2
<1>4. \A c \in OfKind(present', "review_comment"), r \in OfKind(made, "review") :
        c.reviewId = r.id => c \in present
  <2>1. \A c \in OfKind(present', "review_comment") :
          c \in present \/ c \in OfKind(artifacts, "review_comment")
    BY <1>1 DEF OfKind
  <2> QED
    BY <1>2, <2>1
<1>5. Listed'
  BY <1>3, <1>4, ListedStays DEF CInv
<1>6. Counted'
  BY <1>1, CountStays DEF CInv, hosted
<1>7. HostIsSound(host)' /\ KeptIsInTheJournal' /\ PulledIsJournalled' /\ TickShape'
  BY HostLooksOn
<1> QED
  BY <1>2, <1>3, <1>5, <1>6, <1>7

(* The rows a write owes its journal name what it made.                    *)
LEMMA OwedRows ==
  ASSUME JournalsNameTheirWrites, made \subseteq made', NEW o \in Owners,
         NEW rows \in SUBSET Rows, IsFiniteSet(rows), \A row \in rows : Names(o, row)',
         journals' = journals, owing' = [owing EXCEPT ![o] = @ \cup {rows}]
  PROVE  JournalsNameTheirWrites'
<1>1. \A p, row : Names(p, row) => Names(p, row)'
  BY NamesStay
<1>2. /\ journals \in [Owners -> SUBSET Rows] /\ owing \in [Owners -> SUBSET SUBSET Rows]
      /\ \A p \in Owners :
           /\ IsFiniteSet(journals[p])
           /\ \A row \in journals[p] : Names(p, row)
           /\ \A rs \in owing[p] : IsFiniteSet(rs) /\ \A row \in rs : Names(p, row)
  BY DEF JournalsNameTheirWrites
<1>3. owing' \in [Owners -> SUBSET SUBSET Rows]
  BY <1>2
<1>4. \A p \in Owners : \A rs \in owing'[p] : rs \in owing[p] \/ (p = o /\ rs = rows)
  BY <1>2
<1>5. \A p \in Owners : \A rs \in owing'[p] : IsFiniteSet(rs) /\ \A row \in rs : Names(p, row)'
  BY <1>1, <1>2, <1>4
<1>6. \A p \in Owners : IsFiniteSet(journals'[p]) /\ \A row \in journals'[p] : Names(p, row)'
  BY <1>1, <1>2
<1> QED
  BY <1>2, <1>3, <1>5, <1>6 DEF JournalsNameTheirWrites

LEMMA PairIsFinite ==
  ASSUME NEW x, NEW y
  PROVE  IsFiniteSet({x, y})
<1>1. IsFiniteSet({x} \cup {y})
  BY FS_Singleton, FS_AddElement
<1>2. {x} \cup {y} = {x, y}
  OBVIOUS
<1> QED
  BY <1>1, <1>2

LEMMA RowIsRow ==
  ASSUME NEW e \in Endpoints, NEW i \in Nat
  PROVE  Row(e, i) \in Rows /\ Row(e, i).endpoint = e /\ Row(e, i).id = i
BY DEF Row, Rows

LEMMA SubmitReviewStep ==
  ASSUME CInv, NEW o \in Owners, NEW comments \in BOOLEAN, SubmitReview(o, comments)
  PROVE  CInv'
<1>1. PICK artifacts : artifacts = ReviewWith(comments, o)
  OBVIOUS
<1>2. PICK n : n = NextId("review")
  OBVIOUS
<1>3. PICK m : m = NextId("review_comment")
  OBVIOUS
<1>4. PICK rows : rows = {Row("submitReview", n)} \cup
                         IF comments THEN {Row("submitReviewComment", m)} ELSE {}
  OBVIOUS
<1>5. /\ o \in Makers /\ Creates(artifacts, o) /\ Create(artifacts)
      /\ journals' = journals /\ owing' = [owing EXCEPT ![o] = @ \cup {rows}]
      /\ UNCHANGED <<hosted, work, tick, kept, journals>>
  BY <1>1, <1>2, <1>3, <1>4 DEF SubmitReview, Owe, Creates, Makers
<1>6. /\ MadeOnce' /\ Listed' /\ Counted' /\ made \subseteq made'
      /\ HostIsSound(host)' /\ KeptIsInTheJournal' /\ PulledIsJournalled' /\ TickShape'
  BY <1>5, CreationIsSeen
<1>7. n \in Nat /\ m \in Nat
  BY <1>2, <1>3, NextIdIsNatural DEF CInv, Kinds
<1>8. "submitReview" \in Endpoints /\ "submitReviewComment" \in Endpoints
  BY DEF Endpoints
<1>9. PICK x : x = Row("submitReview", n)
  OBVIOUS
<1>10. PICK y : y = Row("submitReviewComment", m)
  OBVIOUS
<1>11. /\ x \in Rows /\ x.endpoint = "submitReview" /\ x.id = n
       /\ y \in Rows /\ y.endpoint = "submitReviewComment"
  BY <1>7, <1>8, <1>9, <1>10, RowIsRow
<1>12. rows \in SUBSET Rows /\ IsFiniteSet(rows) /\ \A row \in rows : row = x \/ row = y
  <2>1. rows = {x, y} \/ rows = {x, x}
    BY <1>4, <1>9, <1>10
  <2> QED
    BY <2>1, <1>11, PairIsFinite
<1>13. PICK r : r = New("review", 0, o)
  OBVIOUS
<1>14. r \in artifacts /\ r.kind = "review" /\ r.id = n /\ r.by = o
  <2>1. r.kind = "review" /\ r.id = n /\ r.by = o
    BY <1>2, <1>5, <1>13, NewIsArtifact DEF CInv, Kinds
  <2>2. r \in artifacts
    BY <1>1, <1>13 DEF ReviewWith
  <2> QED
    BY <2>1, <2>2
<1>15. r \in OfKind(made', "review")
  BY <1>5, <1>14 DEF Create, OfKind
<1>16. Names(o, x)' /\ Names(o, y)'
  BY <1>11, <1>14, <1>15 DEF Names, OfKind
<1>17. JournalsNameTheirWrites'
  BY <1>5, <1>6, <1>12, <1>16, OwedRows DEF CInv
<1> QED
  BY <1>6, <1>17 DEF CInv

LEMMA ReplyToThreadStep ==
  ASSUME CInv, NEW o \in Owners, ReplyToThread(o)
  PROVE  CInv'
<1>1. PICK artifacts : artifacts = ReviewWith(TRUE, o)
  OBVIOUS
<1>2. PICK n : n = NextId("review")
  OBVIOUS
<1>3. PICK m : m = NextId("review_comment")
  OBVIOUS
<1>4. PICK x : x = Row("replyToThread", m)
  OBVIOUS
<1>5. /\ o \in Makers /\ Creates(artifacts, o) /\ Create(artifacts)
      /\ journals' = journals /\ owing' = [owing EXCEPT ![o] = @ \cup {{x}}]
      /\ UNCHANGED <<hosted, work, tick, kept, journals>>
  BY <1>1, <1>3, <1>4 DEF ReplyToThread, Owe, Creates, Makers
<1>6. /\ MadeOnce' /\ Listed' /\ Counted' /\ made \subseteq made'
      /\ HostIsSound(host)' /\ KeptIsInTheJournal' /\ PulledIsJournalled' /\ TickShape'
  BY <1>5, CreationIsSeen
<1>7. n \in Nat /\ m \in Nat
  BY <1>2, <1>3, NextIdIsNatural DEF CInv, Kinds
<1>8. "replyToThread" \in Endpoints
  BY DEF Endpoints
<1>9. x \in Rows /\ x.endpoint = "replyToThread" /\ x.id = m
  BY <1>4, <1>7, <1>8, RowIsRow
<1>10. IsFiniteSet({x})
  BY FS_Singleton
<1>11. PICK c : c = New("review_comment", n, o)
  OBVIOUS
<1>12. c.kind = "review_comment" /\ c.id = m /\ c.by = o
  BY <1>3, <1>5, <1>7, <1>11, NewIsArtifact DEF CInv, Kinds
<1>13. c \in artifacts
  BY <1>1, <1>2, <1>11 DEF ReviewWith
<1>14. c \in OfKind(made', "review_comment")
  BY <1>5, <1>12, <1>13 DEF Create, OfKind
<1>15. Names(o, x)'
  BY <1>9, <1>12, <1>14 DEF Names, OfKind
<1>16. {x} \in SUBSET Rows /\ \A row \in {x} : Names(o, row)'
  <2>1. \A row \in {x} : row = x
    OBVIOUS
  <2> QED
    BY <1>9, <1>15, <2>1
<1>17. JournalsNameTheirWrites'
  BY <1>5, <1>6, <1>10, <1>16, OwedRows DEF CInv
<1> QED
  BY <1>6, <1>17 DEF CInv

LEMMA WriteElsewhereStep ==
  ASSUME CInv, NEW by \in {"bypass", "person"}, WriteElsewhere(by)
  PROVE  CInv'
<1>1. UNCHANGED <<hosted, work, tick, kept, journals>> /\ UNCHANGED <<journals, owing>>
  BY DEF WriteElsewhere, workspaces
<1>2. PICK artifacts : Creates(artifacts, by) /\ Create(artifacts)
  BY DEF WriteElsewhere, Creates
<1>3. by \in Makers
  BY DEF Makers
<1>4. /\ MadeOnce' /\ Listed' /\ Counted' /\ made \subseteq made'
      /\ HostIsSound(host)' /\ KeptIsInTheJournal' /\ PulledIsJournalled' /\ TickShape'
  BY <1>1, <1>2, <1>3, CreationIsSeen
<1>5. JournalsNameTheirWrites'
  BY <1>1, <1>4, JournalsStay DEF CInv
<1> QED
  BY <1>4, <1>5 DEF CInv

(* A journal takes rows that name their writes.                            *)
LEMMA JournalGrows ==
  ASSUME CInv, NEW o \in Owners, NEW rows \in SUBSET Rows, IsFiniteSet(rows),
         \A row \in rows : Names(o, row),
         journals' = [journals EXCEPT ![o] = @ \cup rows],
         owing' \in [Owners -> SUBSET SUBSET Rows],
         \A p \in Owners : owing'[p] \subseteq owing[p],
         UNCHANGED <<discussion, work, hosted, tick, kept>>, Event \/ UNCHANGED events
  PROVE  CInv'
<1>1. /\ journals \in [Owners -> SUBSET Rows]
      /\ \A p \in Owners :
           /\ IsFiniteSet(journals[p])
           /\ \A row \in journals[p] : Names(p, row)
           /\ \A rs \in owing[p] : IsFiniteSet(rs) /\ \A row \in rs : Names(p, row)
  BY DEF CInv, JournalsNameTheirWrites
<1>2. /\ made' = made /\ present' = present /\ tick' = tick
      /\ journals' \in [Owners -> SUBSET Rows]
      /\ journals'[o] = journals[o] \cup rows
      /\ \A p \in Owners : p # o => journals'[p] = journals[p]
  BY <1>1 DEF discussion
<1>3. IsFiniteSet(journals'[o])
  BY <1>1, <1>2, FS_Union
<1>4. \A p, row : Names(p, row) => Names(p, row)'
  BY <1>2, NamesStay
<1>5. \A p \in Owners : IsFiniteSet(journals'[p]) /\ \A row \in journals'[p] : Names(p, row)'
  BY <1>1, <1>2, <1>3, <1>4
<1>6. \A p \in Owners : \A rs \in owing'[p] : IsFiniteSet(rs) /\ \A row \in rs : Names(p, row)'
  BY <1>1, <1>4
<1>7. JournalsNameTheirWrites'
  BY <1>2, <1>5, <1>6 DEF JournalsNameTheirWrites
<1>8. \A p \in Owners : journals[p] \subseteq journals'[p]
  BY <1>2
<1>9. HostIsSound(host)' /\ KeptIsInTheJournal' /\ PulledIsJournalled' /\ TickShape'
  BY <1>8, HostLooksOn
<1>10. MadeOnce' /\ Listed' /\ Counted'
  <2>1. MadeOnce'
    BY DiscussionStays DEF CInv
  <2>2. \A c \in OfKind(present', "review_comment") : c \in present
    BY <1>2 DEF OfKind
  <2>3. Listed'
    BY <1>2, <2>2, ListedStays DEF CInv
  <2>4. Counted'
    BY CountStays DEF CInv, hosted
  <2> QED
    BY <2>1, <2>3, <2>4
<1> QED
  BY <1>7, <1>9, <1>10 DEF CInv

LEMMA RecordStep ==
  ASSUME CInv, NEW o \in Owners, NEW rows \in owing[o], Record(o, rows)
  PROVE  CInv'
<1>1. /\ owing \in [Owners -> SUBSET SUBSET Rows]
      /\ IsFiniteSet(rows) /\ \A row \in rows : Names(o, row)
  BY DEF CInv, JournalsNameTheirWrites
<1>2. rows \in SUBSET Rows
  BY <1>1
<1>3. /\ journals' = [journals EXCEPT ![o] = @ \cup rows]
      /\ owing' = [owing EXCEPT ![o] = @ \ {rows}]
      /\ UNCHANGED <<discussion, work, hosted, tick, kept>> /\ UNCHANGED events
  BY DEF Record
<1>4. owing' \in [Owners -> SUBSET SUBSET Rows] /\ \A p \in Owners : owing'[p] \subseteq owing[p]
  BY <1>1, <1>3
<1> QED
  BY <1>1, <1>2, <1>3, <1>4, JournalGrows

LEMMA TouchStep ==
  ASSUME CInv, NEW o \in Owners, NEW a \in present, Touch(o, a)
  PROVE  CInv'
<1>1. PICK endpoint \in {"addReaction", "resolveThread"} :
        journals' = [journals EXCEPT ![o] = @ \cup {Row(endpoint, a.id)}]
  BY DEF Touch
<1>2. PICK x : x = Row(endpoint, a.id)
  OBVIOUS
<1>3. a \in Artifact
  BY DEF CInv, MadeOnce, Numbered
<1>4. endpoint \in Endpoints /\ a.id \in Nat
  BY <1>3 DEF Endpoints, Artifact
<1>5. x \in Rows /\ x.endpoint \in {"addReaction", "resolveThread"}
  BY <1>2, <1>4, RowIsRow
<1>6. \A row \in {x} : Names(o, row)
  <2>1. Names(o, x)
    BY <1>5 DEF Names
  <2>2. \A row \in {x} : row = x
    OBVIOUS
  <2> QED
    BY <2>1, <2>2, Zenon
<1>7. IsFiniteSet({x}) /\ {x} \in SUBSET Rows
  BY <1>5, FS_Singleton
<1>8. /\ owing' \in [Owners -> SUBSET SUBSET Rows] /\ \A p \in Owners : owing'[p] \subseteq owing[p]
      /\ UNCHANGED <<discussion, work, hosted, tick, kept>> /\ Event
      /\ journals' = [journals EXCEPT ![o] = @ \cup {x}]
  BY <1>1, <1>2 DEF Touch, CInv, JournalsNameTheirWrites
<1> QED
  BY <1>6, <1>7, <1>8, JournalGrows

LEMMA DeleteStep ==
  ASSUME CInv, NEW a \in present, Delete(a)
  PROVE  CInv'
<1>1. /\ made' = made /\ present' \subseteq present /\ Event
      /\ UNCHANGED <<journals, owing>> /\ UNCHANGED <<hosted, tick, kept>>
      /\ UNCHANGED <<bound, work>> /\ tick' = tick
  BY DEF Delete, workspaces, hosted
<1>2. MadeOnce'
  <2>1. /\ Numbered(made) /\ present' \in SUBSET made
        /\ \A b \in made : Bypass(b) => b.author = "bot"
        /\ \A c \in OfKind(made, "review_comment") :
             \E r \in OfKind(made, "review") : r.id = c.reviewId /\ r.by = c.by
    BY <1>1 DEF CInv, MadeOnce
  <2>2. Numbered(made)'
    BY <1>1, <2>1 DEF Numbered, OfKind
  <2> QED
    BY <1>1, <2>1, <2>2 DEF MadeOnce, Bypass, OfKind
<1>3. JournalsNameTheirWrites'
  BY <1>1, JournalsStay DEF CInv
<1>4. HostIsSound(host)' /\ KeptIsInTheJournal' /\ PulledIsJournalled' /\ TickShape'
  BY <1>1, HostLooksOn
<1>5. Listed'
  <2>1. \A c \in OfKind(present', "review_comment") : c \in present
    BY <1>1 DEF OfKind
  <2> QED
    BY <1>1, <2>1, ListedStays DEF CInv
<1>6. Counted'
  BY <1>1, CountStays DEF CInv
<1> QED
  BY <1>2, <1>3, <1>4, <1>5, <1>6 DEF CInv

LEMMA EditStep ==
  ASSUME CInv, NEW o \in Owners, Edit(o)
  PROVE  CInv'
<1>1. /\ UNCHANGED discussion /\ made' = made /\ present' = present /\ tick' = tick
      /\ UNCHANGED <<journals, owing>> /\ UNCHANGED <<hosted, tick, kept>> /\ Event
      /\ bound' = bound
  BY DEF Edit, discussion, hosted
<1>2. HostIsSound(host)' /\ KeptIsInTheJournal' /\ PulledIsJournalled' /\ TickShape'
  BY <1>1, HostLooksOn
<1>3. MadeOnce' /\ JournalsNameTheirWrites'
  BY <1>1, DiscussionStays, JournalsStay DEF CInv
<1>4. Listed'
  <2>1. \A c \in OfKind(present', "review_comment") : c \in present
    BY <1>1 DEF OfKind
  <2> QED
    BY <1>1, <2>1, ListedStays DEF CInv
<1>5. Counted'
  <2>1. MaxEvents \in Nat
    BY CollectorAssumption
  <2>2. /\ work \in [Owners -> Nat] /\ bound \in SUBSET Owners
        /\ \A p \in Owners : work[p] \in Nat /\ work[p] <= events
    BY DEF CInv, Counted
  <2>3. events \in Nat /\ events' = events + 1 /\ events' \in 0..MaxEvents
    BY <1>1, <2>1 DEF CInv, Counted, Event
  <2>4. \/ work' = [work EXCEPT ![o] = work[o] + 1]
        \/ work' = [work EXCEPT ![o] = 0]
    BY DEF Edit
  <2>5. /\ work' \in [Owners -> Nat]
        /\ \A p \in Owners : work'[p] \in {0, work[p], work[p] + 1}
    BY <2>2, <2>4
  <2>6. \A p \in Owners : work'[p] <= events'
    BY <2>2, <2>3, <2>5
  <2> QED
    BY <1>1, <2>2, <2>3, <2>5, <2>6 DEF Counted
<1> QED
  BY <1>2, <1>3, <1>4, <1>5 DEF CInv

-----------------------------------------------------------------------------
(* Steps of the host. *)

LEMMA GitHubAndWorkspacesStay ==
  ASSUME CInv, UNCHANGED <<discussion, workspaces, bound>>, Event \/ UNCHANGED events
  PROVE  /\ MadeOnce' /\ JournalsNameTheirWrites' /\ Counted'
         /\ made' = made /\ present' = present /\ journals' = journals
<1>1. UNCHANGED <<journals, owing>> /\ UNCHANGED <<bound, work>>
      /\ made' = made /\ present' = present /\ journals' = journals
  BY DEF discussion, workspaces
<1> QED
  BY <1>1, DiscussionStays, JournalsStay, CountStays DEF CInv

LEMMA TablesStay ==
  ASSUME CInv, journals' = journals, host' = host, kept' = kept
  PROVE  HostIsSound(host)' /\ KeptIsInTheJournal'
<1>1. HostIsSound(host') /\ journals \in [Owners -> SUBSET Rows]
  BY DEF CInv, JournalsNameTheirWrites
<1> QED
  BY <1>1, HostStays, KeptStays DEF CInv

LEMMA TickStays ==
  ASSUME CInv, tick' = tick, made' = made, present' = present, journals' = journals
  PROVE  PulledIsJournalled' /\ TickShape' /\ Listed'
<1>1. \A c \in OfKind(present', "review_comment") : c \in present
  BY DEF OfKind
<1> QED
  BY <1>1, PulledStays, ShapeStays, ListedStays DEF CInv

LEMMA UnbindStep ==
  ASSUME CInv, NEW o \in Owners, Unbind(o)
  PROVE  CInv'
<1>1. /\ UNCHANGED discussion /\ UNCHANGED <<journals, owing>> /\ Event
      /\ made' = made /\ present' = present /\ journals' = journals
      /\ host' = host /\ kept' = kept /\ tick' = tick /\ work' = work
      /\ bound' = bound \ {o}
  BY DEF Unbind, discussion, workspaces
<1>2. MadeOnce' /\ JournalsNameTheirWrites'
  BY <1>1, DiscussionStays, JournalsStay DEF CInv
<1>3. HostIsSound(host)' /\ KeptIsInTheJournal' /\ PulledIsJournalled' /\ TickShape' /\ Listed'
  BY <1>1, TablesStay, TickStays
<1>4. Counted'
  <2>1. MaxEvents \in Nat
    BY CollectorAssumption
  <2>2. events \in Nat /\ events' = events + 1 /\ events' \in 0..MaxEvents
        /\ work \in [Owners -> Nat] /\ \A p \in Owners : work[p] \in Nat /\ work[p] <= events
    BY <1>1, <2>1 DEF CInv, Counted, Event
  <2>3. \A p \in Owners : work'[p] <= events'
    BY <1>1, <2>2
  <2> QED
    BY <1>1, <2>2, <2>3 DEF CInv, Counted
<1> QED
  BY <1>2, <1>3, <1>4 DEF CInv

LEMMA OffboardStep ==
  ASSUME CInv, NEW o \in Owners, offboardHuman(o)
  PROVE  CInv' /\ host'.audit = host.audit
<1>1. /\ UNCHANGED <<discussion, workspaces, bound>> /\ Event
      /\ host' = purgeWorkingState(host, o) /\ kept' = kept /\ tick' = tick
  BY DEF offboardHuman
<1>2. /\ MadeOnce' /\ JournalsNameTheirWrites' /\ Counted'
      /\ made' = made /\ present' = present /\ journals' = journals
  BY <1>1, GitHubAndWorkspacesStay
<1>3. HostIsSound(host') /\ host'.audit = host.audit
  BY <1>1, PurgeKeepsTheJournal DEF CInv
<1>4. HostIsSound(host)'
  BY <1>2, <1>3, HostStays DEF CInv, JournalsNameTheirWrites
<1>5. KeptIsInTheJournal'
  BY <1>1, <1>3, KeptStays DEF CInv
<1>6. PulledIsJournalled' /\ TickShape' /\ Listed'
  BY <1>1, <1>2, TickStays
<1> QED
  BY <1>2, <1>3, <1>4, <1>5, <1>6 DEF CInv

(* A tick, its fields given.                                               *)
Steps == {"idle", "pull", "land", "comments", "issues", "detect"}
LEMMA TickFields ==
  ASSUME NEW step \in Steps, NEW pulled, NEW toLand, NEW rs, NEW rcs, NEW ics, NEW before,
         NEW committed,
         tick' = [step |-> step, pulled |-> pulled, toLand |-> toLand,
                  found |-> [reviews |-> rs, reviewComments |-> rcs, issueComments |-> ics],
                  before |-> before, committed |-> committed]
  PROVE  /\ TickShape'
         /\ tick'.step = step /\ tick'.pulled = pulled /\ tick'.toLand = toLand
         /\ tick'.found.reviews = rs /\ tick'.found.reviewComments = rcs
         /\ tick'.found.issueComments = ics
         /\ tick'.before = before /\ tick'.committed = committed
<1>1. PICK found : found = [reviews |-> rs, reviewComments |-> rcs, issueComments |-> ics]
  OBVIOUS
<1>2. /\ found.reviews = rs /\ found.reviewComments = rcs /\ found.issueComments = ics
  BY <1>1
<1>3. /\ tick'.step = step /\ tick'.pulled = pulled /\ tick'.toLand = toLand
      /\ tick'.found = found /\ tick'.before = before /\ tick'.committed = committed
  BY <1>1
<1>4. TickShape'
  BY <1>1, <1>2, <1>3 DEF TickShape, Steps
<1> QED
  BY <1>2, <1>3, <1>4

(* No tick, or one that begins.                                            *)
LEMMA FreshTick ==
  ASSUME CInv, NEW step \in {"idle", "pull"}, NEW before,
         before = {} \/ before = {a \in present : Bypass(a)},
         tick' = [step |-> step, pulled |-> EmptyTable, toLand |-> {},
                  found |-> [reviews |-> {}, reviewComments |-> {}, issueComments |-> {}],
                  before |-> before, committed |-> EmptyTable],
         made' = made, present' = present, journals' = journals
  PROVE  PulledIsJournalled' /\ TickShape' /\ Listed'
<1>1. step \in Steps
  BY DEF Steps
<1>2. TickShape'
  <2>1. PICK none : none = {}
    OBVIOUS
  <2>2. PICK nothing : nothing = EmptyTable
    OBVIOUS
  <2>3. tick' = [step |-> step, pulled |-> nothing, toLand |-> none,
                 found |-> [reviews |-> none, reviewComments |-> none, issueComments |-> none],
                 before |-> before, committed |-> nothing]
    BY <2>1, <2>2
  <2> QED
    BY <1>1, <2>3, TickFields
<1>3. /\ tick'.step = step /\ tick'.pulled = EmptyTable /\ tick'.toLand = {}
      /\ tick'.found.reviews = {} /\ tick'.found.reviewComments = {}
      /\ tick'.found.issueComments = {} /\ tick'.before = before
  OBVIOUS
<1>4. PulledIsJournalled'
  BY <1>3, EmptyTableIsTable DEF PulledIsJournalled
<1>5. before \subseteq {a \in made' : Bypass(a)}
  BY DEF CInv, MadeOnce
<1>6. Listed'
  BY <1>3, <1>5 DEF Listed, OfKind, Bypass
<1> QED
  BY <1>2, <1>4, <1>6

LEMMA FreshTickStep ==
  ASSUME CInv, StartTick \/ Detect \/ TickFails
  PROVE  CInv'
<1>1. /\ UNCHANGED <<discussion, workspaces, bound>> /\ (Event \/ UNCHANGED events)
      /\ host' = host /\ kept' = kept
  BY DEF StartTick, Detect, TickFails, hosted
<1>2. /\ MadeOnce' /\ JournalsNameTheirWrites' /\ Counted'
      /\ made' = made /\ present' = present /\ journals' = journals
  BY <1>1, GitHubAndWorkspacesStay
<1>3. HostIsSound(host)' /\ KeptIsInTheJournal'
  BY <1>1, <1>2, TablesStay
<1>4. PulledIsJournalled' /\ TickShape' /\ Listed'
  <2>1. CASE StartTick
    <3>1. PICK before : before = {a \in present : Bypass(a)}
      OBVIOUS
    <3>2. tick' = [step |-> "pull", pulled |-> EmptyTable, toLand |-> {},
                   found |-> [reviews |-> {}, reviewComments |-> {}, issueComments |-> {}],
                   before |-> before, committed |-> EmptyTable]
      BY <2>1, <3>1 DEF StartTick, NoTick
    <3> QED
      BY <3>1, <3>2, <1>2, FreshTick
  <2>2. CASE Detect \/ TickFails
    <3>1. PICK before : before = {}
      OBVIOUS
    <3>2. tick' = [step |-> "idle", pulled |-> EmptyTable, toLand |-> {},
                   found |-> [reviews |-> {}, reviewComments |-> {}, issueComments |-> {}],
                   before |-> before, committed |-> EmptyTable]
      BY <2>2, <3>1 DEF Detect, TickFails, NoTick
    <3> QED
      BY <3>1, <3>2, <1>2, FreshTick
  <2> QED
    BY <2>1, <2>2
<1> QED
  BY <1>2, <1>3, <1>4 DEF CInv

(* While workspaces are pulled and landed, what is listed stays as it was. *)
LEMMA PullingTick ==
  ASSUME CInv, made' = made, present' = present,
         NEW step \in {"pull", "land"}, NEW pulled, NEW toLand,
         tick' = [step |-> step, pulled |-> pulled, toLand |-> toLand,
                  found |-> tick.found, before |-> tick.before, committed |-> tick.committed]
  PROVE  /\ TickShape' /\ Listed'
         /\ tick'.step = step /\ tick'.pulled = pulled /\ tick'.toLand = toLand
<1>1. PICK found : found = tick.found
  OBVIOUS
<1>2. PICK before : before = tick.before
  OBVIOUS
<1>3. PICK committed : committed = tick.committed
  OBVIOUS
<1>4. tick' = [step |-> step, pulled |-> pulled, toLand |-> toLand,
               found |-> found, before |-> before, committed |-> committed]
  BY <1>1, <1>2, <1>3
<1>5. found = [reviews |-> found.reviews, reviewComments |-> found.reviewComments,
               issueComments |-> found.issueComments]
  BY <1>1 DEF CInv, TickShape
<1>6. /\ tick'.step = step /\ tick'.pulled = pulled /\ tick'.toLand = toLand
      /\ tick'.found = found /\ tick'.before = before /\ tick'.committed = committed
  BY <1>4
<1>7. TickShape'
  BY <1>4, <1>5, <1>6 DEF TickShape
<1>8. /\ found.reviews \subseteq OfKind(made, "review")
      /\ found.reviewComments \subseteq OfKind(made, "review_comment")
      /\ found.issueComments \subseteq OfKind(made, "issue_comment")
      /\ before \subseteq {a \in made : Bypass(a)}
  BY <1>1, <1>2 DEF CInv, Listed
<1>9. Listed'
  BY <1>6, <1>8 DEF Listed, OfKind, Bypass
<1> QED
  BY <1>6, <1>7, <1>9

LEMMA PullStep ==
  ASSUME CInv, NEW o \in Owners, NEW claimed \in Humans, Pull(o, claimed)
  PROVE  CInv'
<1>1. /\ UNCHANGED <<discussion, workspaces, bound>> /\ UNCHANGED events
      /\ host' = host /\ kept' = kept /\ tick.step = "pull"
  BY DEF Pull, hosted
<1>2. /\ MadeOnce' /\ JournalsNameTheirWrites' /\ Counted'
      /\ made' = made /\ present' = present /\ journals' = journals
  BY <1>1, GitHubAndWorkspacesStay
<1>3. HostIsSound(host)' /\ KeptIsInTheJournal'
  BY <1>1, <1>2, TablesStay
<1>4. PICK p : p = [rows |-> journals[o], version |-> work[o], humanId |-> claimed]
  OBVIOUS
<1>5. p \in Pulls /\ p.rows = journals[o]
  BY <1>4 DEF CInv, Counted, JournalsNameTheirWrites, Pulls
<1>6. PICK t : t = tick.pulled
  OBVIOUS
<1>7. PICK u : u = Upsert(t, o, p)
  OBVIOUS
<1>8. PICK l : l = tick.toLand \cup {o}
  OBVIOUS
<1>9. IsTable(t, Owners, Pulls) /\ tick.toLand \in SUBSET DOMAIN t
      /\ \A q \in DOMAIN t : t[q].rows \subseteq journals[q]
  BY <1>6 DEF CInv, PulledIsJournalled
<1>10. IsTable(u, Owners, Pulls)
  BY <1>5, <1>7, <1>9, UpsertType
<1>11. /\ DOMAIN u = DOMAIN t \cup {o}
       /\ u[o] = p
       /\ \A q \in DOMAIN t : q # o => u[q] = t[q]
  BY <1>7 DEF Upsert
<1>12. \A q \in DOMAIN u : u[q].rows \subseteq journals[q]
  BY <1>5, <1>9, <1>11
<1>13. tick' = [step |-> "pull", pulled |-> u, toLand |-> l,
                found |-> tick.found, before |-> tick.before, committed |-> tick.committed]
  BY <1>1, <1>4, <1>6, <1>7, <1>8 DEF Pull, CInv, TickShape
<1>14. /\ TickShape' /\ Listed'
       /\ tick'.step = "pull" /\ tick'.pulled = u /\ tick'.toLand = l
  BY <1>2, <1>13, PullingTick
<1>15. l \in SUBSET DOMAIN u
  BY <1>8, <1>9, <1>11
<1>16. PulledIsJournalled'
  BY <1>2, <1>10, <1>12, <1>14, <1>15 DEF PulledIsJournalled
<1> QED
  BY <1>2, <1>3, <1>14, <1>16 DEF CInv

LEMMA PullEndsStep ==
  ASSUME CInv, PullEnds
  PROVE  CInv'
<1>1. /\ UNCHANGED <<discussion, workspaces, bound>> /\ UNCHANGED events
      /\ host' = host /\ kept' = kept
  BY DEF PullEnds, hosted
<1>2. /\ MadeOnce' /\ JournalsNameTheirWrites' /\ Counted'
      /\ made' = made /\ present' = present /\ journals' = journals
  BY <1>1, GitHubAndWorkspacesStay
<1>3. HostIsSound(host)' /\ KeptIsInTheJournal'
  BY <1>1, <1>2, TablesStay
<1>4. PICK t : t = tick.pulled
  OBVIOUS
<1>5. PICK l : l = tick.toLand
  OBVIOUS
<1>6. tick' = [step |-> "land", pulled |-> t, toLand |-> l,
               found |-> tick.found, before |-> tick.before, committed |-> tick.committed]
  BY <1>4, <1>5 DEF PullEnds, CInv, TickShape
<1>7. /\ TickShape' /\ Listed'
      /\ tick'.step = "land" /\ tick'.pulled = t /\ tick'.toLand = l
  BY <1>2, <1>6, PullingTick
<1>8. IsTable(t, Owners, Pulls) /\ l \in SUBSET DOMAIN t
      /\ \A q \in DOMAIN t : t[q].rows \subseteq journals[q]
  BY <1>4, <1>5 DEF CInv, PulledIsJournalled
<1>9. PulledIsJournalled'
  BY <1>2, <1>7, <1>8 DEF PulledIsJournalled
<1> QED
  BY <1>2, <1>3, <1>7, <1>9 DEF CInv

(* A container is landed, in part or whole, or refused.                    *)
LEMMA ContainerLands ==
  ASSUME CInv, NEW o \in tick.toLand
  PROVE  /\ o \in Owners /\ tick.pulled[o] \in Pulls
         /\ tick.pulled[o].rows \in SUBSET journals[o] /\ tick.pulled[o].rows \in SUBSET Rows
         /\ \A n \in 0..3 :
              /\ HostIsSound(LandKinds(o, n))
              /\ IsPrefix(host.audit, LandKinds(o, n).audit)
              /\ ToSet(host.audit) \subseteq ToSet(LandKinds(o, n).audit)
              /\ n = 3 => \A r \in tick.pulled[o].rows :
                            AuditRow(o, r) \in ToSet(LandKinds(o, n).audit)
<1>1. o \in DOMAIN tick.pulled
  BY DEF CInv, PulledIsJournalled
<1>2. /\ o \in Owners /\ tick.pulled[o] \in Pulls
      /\ tick.pulled[o].rows \in SUBSET journals[o]
  BY <1>1 DEF CInv, PulledIsJournalled, IsTable
<1>3. tick.pulled[o].rows \in SUBSET Rows
  BY <1>2 DEF Pulls
<1>4. HostIsSound(host) /\ IsFiniteSet(journals[o])
  BY <1>2 DEF CInv, JournalsNameTheirWrites
<1> QED
  BY <1>2, <1>3, <1>4, KindsLand

LEMMA LandedTick ==
  ASSUME CInv, NEW o \in tick.toLand, tick.step = "land", Landed(o) \/ NotLanded(o),
         made' = made, present' = present, journals' = journals
  PROVE  PulledIsJournalled' /\ TickShape' /\ Listed'
<1>1. PICK t : t = tick.pulled
  OBVIOUS
<1>2. PICK l : l = tick.toLand \ {o}
  OBVIOUS
<1>3. PICK gone : gone = {o}
  OBVIOUS
<1>4. PICK u : u = Without(t, gone)
  OBVIOUS
<1>5. IsTable(t, Owners, Pulls) /\ tick.toLand \in SUBSET DOMAIN t
      /\ \A q \in DOMAIN t : t[q].rows \subseteq journals[q]
  BY <1>1 DEF CInv, PulledIsJournalled
<1>6. IsTable(u, Owners, Pulls) /\ DOMAIN u = DOMAIN t \ gone
      /\ \A q \in DOMAIN t \ gone : u[q] = t[q]
  <2>1. /\ IsTable(Without(t, gone), Owners, Pulls)
        /\ DOMAIN Without(t, gone) = DOMAIN t \ gone
        /\ \A x \in DOMAIN t \ gone : Without(t, gone)[x] = t[x]
    BY <1>5, WithoutTable
  <2> QED
    BY <1>4, <2>1
<1>7. CASE Landed(o)
  <2>1. tick' = [step |-> "land", pulled |-> t, toLand |-> l,
                 found |-> tick.found, before |-> tick.before, committed |-> tick.committed]
    BY <1>1, <1>2, <1>7 DEF Landed, CInv, TickShape
  <2>2. /\ TickShape' /\ Listed'
        /\ tick'.step = "land" /\ tick'.pulled = t /\ tick'.toLand = l
    BY <2>1, PullingTick
  <2>3. l \in SUBSET DOMAIN t
    BY <1>2, <1>5
  <2>4. PulledIsJournalled'
    BY <1>5, <2>2, <2>3 DEF PulledIsJournalled
  <2> QED
    BY <2>2, <2>4
<1>8. CASE NotLanded(o)
  <2>1. tick' = [step |-> "land", pulled |-> u, toLand |-> l,
                 found |-> tick.found, before |-> tick.before, committed |-> tick.committed]
    BY <1>1, <1>2, <1>3, <1>4, <1>8 DEF NotLanded, CInv, TickShape
  <2>2. /\ TickShape' /\ Listed'
        /\ tick'.step = "land" /\ tick'.pulled = u /\ tick'.toLand = l
    BY <2>1, PullingTick
  <2>3. l \in SUBSET DOMAIN u
    BY <1>2, <1>3, <1>5, <1>6
  <2>4. \A q \in DOMAIN u : u[q].rows \subseteq journals[q]
    BY <1>5, <1>6
  <2>5. PulledIsJournalled'
    BY <1>6, <2>2, <2>3, <2>4 DEF PulledIsJournalled
  <2> QED
    BY <2>2, <2>5
<1> QED
  BY <1>7, <1>8

LEMMA LandStep ==
  ASSUME CInv, NEW o \in Owners, Land(o) \/ LandFails(o) \/ LandUnbound(o)
  PROVE  CInv' /\ IsPrefix(host.audit, host'.audit)
<1>1. /\ UNCHANGED <<discussion, workspaces, bound>> /\ UNCHANGED events
      /\ tick.step = "land" /\ o \in tick.toLand /\ (Landed(o) \/ NotLanded(o))
  BY DEF Land, LandFails, LandUnbound, hosted
<1>2. /\ MadeOnce' /\ JournalsNameTheirWrites' /\ Counted'
      /\ made' = made /\ present' = present /\ journals' = journals
  BY <1>1, GitHubAndWorkspacesStay
<1>3. PulledIsJournalled' /\ TickShape' /\ Listed'
  BY <1>1, <1>2, LandedTick
<1>4. \A n \in 0..3 :
        /\ HostIsSound(LandKinds(o, n))
        /\ IsPrefix(host.audit, LandKinds(o, n).audit)
        /\ ToSet(host.audit) \subseteq ToSet(LandKinds(o, n).audit)
        /\ n = 3 => \A r \in tick.pulled[o].rows :
                      AuditRow(o, r) \in ToSet(LandKinds(o, n).audit)
  BY <1>1, ContainerLands
<1>5. ASSUME HostIsSound(host')
      PROVE  HostIsSound(host)'
  BY <1>2, <1>5, HostStays DEF CInv, JournalsNameTheirWrites
<1>6. CASE Land(o)
  <2>1. host' = LandKinds(o, 3) /\ kept' = kept \cup {<<o, row>> : row \in tick.pulled[o].rows}
    BY <1>6 DEF Land
  <2>2. /\ HostIsSound(host') /\ IsPrefix(host.audit, host'.audit)
        /\ ToSet(host.audit) \subseteq ToSet(host'.audit)
        /\ \A r \in tick.pulled[o].rows : AuditRow(o, r) \in ToSet(host'.audit)
    BY <1>4, <2>1
  <2>3. tick.pulled[o].rows \in SUBSET Rows
    BY <1>1, ContainerLands
  <2>4. ASSUME NEW k \in kept'
        PROVE  k \in Owners \X Rows /\ AuditRow(k[1], k[2]) \in ToSet(host'.audit)
    <3>1. CASE k \in kept
      BY <3>1, <2>2 DEF CInv, KeptIsInTheJournal
    <3>2. CASE k \notin kept
      <4>1. PICK row \in tick.pulled[o].rows : k = <<o, row>>
        BY <3>2, <2>1
      <4>2. k[1] = o /\ k[2] = row /\ row \in Rows
        BY <4>1, <2>3
      <4> QED
        BY <4>1, <4>2, <2>2
    <3> QED
      BY <3>1, <3>2
  <2>5. KeptIsInTheJournal'
    BY <2>4 DEF KeptIsInTheJournal
  <2> QED
    BY <1>2, <1>3, <1>5, <2>2, <2>5 DEF CInv
<1>7. CASE LandFails(o)
  <2>1. PICK n \in 0..2 : host' = LandKinds(o, n)
    BY <1>7 DEF LandFails
  <2>2. n \in 0..3
    BY <2>1
  <2>3. /\ HostIsSound(host') /\ IsPrefix(host.audit, host'.audit)
        /\ ToSet(host.audit) \subseteq ToSet(host'.audit)
    BY <1>4, <2>1, <2>2
  <2>4. KeptIsInTheJournal'
    BY <1>7, <2>3, KeptStays DEF CInv, LandFails
  <2> QED
    BY <1>2, <1>3, <1>5, <2>3, <2>4 DEF CInv
<1>8. CASE LandUnbound(o)
  <2>1. host' = host /\ kept' = kept
    BY <1>8 DEF LandUnbound, hosted
  <2>2. HostIsSound(host)' /\ KeptIsInTheJournal'
    BY <1>2, <2>1, TablesStay
  <2>3. IsPrefix(host.audit, host'.audit)
    BY <2>1, PrefixOfItself DEF CInv, HostIsSound
  <2> QED
    BY <1>2, <1>3, <2>2, <2>3 DEF CInv
<1> QED
  BY <1>6, <1>7, <1>8

(* A listing shows what is there when it is made.                          *)
LEMMA ListingTick ==
  ASSUME CInv, made' = made, present' = present, journals' = journals, tick.toLand = {},
         NEW step \in {"comments", "issues", "detect"}, NEW rs, NEW rcs, NEW ics, NEW committed,
         tick' = [step |-> step, pulled |-> tick.pulled, toLand |-> tick.toLand,
                  found |-> [reviews |-> rs, reviewComments |-> rcs, issueComments |-> ics],
                  before |-> tick.before, committed |-> committed],
         rs \subseteq OfKind(made, "review"),
         rcs \subseteq OfKind(made, "review_comment"),
         ics \subseteq OfKind(made, "issue_comment"),
         OfKind(tick.before \cap present, "review") \subseteq rs,
         step \in {"issues", "detect"} =>
           /\ OfKind(tick.before \cap present, "review_comment") \subseteq rcs
           /\ \A c \in OfKind(present, "review_comment"), r \in rs : c.reviewId = r.id => c \in rcs,
         step = "detect" => OfKind(tick.before \cap present, "issue_comment") \subseteq ics
  PROVE  PulledIsJournalled' /\ TickShape' /\ Listed'
<1>1. PICK t : t = tick.pulled
  OBVIOUS
<1>2. PICK l : l = tick.toLand
  OBVIOUS
<1>3. PICK before : before = tick.before
  OBVIOUS
<1>4. tick' = [step |-> step, pulled |-> t, toLand |-> l,
               found |-> [reviews |-> rs, reviewComments |-> rcs, issueComments |-> ics],
               before |-> before, committed |-> committed]
  BY <1>1, <1>2, <1>3
<1>5. step \in Steps
  BY DEF Steps
<1>6. /\ TickShape'
      /\ tick'.step = step /\ tick'.pulled = t /\ tick'.toLand = l
      /\ tick'.found.reviews = rs /\ tick'.found.reviewComments = rcs
      /\ tick'.found.issueComments = ics
      /\ tick'.before = before /\ tick'.committed = committed
  BY <1>4, <1>5, TickFields
<1>7. /\ IsTable(t, Owners, Pulls)
      /\ \A q \in DOMAIN t : t[q].rows \subseteq journals[q]
  BY <1>1 DEF CInv, PulledIsJournalled
<1>8. PulledIsJournalled'
  BY <1>2, <1>6, <1>7 DEF PulledIsJournalled
<1>9. before \subseteq {a \in made : Bypass(a)}
  BY <1>3 DEF CInv, Listed
<1>10. Listed'
  BY <1>3, <1>6, <1>9 DEF Listed, OfKind, Bypass
<1> QED
  BY <1>6, <1>8, <1>10

LEMMA ListingStep ==
  ASSUME CInv, ListReviews \/ ListReviewComments \/ ListIssueComments
  PROVE  CInv'
<1>1. /\ UNCHANGED <<discussion, workspaces, bound>> /\ UNCHANGED events
      /\ host' = host /\ kept' = kept
  BY DEF ListReviews, ListReviewComments, ListIssueComments, hosted
<1>2. /\ MadeOnce' /\ JournalsNameTheirWrites' /\ Counted'
      /\ made' = made /\ present' = present /\ journals' = journals
  BY <1>1, GitHubAndWorkspacesStay
<1>3. HostIsSound(host)' /\ KeptIsInTheJournal'
  BY <1>1, <1>2, TablesStay
<1>4. tick.toLand = {}
  BY DEF ListReviews, ListReviewComments, ListIssueComments, CInv, PulledIsJournalled
<1>5. \A k : OfKind(present, k) \subseteq OfKind(made, k)
      /\ OfKind(tick.before \cap present, k) \subseteq OfKind(present, k)
  BY DEF CInv, MadeOnce, OfKind
<1>6. PICK rs : rs = tick.found.reviews
  OBVIOUS
<1>7. PICK rcs : rcs = tick.found.reviewComments
  OBVIOUS
<1>8. PICK ics : ics = tick.found.issueComments
  OBVIOUS
<1>9. /\ rs \subseteq OfKind(made, "review")
      /\ rcs \subseteq OfKind(made, "review_comment")
      /\ ics \subseteq OfKind(made, "issue_comment")
  BY <1>6, <1>7, <1>8 DEF CInv, Listed
<1>10. CASE ListReviews
  <2>1. PICK new : new = OfKind(present, "review")
    OBVIOUS
  <2>2. PICK committed : committed = journals
    OBVIOUS
  <2>3. tick' = [step |-> "comments", pulled |-> tick.pulled, toLand |-> tick.toLand,
                 found |-> [reviews |-> new, reviewComments |-> rcs, issueComments |-> ics],
                 before |-> tick.before, committed |-> committed]
    BY <1>7, <1>8, <1>10, <2>1, <2>2 DEF ListReviews, CInv, TickShape
  <2>4. PulledIsJournalled' /\ TickShape' /\ Listed'
    BY <1>2, <1>4, <1>5, <1>9, <2>1, <2>3, ListingTick
  <2> QED
    BY <1>2, <1>3, <2>4 DEF CInv
<1>11. CASE ListReviewComments
  <2>1. PICK new : new = OfKind(present, "review_comment")
    OBVIOUS
  <2>2. PICK committed : committed = tick.committed
    OBVIOUS
  <2>3. tick' = [step |-> "issues", pulled |-> tick.pulled, toLand |-> tick.toLand,
                 found |-> [reviews |-> rs, reviewComments |-> new, issueComments |-> ics],
                 before |-> tick.before, committed |-> committed]
    BY <1>6, <1>8, <1>11, <2>1, <2>2 DEF ListReviewComments, CInv, TickShape
  <2>4. OfKind(tick.before \cap present, "review") \subseteq rs
    BY <1>6, <1>11 DEF ListReviewComments, CInv, Listed
  <2>5. /\ new \subseteq OfKind(made, "review_comment")
        /\ OfKind(tick.before \cap present, "review_comment") \subseteq new
        /\ \A c \in OfKind(present, "review_comment"), r \in rs : c.reviewId = r.id => c \in new
    BY <1>5, <2>1
  <2>6. PulledIsJournalled' /\ TickShape' /\ Listed'
    BY <1>2, <1>4, <1>9, <2>3, <2>4, <2>5, ListingTick
  <2> QED
    BY <1>2, <1>3, <2>6 DEF CInv
<1>12. CASE ListIssueComments
  <2>1. PICK new : new = OfKind(present, "issue_comment")
    OBVIOUS
  <2>2. PICK committed : committed = tick.committed
    OBVIOUS
  <2>3. tick' = [step |-> "detect", pulled |-> tick.pulled, toLand |-> tick.toLand,
                 found |-> [reviews |-> rs, reviewComments |-> rcs, issueComments |-> new],
                 before |-> tick.before, committed |-> committed]
    BY <1>6, <1>7, <1>12, <2>1, <2>2 DEF ListIssueComments, CInv, TickShape
  <2>4. /\ OfKind(tick.before \cap present, "review") \subseteq rs
        /\ OfKind(tick.before \cap present, "review_comment") \subseteq rcs
        /\ \A c \in OfKind(present, "review_comment"), r \in rs : c.reviewId = r.id => c \in rcs
    BY <1>6, <1>7, <1>12 DEF ListIssueComments, CInv, Listed
  <2>5. PulledIsJournalled' /\ TickShape' /\ Listed'
    BY <1>2, <1>4, <1>5, <1>9, <2>1, <2>3, <2>4, ListingTick
  <2> QED
    BY <1>2, <1>3, <2>5 DEF CInv
<1> QED
  BY <1>10, <1>11, <1>12

-----------------------------------------------------------------------------
(* The invariant is inductive. *)

LEMMA CInvInit == Init => CInv
<1> SUFFICES ASSUME Init
             PROVE  CInv
  OBVIOUS
<1>1. MadeOnce
  BY FS_EmptySet DEF Init, MadeOnce, Numbered, OfKind
<1>2. JournalsNameTheirWrites
  <2>1. /\ journals = [o \in Owners |-> {}] /\ owing = [o \in Owners |-> {}]
        /\ IsFiniteSet({})
    BY FS_EmptySet DEF Init
  <2> QED
    BY <2>1 DEF JournalsNameTheirWrites
<1>3. HostIsSound(host)
  <2>1. PICK none : none = EmptyTable
    OBVIOUS
  <2>2. /\ host = [drafts |-> none, viewed |-> none, audit |-> <<>>]
        /\ host.drafts = none /\ host.viewed = none /\ host.audit = <<>>
    BY <2>1 DEF Init, EmptyHost
  <2>3. IsTable(none, Humans, Drafts) /\ IsTable(none, Humans, Texts) /\ DOMAIN none = {}
    BY <2>1, EmptyTableIsTable
  <2>4. <<>> \in Seq(AuditRows) /\ IsInjective(<<>>) /\ ToSet(<<>>) = {}
    BY DEF IsInjective, ToSet
  <2> QED
    BY <2>2, <2>3, <2>4 DEF HostIsSound
<1>4. KeptIsInTheJournal
  BY DEF Init, KeptIsInTheJournal
<1>5. /\ tick = NoTick /\ tick.step = "idle" /\ tick.pulled = EmptyTable /\ tick.toLand = {}
      /\ tick.found.reviews = {} /\ tick.found.reviewComments = {}
      /\ tick.found.issueComments = {} /\ tick.before = {}
  BY DEF Init, NoTick
<1>6. PulledIsJournalled
  BY <1>5, EmptyTableIsTable DEF PulledIsJournalled
<1>7. TickShape
  BY <1>5 DEF TickShape, NoTick
<1>8. Listed
  BY <1>5 DEF Listed, OfKind
<1>9. Counted
  BY CollectorAssumption DEF Init, Counted
<1> QED
  BY <1>1, <1>2, <1>3, <1>4, <1>6, <1>7, <1>8, <1>9 DEF CInv

LEMMA CInvNext == CInv /\ [Next]_vars => CInv'
<1> SUFFICES ASSUME CInv, [Next]_vars
             PROVE  CInv'
  OBVIOUS
<1>1. CASE GitHubStep
  BY <1>1, WriteElsewhereStep, DeleteStep DEF GitHubStep
<1>2. ASSUME NEW o \in Owners, WorkspaceStep(o)
      PROVE  CInv'
  BY <1>2, SubmitReviewStep, ReplyToThreadStep, EditStep, RecordStep, TouchStep DEF WorkspaceStep
<1>3. CASE TickStep
  <2>1. ASSUME NEW o \in Owners, NEW p \in Owners, Pull(o, EmailOf[p])
        PROVE  CInv'
    <3>1. EmailOf[p] \in Humans
      BY DEF Humans
    <3> QED
      BY <2>1, <3>1, PullStep
  <2>2. ASSUME NEW o \in Owners, Land(o) \/ LandFails(o) \/ LandUnbound(o)
        PROVE  CInv'
    BY <2>2, LandStep
  <2> QED
    BY <1>3, <2>1, <2>2, FreshTickStep, PullEndsStep, ListingStep DEF TickStep
<1>4. ASSUME NEW o \in Owners, offboardHuman(o) \/ Unbind(o)
      PROVE  CInv'
  BY <1>4, OffboardStep, UnbindStep
<1>5. CASE UNCHANGED vars
  <2>1. /\ UNCHANGED <<discussion, workspaces, bound>> /\ UNCHANGED events
        /\ host' = host /\ kept' = kept /\ tick' = tick
    BY <1>5 DEF vars, discussion, workspaces
  <2>2. /\ MadeOnce' /\ JournalsNameTheirWrites' /\ Counted'
        /\ made' = made /\ present' = present /\ journals' = journals
    BY <2>1, GitHubAndWorkspacesStay
  <2> QED
    BY <2>1, <2>2, TablesStay, TickStays DEF CInv
<1> QED
  BY <1>1, <1>2, <1>3, <1>4, <1>5 DEF Next

LEMMA CInvHolds == Spec => []CInv
BY CInvInit, CInvNext, PTL DEF Spec

-----------------------------------------------------------------------------
(* The properties. *)

(* What the workspaces, the host and GitHub hold is of its type.           *)
THEOREM TypeCorrect == Spec => []TypeOK
<1>1. CInv => TypeOK
  <2> SUFFICES ASSUME CInv
               PROVE  TypeOK
    OBVIOUS
  <2>1. MaxEvents \in Nat
    BY CollectorAssumption
  <2>2. made \subseteq Artifact /\ present \subseteq made
    BY DEF CInv, MadeOnce, Numbered
  <2>3. \A o \in Owners : \A row \in journals[o] \cup UNION owing[o] : row.endpoint \in Endpoints
    <3>1. journals \in [Owners -> SUBSET Rows] /\ owing \in [Owners -> SUBSET SUBSET Rows]
      BY DEF CInv, JournalsNameTheirWrites
    <3>2. \A o \in Owners : \A row \in journals[o] \cup UNION owing[o] : row \in Rows
      BY <3>1
    <3> QED
      BY <3>2 DEF Rows
  <2>4. bound \subseteq Owners /\ events \in 0..MaxEvents
    BY DEF CInv, Counted
  <2>5. work \in [Owners -> 0..MaxEvents]
    <3>1. \A o \in Owners : work[o] \in 0..MaxEvents
      BY <2>1 DEF CInv, Counted
    <3> QED
      BY <3>1 DEF CInv, Counted
  <2>6. /\ tick.step \in {"idle", "pull", "land", "comments", "issues", "detect"}
        /\ tick.toLand \subseteq DOMAIN tick.pulled
        /\ tick.step \notin {"pull", "land"} => tick.toLand = {}
    BY DEF CInv, TickShape, PulledIsJournalled
  <2> QED
    BY <2>2, <2>3, <2>4, <2>5, <2>6 DEF TypeOK
<1> QED
  BY <1>1, CInvHolds, PTL

(* Whatever a payload claims, a row of the host's tables under a human was *)
(* pulled from the workspace bound to that human, and the journal keeps a  *)
(* row once (host-store.ts:100-120, 395-404).                              *)
THEOREM RowsAreTheirHumans == Spec => []RowsBelongToTheirHuman
<1>1. CInv => RowsBelongToTheirHuman
  <2> SUFFICES ASSUME CInv
               PROVE  RowsBelongToTheirHuman
    OBVIOUS
  <2>1. \A e \in DOMAIN host.drafts :
          /\ host.drafts[e].humanId = e /\ EmailOf[host.drafts[e].text[1]] = e
          /\ host.drafts[e].text[1] \in Owners
    <3>1. \A e \in DOMAIN host.drafts : host.drafts[e] \in Drafts
      BY DEF CInv, HostIsSound, IsTable
    <3>2. \A e \in DOMAIN host.drafts : host.drafts[e].text[1] \in Owners
      BY <3>1 DEF Drafts, Texts
    <3> QED
      BY <3>2 DEF CInv, HostIsSound
  <2>2. \A e \in DOMAIN host.viewed :
          EmailOf[host.viewed[e][1]] = e /\ host.viewed[e][1] \in Owners
    <3>1. \A e \in DOMAIN host.viewed : host.viewed[e] \in Texts
      BY DEF CInv, HostIsSound, IsTable
    <3>2. \A e \in DOMAIN host.viewed : host.viewed[e][1] \in Owners
      BY <3>1 DEF Texts
    <3> QED
      BY <3>2 DEF CInv, HostIsSound
  <2>3. \A row \in ToSet(host.audit) :
          /\ row.workspace \in Owners /\ row.human = EmailOf[row.workspace]
          /\ Row(row.endpoint, row.id) \in journals[row.workspace]
    <3>1. host.audit \in Seq(AuditRows)
      BY DEF CInv, HostIsSound
    <3>2. \A row \in ToSet(host.audit) : row \in AuditRows
      BY <3>1 DEF ToSet
    <3>3. \A row \in ToSet(host.audit) : row.workspace \in Owners
      BY <3>2 DEF AuditRows
    <3> QED
      BY <3>3 DEF CInv, HostIsSound
  <2>4. \A i, j \in DOMAIN host.audit : host.audit[i] = host.audit[j] => i = j
    BY DEF CInv, HostIsSound, IsInjective
  <2> QED
    BY <2>1, <2>2, <2>3, <2>4 DEF RowsBelongToTheirHuman
<1> QED
  BY <1>1, CInvHolds, PTL

(* No tick, failure or off-boarding takes a row out of the journal or      *)
(* reorders it (offboard.ts:9-12).                                         *)
THEOREM TheJournalOnlyGrows == Spec => AttributionStays
<1>1. CInv /\ [Next]_vars => [IsPrefix(host.audit, host'.audit)]_vars
  <2> SUFFICES ASSUME CInv, Next
               PROVE  IsPrefix(host.audit, host'.audit)
    OBVIOUS
  <2>1. host.audit \in Seq(AuditRows)
    BY DEF CInv, HostIsSound
  <2>2. ASSUME host'.audit = host.audit
        PROVE  IsPrefix(host.audit, host'.audit)
    BY <2>1, <2>2, PrefixOfItself
  <2>3. CASE GitHubStep
    BY <2>2, <2>3 DEF GitHubStep, WriteElsewhere, Delete, hosted
  <2>4. ASSUME NEW o \in Owners, WorkspaceStep(o)
        PROVE  IsPrefix(host.audit, host'.audit)
    BY <2>2, <2>4 DEF WorkspaceStep, SubmitReview, ReplyToThread, Owe, Edit, Record, Touch, hosted
  <2>5. CASE TickStep
    <3>1. ASSUME NEW o \in Owners, Land(o) \/ LandFails(o) \/ LandUnbound(o)
          PROVE  IsPrefix(host.audit, host'.audit)
      BY <3>1, LandStep
    <3>2. ASSUME NEW o \in Owners, NEW p \in Owners, Pull(o, EmailOf[p])
          PROVE  IsPrefix(host.audit, host'.audit)
      BY <2>2, <3>2 DEF Pull, hosted
    <3> QED
      BY <2>2, <2>5, <3>1, <3>2 DEF TickStep, StartTick, PullEnds, ListReviews,
           ListReviewComments, ListIssueComments, Detect, TickFails, hosted
  <2>6. ASSUME NEW o \in Owners, offboardHuman(o) \/ Unbind(o)
        PROVE  IsPrefix(host.audit, host'.audit)
    BY <2>2, <2>6, OffboardStep DEF Unbind
  <2> QED
    BY <2>3, <2>4, <2>5, <2>6 DEF Next
<1> QED
  BY <1>1, CInvHolds, PTL DEF Spec, AttributionStays

(* What a conclusion was drawn from.                                       *)
LEMMA OnlyDetectionConcludes ==
  ASSUME CInv, Next, Concludes
  PROVE  /\ Detect /\ present' = present
         /\ report'.outOfBand = outOfBand(splitJournaledIds(ToSet(host.audit)), tick.found)
<1>1. Detect
  <2>1. report' # None /\ report' # report
    BY DEF Concludes
  <2>2. ~GitHubStep
    BY <2>1 DEF GitHubStep, WriteElsewhere, Delete
  <2>3. ASSUME NEW o \in Owners
        PROVE  ~WorkspaceStep(o)
    BY <2>1 DEF WorkspaceStep, SubmitReview, ReplyToThread, Owe, Edit, Record, Touch
  <2>4. ASSUME NEW o \in Owners
        PROVE  ~offboardHuman(o) /\ ~Unbind(o)
    BY <2>1 DEF offboardHuman, Unbind
  <2>5. ASSUME NEW o \in Owners
        PROVE  /\ ~Land(o) /\ ~LandFails(o) /\ ~LandUnbound(o)
               /\ \A p \in Owners : ~Pull(o, EmailOf[p])
    BY <2>1 DEF Land, LandFails, LandUnbound, Pull
  <2>6. ~StartTick /\ ~PullEnds /\ ~ListReviews /\ ~ListReviewComments
        /\ ~ListIssueComments /\ ~TickFails
    BY <2>1 DEF StartTick, PullEnds, ListReviews, ListReviewComments, ListIssueComments, TickFails
  <2> QED
    BY <2>2, <2>3, <2>4, <2>5, <2>6 DEF Next, TickStep
<1>2. present' = present
  BY <1>1 DEF Detect, discussion
<1>3. PICK u : u = unmatchedJournal(splitJournaledIds(ToSet(host.audit)), tick.found)
  OBVIOUS
<1>4. PICK out : out = outOfBand(splitJournaledIds(ToSet(host.audit)), tick.found)
  OBVIOUS
<1>5. report' = [outOfBand |-> out, unmatchedJournal |-> u]
  BY <1>1, <1>3, <1>4 DEF Detect, detectOutOfBandWrites, listAuditUnion
<1> QED
  BY <1>1, <1>2, <1>4, <1>5

(* What the host's journal vouches for was made through revu.              *)
JournaledReviews == IdsOf(ToSet(host.audit), {"submitReview"})
JournaledReplies == IdsOf(ToSet(host.audit), {"replyToThread"})
VouchedReviews ==
  {c.reviewId : c \in {d \in tick.found.reviewComments :
                         d.reviewId # 0 /\ d.id \in JournaledReplies}}
LEMMA Accused ==
  outOfBand(splitJournaledIds(ToSet(host.audit)), tick.found) =
        {a \in tick.found.reviews :
           a.author = "bot" /\ a.id \notin JournaledReviews \cup VouchedReviews}
   \cup {a \in tick.found.reviewComments :
           /\ a.author = "bot" /\ a.id \notin JournaledReplies
           /\ a.reviewId = 0 \/ a.reviewId \notin JournaledReviews}
   \cup {a \in tick.found.issueComments : a.author = "bot"}
<1>1. PICK rids : rids = JournaledReviews
  OBVIOUS
<1>2. PICK cids : cids = JournaledReplies
  OBVIOUS
<1>3. PICK tids : tids = IdsOf(ToSet(host.audit), Endpoints \ {"submitReview", "replyToThread"})
  OBVIOUS
<1>4. PICK j : j = [reviewIds |-> rids, createdCommentIds |-> cids, touchedIds |-> tids]
  OBVIOUS
<1>5. j.reviewIds = rids /\ j.createdCommentIds = cids
  BY <1>4
<1>6. splitJournaledIds(ToSet(host.audit)) = j
  BY <1>1, <1>2, <1>3, <1>4 DEF splitJournaledIds, JournaledReviews, JournaledReplies
<1>7. VouchedByReplies(j, tick.found.reviewComments) = VouchedReviews
  BY <1>2, <1>5 DEF VouchedByReplies, VouchedReviews
<1>8. outOfBand(j, tick.found) =
        {a \in {b \in tick.found.reviews : b.author = "bot"} :
           a.id \notin rids \cup VouchedReviews}
   \cup {a \in {b \in tick.found.reviewComments : b.author = "bot"} :
           a.id \notin cids /\ (a.reviewId = 0 \/ a.reviewId \notin rids)}
   \cup {b \in tick.found.issueComments : b.author = "bot"}
  BY <1>5, <1>7 DEF outOfBand
<1> QED
  BY <1>1, <1>2, <1>6, <1>8

LEMMA VouchedIsMediated ==
  ASSUME CInv
  PROVE  /\ \A i \in JournaledReviews \cup VouchedReviews :
              \E r \in OfKind(made, "review") : r.id = i /\ r.by \in Owners
         /\ \A i \in JournaledReplies :
              \E c \in OfKind(made, "review_comment") : c.id = i /\ c.by \in Owners
<1>1. \A row \in ToSet(host.audit) :
        /\ row.workspace \in Owners
        /\ Row(row.endpoint, row.id) \in journals[row.workspace]
  <2>1. host.audit \in Seq(AuditRows)
    BY DEF CInv, HostIsSound
  <2>2. \A row \in ToSet(host.audit) : row \in AuditRows
    BY <2>1 DEF ToSet
  <2>3. \A row \in ToSet(host.audit) : row.workspace \in Owners
    BY <2>2 DEF AuditRows
  <2> QED
    BY <2>3 DEF CInv, HostIsSound
<1>2. \A o \in Owners : \A row \in journals[o] : Names(o, row)
  BY DEF CInv, JournalsNameTheirWrites
<1>3. ASSUME NEW i \in JournaledReviews
      PROVE  \E r \in OfKind(made, "review") : r.id = i /\ r.by \in Owners
  <2>1. PICK row \in ToSet(host.audit) : row.endpoint = "submitReview" /\ row.id = i
    BY DEF JournaledReviews, IdsOf
  <2>2. PICK q : q = Row(row.endpoint, row.id)
    OBVIOUS
  <2>3. q.endpoint = "submitReview" /\ q.id = i
    BY <2>1, <2>2 DEF Row
  <2>4. Names(row.workspace, q)
    BY <1>1, <1>2, <2>2
  <2> QED
    BY <1>1, <2>3, <2>4 DEF Names
<1>4. ASSUME NEW i \in JournaledReplies
      PROVE  \E c \in OfKind(made, "review_comment") : c.id = i /\ c.by \in Owners
  <2>1. PICK row \in ToSet(host.audit) : row.endpoint = "replyToThread" /\ row.id = i
    BY DEF JournaledReplies, IdsOf
  <2>2. PICK q : q = Row(row.endpoint, row.id)
    OBVIOUS
  <2>3. q.endpoint = "replyToThread" /\ q.id = i
    BY <2>1, <2>2 DEF Row
  <2>4. Names(row.workspace, q)
    BY <1>1, <1>2, <2>2
  <2> QED
    BY <1>1, <2>3, <2>4 DEF Names
<1>5. ASSUME NEW i \in VouchedReviews
      PROVE  \E r \in OfKind(made, "review") : r.id = i /\ r.by \in Owners
  <2>1. PICK d \in tick.found.reviewComments : d.reviewId = i /\ d.id \in JournaledReplies
    BY DEF VouchedReviews
  <2>2. PICK c \in OfKind(made, "review_comment") : c.id = d.id /\ c.by \in Owners
    BY <1>4, <2>1
  <2>3. d \in OfKind(made, "review_comment")
    BY <2>1 DEF CInv, Listed
  <2>4. c = d
    BY <2>2, <2>3 DEF CInv, MadeOnce, Numbered, OfKind
  <2>5. PICK r \in OfKind(made, "review") : r.id = d.reviewId /\ r.by = d.by
    BY <2>3 DEF CInv, MadeOnce
  <2> QED
    BY <2>1, <2>2, <2>4, <2>5
<1> QED
  BY <1>3, <1>4, <1>5

(* A bot write made past revu before the tick began and not deleted since  *)
(* is in its report, whatever was touched, mediated or journalled around   *)
(* it (out-of-band-writes.ts:288-318).                                     *)
THEOREM BypassesAreFound == Spec => BypassIsFound
<1>1. CInv /\ [Next]_vars =>
        [Concludes => tick.before \cap present \subseteq report'.outOfBand]_vars
  <2> SUFFICES ASSUME CInv, Next, Concludes, NEW a \in tick.before, a \in present
               PROVE  a \in report'.outOfBand
    OBVIOUS
  <2>1. /\ Detect
        /\ report'.outOfBand = outOfBand(splitJournaledIds(ToSet(host.audit)), tick.found)
    BY OnlyDetectionConcludes
  <2>2. a \in made /\ a.by = "bypass" /\ a.author = "bot" /\ a.kind \in Kinds
    <3>1. a \in made /\ a.by = "bypass"
      BY DEF CInv, Listed, Bypass
    <3>2. a.author = "bot"
      BY <3>1 DEF CInv, MadeOnce, Bypass
    <3>3. a \in Artifact
      BY <3>1 DEF CInv, MadeOnce, Numbered
    <3> QED
      BY <3>1, <3>2, <3>3 DEF Artifact
  <2>3. "bypass" \notin Owners
    BY CollectorAssumption
  <2>4. tick.step = "detect" /\ a \in OfKind(tick.before \cap present, a.kind)
    BY <2>1 DEF Detect, OfKind
  <2>5. CASE a.kind = "review"
    <3>1. a \in tick.found.reviews /\ a \in OfKind(made, "review")
      BY <2>2, <2>4, <2>5 DEF CInv, Listed, OfKind
    <3>2. \A r \in OfKind(made, "review") : r.id = a.id => r = a
      BY <3>1 DEF CInv, MadeOnce, Numbered, OfKind
    <3>3. a.id \notin JournaledReviews \cup VouchedReviews
      BY <2>2, <2>3, <3>2, VouchedIsMediated
    <3> QED
      BY <2>1, <2>2, <3>1, <3>3, Accused
  <2>6. CASE a.kind = "review_comment"
    <3>1. a \in tick.found.reviewComments /\ a \in OfKind(made, "review_comment")
      BY <2>2, <2>4, <2>6 DEF CInv, Listed, OfKind
    <3>2. \A c \in OfKind(made, "review_comment") : c.id = a.id => c = a
      BY <3>1 DEF CInv, MadeOnce, Numbered, OfKind
    <3>3. a.id \notin JournaledReplies
      BY <2>2, <2>3, <3>2, VouchedIsMediated
    <3>4. PICK r \in OfKind(made, "review") : r.id = a.reviewId /\ r.by = a.by
      BY <3>1 DEF CInv, MadeOnce
    <3>5. \A q \in OfKind(made, "review") : q.id = r.id => q = r
      BY DEF CInv, MadeOnce, Numbered, OfKind
    <3>6. a.reviewId \notin JournaledReviews
      BY <2>2, <2>3, <3>4, <3>5, VouchedIsMediated
    <3> QED
      BY <2>1, <2>2, <3>1, <3>3, <3>6, Accused
  <2>7. CASE a.kind = "issue_comment"
    <3>1. a \in tick.found.issueComments
      BY <2>4, <2>7 DEF CInv, Listed
    <3> QED
      BY <2>1, <2>2, <3>1, Accused
  <2> QED
    BY <2>2, <2>5, <2>6, <2>7 DEF Kinds
<1> QED
  BY <1>1, CInvHolds, PTL DEF Spec, BypassIsFound

(* A row that was landed vouches for what it names.                        *)
LEMMA KeptVouches ==
  ASSUME CInv, NEW o, NEW row, <<o, row>> \in kept
  PROVE  /\ row.endpoint = "submitReview" => row.id \in JournaledReviews
         /\ row.endpoint = "replyToThread" => row.id \in JournaledReplies
<1>1. PICK k : k = <<o, row>>
  OBVIOUS
<1>2. k[1] = o /\ k[2] = row
  BY <1>1
<1>3. AuditRow(o, row) \in ToSet(host.audit)
  BY <1>1, <1>2 DEF CInv, KeptIsInTheJournal
<1>4. PICK r : r = AuditRow(o, row)
  OBVIOUS
<1>5. r \in ToSet(host.audit) /\ r.endpoint = row.endpoint /\ r.id = row.id
  BY <1>3, <1>4 DEF AuditRow
<1> QED
  BY <1>5 DEF JournaledReviews, JournaledReplies, IdsOf

(* A write made through revu is accused only if the row that accounts for  *)
(* it was never landed, or if it is the wrapping review of a reply that    *)
(* was deleted; people are never accused (collector.ts:35-43,              *)
(* out-of-band-writes.ts:258-287).                                         *)
THEOREM LandedAreCleared == Spec => LandedIsCleared
<1>1. CInv /\ [Next]_vars =>
        [Concludes =>
           \A a \in report'.outOfBand :
             /\ a.author = "bot"
             /\ \A row \in Accounts(a) : <<a.by, row>> \notin kept]_vars
  <2> SUFFICES ASSUME CInv, Next, Concludes, NEW a \in report'.outOfBand
               PROVE  /\ a.author = "bot"
                      /\ \A row \in Accounts(a) : <<a.by, row>> \notin kept
    OBVIOUS
  <2>1. /\ Detect
        /\ report'.outOfBand = outOfBand(splitJournaledIds(ToSet(host.audit)), tick.found)
    BY OnlyDetectionConcludes
  <2>2. \/ /\ a \in tick.found.reviews /\ a.author = "bot"
           /\ a.id \notin JournaledReviews \cup VouchedReviews
        \/ /\ a \in tick.found.reviewComments /\ a.author = "bot"
           /\ a.id \notin JournaledReplies
           /\ a.reviewId = 0 \/ a.reviewId \notin JournaledReviews
        \/ a \in tick.found.issueComments /\ a.author = "bot"
    BY <2>1, Accused
  <2>3. \A c \in OfKind(made, "review_comment") : c.reviewId \in Nat \ {0}
    <3>1. ASSUME NEW c \in OfKind(made, "review_comment")
          PROVE  c.reviewId \in Nat \ {0}
      <4>1. PICK r \in OfKind(made, "review") : r.id = c.reviewId
        BY DEF CInv, MadeOnce
      <4>2. r \in made /\ r.kind = "review"
        BY <4>1 DEF OfKind
      <4>3. r.id \in 1..Cardinality(OfKind(made, "review"))
        BY <4>2 DEF CInv, MadeOnce, Numbered
      <4> QED
        BY <4>1, <4>3
    <3> QED
      BY <3>1
  <2>4. CASE /\ a \in tick.found.reviews /\ a.author = "bot"
             /\ a.id \notin JournaledReviews \cup VouchedReviews
    <3>1. a.kind = "review"
      BY <2>4 DEF CInv, Listed, OfKind
    <3>2. Accounts(a) =
            {Row("submitReview", a.id)} \cup
            {Row("replyToThread", c.id) :
               c \in {d \in OfKind(present, "review_comment") : d.reviewId = a.id}}
      BY <3>1 DEF Accounts
    <3>3. ASSUME NEW row, row = Row("submitReview", a.id)
          PROVE  <<a.by, row>> \notin kept
      <4>1. row.endpoint = "submitReview" /\ row.id = a.id
        BY <3>3 DEF Row
      <4> QED
        BY <4>1, <2>4, KeptVouches
    <3>4. ASSUME NEW c \in OfKind(present, "review_comment"), c.reviewId = a.id,
                 NEW row, row = Row("replyToThread", c.id)
          PROVE  <<a.by, row>> \notin kept
      <4>1. row.endpoint = "replyToThread" /\ row.id = c.id
        BY <3>4 DEF Row
      <4>2. c \in tick.found.reviewComments
        BY <2>1, <2>4, <3>4 DEF Detect, CInv, Listed
      <4>3. c.reviewId # 0
        BY <2>3, <4>2 DEF CInv, Listed
      <4>4. c.id \notin JournaledReplies
        BY <2>4, <3>4, <4>2, <4>3 DEF VouchedReviews
      <4> QED
        BY <4>1, <4>4, KeptVouches
    <3> QED
      BY <2>4, <3>2, <3>3, <3>4
  <2>5. CASE /\ a \in tick.found.reviewComments /\ a.author = "bot"
             /\ a.id \notin JournaledReplies
             /\ a.reviewId = 0 \/ a.reviewId \notin JournaledReviews
    <3>1. a.kind = "review_comment" /\ a.reviewId # 0
      BY <2>3, <2>5 DEF CInv, Listed, OfKind
    <3>2. Accounts(a) = {Row("submitReview", a.reviewId), Row("replyToThread", a.id)}
      BY <3>1 DEF Accounts
    <3>3. ASSUME NEW row, row = Row("submitReview", a.reviewId)
          PROVE  <<a.by, row>> \notin kept
      <4>1. row.endpoint = "submitReview" /\ row.id = a.reviewId
        BY <3>3 DEF Row
      <4> QED
        BY <4>1, <3>1, <2>5, KeptVouches
    <3>4. ASSUME NEW row, row = Row("replyToThread", a.id)
          PROVE  <<a.by, row>> \notin kept
      <4>1. row.endpoint = "replyToThread" /\ row.id = a.id
        BY <3>4 DEF Row
      <4> QED
        BY <4>1, <2>5, KeptVouches
    <3> QED
      BY <2>5, <3>2, <3>3, <3>4
  <2>6. CASE a \in tick.found.issueComments /\ a.author = "bot"
    <3>1. a.kind = "issue_comment"
      BY <2>6 DEF CInv, Listed, OfKind
    <3>2. Accounts(a) = {}
      BY <3>1 DEF Accounts
    <3> QED
      BY <2>6, <3>2
  <2> QED
    BY <2>2, <2>4, <2>5, <2>6
<1> QED
  BY <1>1, CInvHolds, PTL DEF Spec, LandedIsCleared

=============================================================================
