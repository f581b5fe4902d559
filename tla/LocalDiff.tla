----------------------------- MODULE LocalDiff -----------------------------
(***************************************************************************)
(* The change set of a local review, as it is read from a git clone: the   *)
(* three streams git prints for a pair of commits (records, line counts,   *)
(* patch sections), and their join, by position, into the files of a       *)
(* review.  Renames, which git prints as one record of two paths, are left *)
(* out: no step of the join looks at the second path.                      *)
(***************************************************************************)
EXTENDS Integers, Sequences, FiniteSets

CONSTANTS Commits, Blobs,
          Binary,  \* the blobs git declines to print as text
          Paths,
          Tree,    \* commit -> path -> entry
          Changed, \* pair of commits -> git's diff queue for it
          Sections \* pair of commits -> the patch git prints for it, cut up

\* What a tree holds at a path.  A gitlink names a commit of another repository.
Nothing == [mode |-> "none", object |-> "none"]
Entries == [mode : {"file", "link"}, object : Blobs]
             \cup [mode : {"gitlink"}, object : {"elsewhere"}] \cup {Nothing}

\* A pair of commits, and what each has at a path.
Pairs == [base : Commits, head : Commits]
Before(pair, path) == Tree[pair.base][path]
After(pair, path) == Tree[pair.head][path]

\* The queue has each path that differs once; in which order is git's affair.
ASSUME QueueAssumption ==
  /\ Binary \subseteq Blobs /\ "none" \notin Blobs
  /\ Commits \cap Blobs = {}
  /\ Tree \in [Commits -> [Paths -> Entries]]
  /\ Changed \in [Pairs -> Seq(Paths)]
  /\ \A pair \in Pairs :
       LET queue == Changed[pair]
       IN  /\ {queue[i] : i \in DOMAIN queue} = {p \in Paths : Before(pair, p) # After(pair, p)}
           /\ \A i, j \in DOMAIN queue : i # j => queue[i] # queue[j]

-----------------------------------------------------------------------------
(* What git prints for a pair: three streams, in the order of its queue *)

RawDiffStatus(before, after) ==
  IF before = Nothing THEN "A"
  ELSE IF after = Nothing THEN "D"
  ELSE IF before.mode # after.mode THEN "T" ELSE "M"

StatusAt(pair, i) ==
  RawDiffStatus(Before(pair, Changed[pair][i]), After(pair, Changed[pair][i]))

Records == [pair \in Pairs |->
  [i \in DOMAIN Changed[pair] |->
     LET path == Changed[pair][i]
         before == Before(pair, path)
         after == After(pair, path)
     IN  [path |-> path, src |-> before, dst |-> after,
          status |-> StatusAt(pair, i)]]]

\* How many lines a change loses and gains is a matter of its two objects.
Count(before, after) == <<before.object, after.object>>

Counts == [pair \in Pairs |->
  [i \in DOMAIN Changed[pair] |->
     LET path == Changed[pair][i]
     IN  [path |-> path, count |-> Count(Before(pair, path), After(pair, path))]]]

\* A type change is printed as a deletion and a creation.
SectionsOfPath(before, after) ==
  IF RawDiffStatus(before, after) = "T"
    THEN <<[from |-> before, to |-> Nothing], [from |-> Nothing, to |-> after]>>
    ELSE <<[from |-> before, to |-> after]>>

\* The sections printed for the first n paths of a pair.
Printed(pair, n) == n + Cardinality({i \in 1..n : StatusAt(pair, i) = "T"})

PrintedInOrder(sections, pair) ==
  LET queue == Changed[pair]
  IN  /\ Len(sections) = Printed(pair, Len(queue))
      /\ \A i \in DOMAIN queue :
           SubSeq(sections, Printed(pair, i - 1) + 1, Printed(pair, i)) =
             SectionsOfPath(Before(pair, queue[i]), After(pair, queue[i]))

ASSUME SectionsAssumption ==
  /\ Sections \in [Pairs -> Seq([from : Entries, to : Entries])]
  /\ \A pair \in Pairs : PrintedInOrder(Sections[pair], pair)

-----------------------------------------------------------------------------
(* The file list and the blob index, from the records *)

\* A gitlink is another repository's commit, and a link's object is a path.
Skipped(record) ==
  \E entry \in {record.src, record.dst} : entry.mode \in {"gitlink", "link"}

Wire == [A |-> "added", D |-> "removed", M |-> "modified", T |-> "modified"]

\* The objects the index names, each one to be provisioned.
Indexed(records) ==
  UNION {{records[i].src.object, records[i].dst.object} \ {"none"} :
           i \in {j \in DOMAIN records : ~Skipped(records[j])}}

-----------------------------------------------------------------------------
(* The join *)

OneSectionEach(status) == 1
PatchSectionCount(status) == IF status = "T" THEN 2 ELSE 1

\* The sections of the first n records: one each, or two.
Spanned(records, n) ==
  n + Cardinality({i \in 1..n : PatchSectionCount(records[i].status) = 2})

Span(records, sections, i) ==
  SubSeq(sections, Spanned(records, i - 1) + 1, Spanned(records, i))

\* A section of text has hunks; one of a binary side has none.
HasHunks(section) == {section.from.object, section.to.object} \cap Binary = {}

NoPatch == <<>>

Patch(span) ==
  IF \A i \in DOMAIN span : HasHunks(span[i]) THEN span ELSE NoPatch

JoinsUp(records, counts, sections) ==
  /\ Len(counts) = Len(records)
  /\ Len(sections) = Spanned(records, Len(records))
  /\ \A i \in DOMAIN records :
       /\ counts[i].path = records[i].path
       /\ PatchSectionCount(records[i].status) = 2 =>
            LET span == Span(records, sections, i)
            IN  span[1].to = Nothing /\ span[2].from = Nothing

LocalChangeSet(records, counts, sections) ==
  [i \in DOMAIN records |->
     [filename |-> records[i].path,
      status   |-> Wire[records[i].status],
      count    |-> counts[i].count,
      patch    |-> Patch(Span(records, sections, i))]]

-----------------------------------------------------------------------------
(* The change set of a pair, said of the trees and not of the streams: each *)
(* path that differs, with what it lost and what it gained.  A patch shows   *)
(* both, or nothing at all.                                                  *)

FileOf(pair, path) ==
  LET before == Before(pair, path)
      after == After(pair, path)
      text == {before.object, after.object} \cap Binary = {}
      turned == before # Nothing /\ after # Nothing /\ before.mode # after.mode
  IN  [filename |-> path,
       status |-> IF before = Nothing THEN "added"
                  ELSE IF after = Nothing THEN "removed" ELSE "modified",
       count |-> <<before.object, after.object>>,
       patch |-> IF ~text THEN NoPatch
                 ELSE IF turned
                   THEN <<[from |-> before, to |-> Nothing],
                          [from |-> Nothing, to |-> after]>>
                 ELSE <<[from |-> before, to |-> after]>>]

FilesOf == [pair \in Pairs |->
  {FileOf(pair, path) :
     path \in {p \in Paths : Before(pair, p) # After(pair, p)}}]

IsChangeSetOf(files, pair) ==
  /\ {files[i] : i \in DOMAIN files} = FilesOf[pair]
  /\ \A i, j \in DOMAIN files : i < j => files[i].filename # files[j].filename
=============================================================================
