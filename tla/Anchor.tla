------------------------------- MODULE Anchor -------------------------------
(***************************************************************************)
(* Where a pending comment belongs in a newer version of its file:         *)
(* shared/src/lib/anchor.ts.  A file is the sequence of its lines; a line  *)
(* is a member of Texts, the texts that differ by more than their trailing *)
(* blanks (lineEq compares with trimEnd).  Lines are numbered from 1 here  *)
(* and in the comments; the indices of the code are one less.              *)
(*                                                                         *)
(* A comment is [side, line, start, anchor]; start is NoStart when it      *)
(* covers one line.  Its anchor is the text it was written about, up to    *)
(* ContextDepth lines on each side and the text of its first line.         *)
(***************************************************************************)
EXTENDS Integers, Sequences, FiniteSets

CONSTANTS SearchRadius,       \* 400 in the code
          StartSearchRadius,  \* 40 in the code
          ContextDepth,       \* 3 in the code
          CleanContextFloor   \* 2 in the code

ASSUME RadiusAssumption ==
  /\ SearchRadius \in Nat
  /\ StartSearchRadius \in Nat
  /\ ContextDepth \in Nat
  /\ CleanContextFloor \in 0..ContextDepth  \* one adjacent line may clear it

NoStart == 0
NoText == "no text"    \* what a line that does not exist reads as
NoBlob == << >>        \* no blob on this side; a file that exists has a line

Smaller(a, b) == IF a < b THEN a ELSE b
Larger(a, b) == IF a > b THEN a ELSE b
Distance(a, b) == IF a < b THEN b - a ELSE a - b

\* lineEq on a line number: a line that does not exist equals nothing.
Reads(lines, i, text) == i \in 1..Len(lines) /\ lines[i] = text

TextAt(lines, i) == IF i \in 1..Len(lines) THEN lines[i] ELSE NoText

CaptureAnchor(lines, line, start) ==
  [text   |-> TextAt(lines, line),
   before |-> SubSeq(lines, Larger(1, line - ContextDepth), Smaller(line - 1, Len(lines))),
   after  |-> SubSeq(lines, line + 1, Smaller(line + ContextDepth, Len(lines))),
   first  |-> IF start = NoStart THEN NoText ELSE TextAt(lines, start)]

\* Agreement at distance j is worth ContextDepth + 1 - j, counted in units.
Weight(js) ==
  Cardinality({w \in js \X (1..ContextDepth) : w[1] + w[2] <= ContextDepth + 1})

\* Fault: the line captured first is taken for the one next to the anchor.
AgreeAboveFarFirst(anchor, lines, i) ==
  {j \in 1..ContextDepth : /\ j <= Len(anchor.before)
                           /\ Reads(lines, i - j, anchor.before[j])}

\* The distances at which the lines above and below i are what was captured.
AgreeAbove(anchor, lines, i) ==
  {j \in 1..ContextDepth : /\ j <= Len(anchor.before)
                           /\ Reads(lines, i - j, anchor.before[Len(anchor.before) + 1 - j])}
AgreeBelow(anchor, lines, i) ==
  {j \in 1..ContextDepth : /\ j <= Len(anchor.after)
                           /\ Reads(lines, i + j, anchor.after[j])}

\* The nearest line weighs most; a line that disagrees costs only its own weight.
ContextScore(anchor, lines, i) ==
  Weight(AgreeAbove(anchor, lines, i)) + Weight(AgreeBelow(anchor, lines, i))

\* The lines of the search window that read as the anchor does.
Candidates(lines, text, line) ==
  {i \in 1..Len(lines) : Distance(i, line) <= SearchRadius /\ lines[i] = text}

IsDuplicatedInWindow(lines, text, line) ==
  \E i, j \in Candidates(lines, text, line) : i # j

\* The ranking of the drift search: context, then distance, then the first.
Outranks(comment, lines, i, j) ==
  LET si == ContextScore(comment.anchor, lines, i)
      sj == ContextScore(comment.anchor, lines, j)
      di == Distance(i, comment.line)
      dj == Distance(j, comment.line)
  IN  \/ si > sj
      \/ si = sj /\ di < dj
      \/ si = sj /\ di = dj /\ i <= j

BestCandidate(comment, lines) ==
  LET found == Candidates(lines, comment.anchor.text, comment.line)
  IN  CHOOSE i \in found : \A j \in found : Outranks(comment, lines, i, j)

\* The first line of a span that moved, and whether its place is a guess.
ResolveRangedStart(comment, lines, newLine) ==
  LET rigid == Smaller(newLine, Larger(1, comment.start + (newLine - comment.line)))
      near  == {i \in 1..newLine : /\ Distance(i, rigid) <= StartSearchRadius
                                   /\ Reads(lines, i, comment.anchor.first)}
      nearest == CHOOSE i \in near : \A j \in near :
                    \/ Distance(i, rigid) < Distance(j, rigid)
                    \/ Distance(i, rigid) = Distance(j, rigid) /\ i <= j
      at(i, guess) == [start |-> i, uncertain |-> guess]
  IN  IF comment.start = NoStart THEN at(NoStart, FALSE)
      ELSE IF Reads(lines, rigid, comment.anchor.first) THEN at(rigid, FALSE)
      ELSE IF near # {} THEN at(nearest, FALSE)
      ELSE at(rigid, TRUE)

-----------------------------------------------------------------------------
(* The classification.  Every result carries the same fields; the ones a   *)
(* kind has no use for keep the comment's own position.                    *)

Clean(comment) ==
  [kind |-> "clean", reason |-> "none", comment |-> comment,
   line |-> comment.line, start |-> comment.start, uncertain |-> FALSE]

Lost(comment, why) == [Clean(comment) EXCEPT !.kind = "lost", !.reason = why]

Drifted(comment, lines, newLine) ==
  LET span == ResolveRangedStart(comment, lines, newLine)
  IN  [Clean(comment) EXCEPT !.kind = "drifted", !.line = newLine,
                             !.start = span.start, !.uncertain = span.uncertain]

StaysClean(comment, lines) ==
  /\ Reads(lines, comment.line, comment.anchor.text)
  /\ \/ ContextScore(comment.anchor, lines, comment.line) >= CleanContextFloor
     \/ ~IsDuplicatedInWindow(lines, comment.anchor.text, comment.line)

ClassifyAnchor(comment, lines, presence) ==
  IF presence # "present" THEN Lost(comment, presence)
  ELSE IF StaysClean(comment, lines) THEN Clean(comment)
  ELSE IF Candidates(lines, comment.anchor.text, comment.line) = {}
       THEN Lost(comment, "line-deleted")
       ELSE Drifted(comment, lines, BestCandidate(comment, lines))

-----------------------------------------------------------------------------
(* The compare, as one path sees it: [status, base, head].  The status is   *)
(* that of the file listed under the path, "renamed" when the path is only  *)
(* the former name of a listed file, "unlisted" when it is neither.  The    *)
(* blob index has an entry for listed paths; a blob is known by its lines.  *)

Listed(compare) == compare.status \in {"added", "removed", "modified"}

SelectAnchorBlob(compare, side) ==
  IF ~Listed(compare) THEN NoBlob
  ELSE IF side = "LEFT" THEN compare.base ELSE compare.head

ResolveFilePresence(compare, side) ==
  CASE Listed(compare) /\ side = "RIGHT" ->
         IF compare.status = "removed" THEN "deleted" ELSE "present"
    [] Listed(compare) /\ side = "LEFT" ->
         IF compare.status = "added" THEN "added" ELSE "present"
    [] compare.status = "renamed" -> "renamed"
    [] OTHER ->
         IF SelectAnchorBlob(compare, side) = NoBlob THEN "deleted" ELSE "present"

ClassifyPendingComment(comment, compare) ==
  ClassifyAnchor(comment, SelectAnchorBlob(compare, comment.side),
                 ResolveFilePresence(compare, comment.side))
=============================================================================
