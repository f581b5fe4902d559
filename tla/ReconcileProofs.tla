-------------------------- MODULE ReconcileProofs --------------------------
(***************************************************************************)
(* What the classification of a comment promises, for files of any length  *)
(* over any texts and for every radius, depth and floor; then the          *)
(* reconcile dialogs, for every set of files, keys and radii.              *)
(*                                                                         *)
(* The dialogs: a commit and a merge base never change once they exist,    *)
(* so what a report says of a compare stays true of it while the branch,   *)
(* the store and the tab move on.  A report is true because the pre-flight *)
(* refuses a snapshot with a missing blob; Apply names the report's head;  *)
(* and GitHub accepts the review only when that head is the latest.        *)
(***************************************************************************)
EXTENDS Reconcile, FiniteSetTheorems, SequenceTheorems, NaturalsInduction, WellFoundedInduction, TLAPS

-----------------------------------------------------------------------------
(* A set of naturals has a least element.                                  *)
LEMMA LeastNatural ==
  ASSUME NEW T \in SUBSET Nat, T # {}
  PROVE  \E x \in T : \A y \in T : x <= y
<1>1. PICK x \in T : \A y \in T : <<y, x>> \notin OpToRel(<, Nat)
  BY NatLessThanWellFounded, WFMin, Zenon
<1>2. \A y \in T : ~(y < x)
  BY <1>1 DEF OpToRel
<1>3. \A y \in T : x <= y
  BY <1>2
<1> QED
  BY <1>3

-----------------------------------------------------------------------------
(* The classification of a comment. *)

(* contextScore is a natural number, whatever the anchor and the file: it  *)
(* is bounded, and one adjacent line that agrees is worth ContextDepth.     *)
LEMMA WeightIsNatural ==
  ASSUME NEW js \in SUBSET (1..ContextDepth)
  PROVE  /\ Weight(js) \in Nat
         /\ Cardinality((1..ContextDepth) \X (1..ContextDepth)) \in Nat
         /\ Weight(js) <= Cardinality((1..ContextDepth) \X (1..ContextDepth))
         /\ 1 \in js => Weight(js) >= ContextDepth
<1> DEFINE All == (1..ContextDepth) \X (1..ContextDepth)
           Units == {w \in js \X (1..ContextDepth) : w[1] + w[2] <= ContextDepth + 1}
           Near == {1} \X (1..ContextDepth)
<1>0. ContextDepth \in Nat
  BY RadiusAssumption
<1>1. IsFiniteSet(1..ContextDepth) /\ Cardinality(1..ContextDepth) = ContextDepth
  BY <1>0, FS_Interval
<1>2. IsFiniteSet(All) /\ Cardinality(All) \in Nat
  BY <1>1, FS_Product, FS_CardinalityType
<1>3. Units \in SUBSET All
  OBVIOUS
<1>4. IsFiniteSet(Units) /\ Cardinality(Units) \in Nat /\ Cardinality(Units) <= Cardinality(All)
  BY <1>2, <1>3, FS_Subset, FS_CardinalityType
<1>5. ASSUME 1 \in js
      PROVE  Cardinality(Units) >= ContextDepth
  <2>1. Near \in SUBSET Units
    BY <1>0, <1>5
  <2>2. IsFiniteSet({1}) /\ Cardinality({1}) = 1
    BY FS_Singleton
  <2>3. Cardinality(Near) = Cardinality({1}) * Cardinality(1..ContextDepth)
    BY <1>1, <2>2, FS_Product, Zenon
  <2>4. Cardinality(Near) = ContextDepth
    <3>1. 1 * ContextDepth = ContextDepth
      BY <1>0
    <3> HIDE DEF Near
    <3> QED
      BY <1>1, <2>2, <2>3, <3>1
  <2>5. Cardinality(Near) <= Cardinality(Units)
    BY <1>4, <2>1, FS_Subset, Zenon
  <2> HIDE DEF Near, Units
  <2> QED
    BY <1>0, <1>4, <2>4, <2>5
<1> QED
  BY <1>2, <1>4, <1>5 DEF Weight

LEMMA ScoreIsNatural ==
  ASSUME NEW anchor, NEW lines, NEW i
  PROVE  /\ ContextScore(anchor, lines, i) \in Nat
         /\ ContextScore(anchor, lines, i)
              <= 2 * Cardinality((1..ContextDepth) \X (1..ContextDepth))
         /\ 2 * Cardinality((1..ContextDepth) \X (1..ContextDepth)) \in Nat
         /\ 1 \in AgreeAbove(anchor, lines, i) \cup AgreeBelow(anchor, lines, i)
              => ContextScore(anchor, lines, i) >= ContextDepth
<1> DEFINE above == AgreeAbove(anchor, lines, i)
           below == AgreeBelow(anchor, lines, i)
           most  == Cardinality((1..ContextDepth) \X (1..ContextDepth))
<1>1. above \in SUBSET (1..ContextDepth) /\ below \in SUBSET (1..ContextDepth)
  BY DEF AgreeAbove, AgreeBelow
<1>2. /\ Weight(above) \in Nat /\ Weight(above) <= most /\ most \in Nat
      /\ 1 \in above => Weight(above) >= ContextDepth
  BY <1>1, WeightIsNatural
<1>3. /\ Weight(below) \in Nat /\ Weight(below) <= most
      /\ 1 \in below => Weight(below) >= ContextDepth
  BY <1>1, WeightIsNatural
<1> HIDE DEF above, below, most
<1>4. /\ Weight(above) + Weight(below) \in Nat
      /\ Weight(above) + Weight(below) <= 2 * most
      /\ 2 * most \in Nat
      /\ 1 \in above \cup below => Weight(above) + Weight(below) >= ContextDepth
  BY <1>2, <1>3, RadiusAssumption
<1> QED
  BY <1>4 DEF ContextScore, above, below, most

(* The drift search ends on a line of the window that reads as the anchor  *)
(* does, and no line of the window outranks it (anchor.ts:304-318).         *)
LEMMA BestCandidateRanks ==
  ASSUME NEW S, NEW lines \in Seq(S), NEW comment, comment.line \in Nat,
         Candidates(lines, comment.anchor.text, comment.line) # {}
  PROVE  /\ BestCandidate(comment, lines)
              \in Candidates(lines, comment.anchor.text, comment.line)
         /\ \A j \in Candidates(lines, comment.anchor.text, comment.line) :
              Outranks(comment, lines, BestCandidate(comment, lines), j)
<1> DEFINE found == Candidates(lines, comment.anchor.text, comment.line)
           score(i) == ContextScore(comment.anchor, lines, i)
           far(i) == Distance(i, comment.line)
           most == 2 * Cardinality((1..ContextDepth) \X (1..ContextDepth))
<1>1. most \in Nat /\ \A i : score(i) \in Nat /\ score(i) <= most
  BY ScoreIsNatural
<1>2. found \in SUBSET Nat
  BY DEF Candidates
<1>3. \A i \in found : far(i) \in Nat
  BY <1>2 DEF Distance
<1> HIDE DEF score, far, most, found
<1>4. PICK high \in found : \A j \in found : score(high) >= score(j)
  <2> DEFINE short == {most - score(i) : i \in found}
  <2>1. short \in SUBSET Nat /\ short # {}
    BY <1>1 DEF found
  <2>2. PICK x \in short : \A y \in short : x <= y
    BY <2>1, LeastNatural
  <2>3. PICK i \in found : x = most - score(i)
    BY <2>2
  <2>4. \A j \in found : most - score(i) <= most - score(j)
    BY <2>2, <2>3
  <2>5. \A j \in found : score(i) >= score(j)
    BY <1>1, <2>4
  <2> QED
    BY <2>5
<1>5. PICK near \in {i \in found : score(i) = score(high)} :
        \A j \in found : score(j) = score(high) => far(near) <= far(j)
  <2> DEFINE steps == {far(i) : i \in {j \in found : score(j) = score(high)}}
  <2>1. steps \in SUBSET Nat /\ steps # {}
    BY <1>3, <1>4
  <2>2. PICK x \in steps : \A y \in steps : x <= y
    BY <2>1, LeastNatural
  <2> QED
    BY <1>3, <2>2
<1>6. PICK best \in {i \in found : score(i) = score(high) /\ far(i) = far(near)} :
        \A j \in found : score(j) = score(high) /\ far(j) = far(near) => best <= j
  <2> DEFINE ties == {i \in found : score(i) = score(high) /\ far(i) = far(near)}
  <2>1. ties \in SUBSET Nat /\ ties # {}
    BY <1>2, <1>5
  <2> QED
    BY <2>1, LeastNatural
<1>7. \A j \in found : Outranks(comment, lines, best, j)
  <2> SUFFICES ASSUME NEW j \in found
               PROVE  \/ score(best) > score(j)
                      \/ score(best) = score(j) /\ far(best) < far(j)
                      \/ score(best) = score(j) /\ far(best) = far(j) /\ best <= j
    BY DEF Outranks, score, far
  <2> QED
    BY <1>1, <1>3, <1>4, <1>5, <1>6
<1> QED
  BY <1>7, Zenon DEF BestCandidate, found

(* A span that moved keeps its shape: it starts in the file and not after   *)
(* its last line, wherever that landed (anchor.ts:190, the clamps of        *)
(* resolveRangedStart).                                                     *)
LEMMA RangedStartInSpan ==
  ASSUME NEW comment, comment.line \in Nat \ {0}, comment.start \in Nat,
         NEW lines, NEW newLine \in Nat \ {0}
  PROVE  LET span == ResolveRangedStart(comment, lines, newLine)
         IN  /\ span.start \in Nat /\ span.start <= newLine
             /\ span.start = NoStart <=> comment.start = NoStart
             /\ span.uncertain \in BOOLEAN
<1> DEFINE rigid == Smaller(newLine, Larger(1, comment.start + (newLine - comment.line)))
           near  == {i \in 1..newLine : /\ Distance(i, rigid) <= StartSearchRadius
                                        /\ Reads(lines, i, comment.anchor.first)}
           Nearest(i, j) == \/ Distance(i, rigid) < Distance(j, rigid)
                            \/ Distance(i, rigid) = Distance(j, rigid) /\ i <= j
           nearest == CHOOSE i \in near : \A j \in near : Nearest(i, j)
           at(i, guess) == [start |-> i, uncertain |-> guess]
           span == IF comment.start = NoStart THEN at(NoStart, FALSE)
                   ELSE IF Reads(lines, rigid, comment.anchor.first) THEN at(rigid, FALSE)
                   ELSE IF near # {} THEN at(nearest, FALSE)
                   ELSE at(rigid, TRUE)
<1>1. rigid \in 1..newLine
  BY DEF Smaller, Larger
<1>2. near \in SUBSET (1..newLine)
  OBVIOUS
<1> HIDE DEF rigid, near
<1>3. ASSUME near # {}
      PROVE  nearest \in near
  <2>1. \A i \in near : i \in Nat /\ Distance(i, rigid) \in Nat
    BY <1>1, <1>2 DEF Distance
  <2> DEFINE steps == {Distance(i, rigid) : i \in near}
  <2>2. steps \in SUBSET Nat /\ steps # {}
    BY <1>3, <2>1
  <2>3. PICK d \in steps : \A e \in steps : d <= e
    <3> HIDE DEF steps
    <3> QED
      BY <2>2, LeastNatural
  <2> DEFINE ties == {i \in near : Distance(i, rigid) = d}
  <2>4. ties \in SUBSET Nat /\ ties # {}
    BY <2>1, <2>3
  <2>5. PICK best \in ties : \A j \in ties : best <= j
    <3> HIDE DEF ties
    <3> QED
      BY <2>4, LeastNatural
  <2>6. \A j \in near : Nearest(best, j)
    BY <2>1, <2>3, <2>5
  <2> HIDE DEF Nearest
  <2> QED
    BY <2>5, <2>6, Zenon
<1> HIDE DEF nearest
<1>4. /\ span.start \in Nat /\ span.start <= newLine
      /\ span.start = NoStart <=> comment.start = NoStart
      /\ span.uncertain \in BOOLEAN
  <2>1. CASE comment.start = NoStart
    BY <2>1 DEF NoStart
  <2>2. CASE comment.start # NoStart /\ Reads(lines, rigid, comment.anchor.first)
    BY <1>1, <2>2 DEF NoStart
  <2>3. CASE comment.start # NoStart /\ ~Reads(lines, rigid, comment.anchor.first) /\ near # {}
    <3>1. span = at(nearest, FALSE)
      BY <2>3, Zenon
    <3>2. nearest \in near
      BY <1>3, <2>3, Zenon
    <3>3. nearest \in Nat \ {0} /\ nearest <= newLine
      BY <1>2, <3>2
    <3> HIDE DEF span
    <3> QED
      BY <2>3, <3>1, <3>3 DEF NoStart
  <2>4. CASE comment.start # NoStart /\ ~Reads(lines, rigid, comment.anchor.first) /\ near = {}
    BY <1>1, <2>4 DEF NoStart
  <2> QED
    BY <2>1, <2>2, <2>3, <2>4
<1>5. ResolveRangedStart(comment, lines, newLine) = span
  BY Zenon DEF ResolveRangedStart, nearest, near, rigid
<1> QED
  BY <1>4, <1>5

(* The neighbouring lines of a captured anchor (reconcile-plan.ts:95-96).   *)
LEMMA CapturedNeighbours ==
  ASSUME NEW lines, NEW line, NEW start
  PROVE  /\ CaptureAnchor(lines, line, start).before
              = SubSeq(lines, Larger(1, line - ContextDepth), Smaller(line - 1, Len(lines)))
         /\ CaptureAnchor(lines, line, start).after
              = SubSeq(lines, line + 1, Smaller(line + ContextDepth, Len(lines)))
BY DEF CaptureAnchor

(* What captureAnchor takes is text of the file, or the text of no line.   *)
LEMMA CaptureAnchorType ==
  ASSUME NEW S, NEW lines \in Seq(S), NEW line \in Nat \ {0}, NEW start \in Nat
  PROVE  CaptureAnchor(lines, line, start)
           \in [text : S \cup {NoText}, before : Seq(S), after : Seq(S), first : S \cup {NoText}]
<1> DEFINE lo == Larger(1, line - ContextDepth)
           hi == Smaller(line - 1, Len(lines))
           end == Smaller(line + ContextDepth, Len(lines))
<1>1. /\ lo \in Nat \ {0} /\ hi \in Int /\ hi <= Len(lines)
      /\ line + 1 \in Nat \ {0} /\ end \in Int /\ end <= Len(lines)
  BY RadiusAssumption DEF Larger, Smaller
<1> HIDE DEF lo, hi, end
<1>2. (\A i \in lo..hi : lines[i] \in S) /\ (\A i \in (line + 1)..end : lines[i] \in S)
  BY <1>1
<1>3. SubSeq(lines, lo, hi) \in Seq(S)
  BY <1>1, <1>2, SubSeqProperties
<1>4. SubSeq(lines, line + 1, end) \in Seq(S)
  BY <1>1, <1>2, SubSeqProperties
<1>5. \A i : TextAt(lines, i) \in S \cup {NoText}
  BY DEF TextAt
<1> QED
  BY <1>3, <1>4, <1>5 DEF CaptureAnchor, lo, hi, end

(* An anchor captured where the comment sits is clean there: either a line *)
(* next to it agrees, or the file has no other line to confuse it with     *)
(* (anchor.ts:290-302).                                                     *)
LEMMA CapturedIsClean ==
  ASSUME NEW S, NEW lines \in Seq(S), NEW comment,
         comment.line \in 1..Len(lines),
         comment.anchor = CaptureAnchor(lines, comment.line, comment.start)
  PROVE  StaysClean(comment, lines)
<1> DEFINE line == comment.line
           anchor == comment.anchor
           lo == Larger(1, line - ContextDepth)
           end == Smaller(line + ContextDepth, Len(lines))
<1>0. Len(lines) \in Nat /\ line \in Nat \ {0} /\ line <= Len(lines)
  OBVIOUS
<1>1. Reads(lines, line, anchor.text)
  BY DEF Reads, CaptureAnchor, TextAt
<1>2. CASE ContextDepth = 0
  BY <1>1, <1>2, ScoreIsNatural, RadiusAssumption DEF StaysClean
<1>3. CASE ContextDepth > 0 /\ line < Len(lines)
  <2>1. end \in Int /\ line + 1 <= end /\ end <= Len(lines)
    BY <1>0, <1>3, RadiusAssumption DEF Smaller
  <2>2. \A i \in (line + 1)..end : lines[i] \in S
    BY <1>0, <2>1
  <2>3. anchor.after = SubSeq(lines, line + 1, end)
    BY Zenon, CapturedNeighbours
  <2>4. Len(anchor.after) >= 1 /\ anchor.after[1] = lines[line + 1]
    <3> HIDE DEF end, line, anchor
    <3>1. line + 1 \in Int
      BY <1>0
    <3>2. /\ Len(anchor.after) = end - (line + 1) + 1
          /\ \A i \in 1 .. end - (line + 1) + 1 : anchor.after[i] = lines[line + 1 + i - 1]
      BY <2>1, <2>2, <2>3, <3>1, SubSeqProperties
    <3> QED
      BY <1>0, <2>1, <3>2
  <2>5. 1 \in AgreeBelow(anchor, lines, line)
    BY <1>0, <1>3, <2>4, RadiusAssumption DEF AgreeBelow, Reads
  <2> QED
    BY <1>1, <2>5, ScoreIsNatural, RadiusAssumption DEF StaysClean
<1>4. CASE ContextDepth > 0 /\ line = Len(lines) /\ line > 1
  <2>1. lo \in Nat \ {0} /\ lo <= line - 1 /\ line - 1 <= Len(lines)
    BY <1>0, <1>4, RadiusAssumption DEF Larger
  <2>2. \A i \in lo..(line - 1) : lines[i] \in S
    BY <1>0, <2>1
  <2>3. anchor.before = SubSeq(lines, lo, line - 1)
    <3>1. Smaller(line - 1, Len(lines)) = line - 1
      BY <1>0, <1>4 DEF Smaller
    <3>2. anchor.before = SubSeq(lines, lo, Smaller(line - 1, Len(lines)))
      BY CapturedNeighbours, Z3
    <3> HIDE DEF lo, anchor
    <3> QED
      BY <3>1, <3>2, Zenon
  <2>4. /\ Len(anchor.before) = line - lo
        /\ anchor.before[line - lo] = lines[line - 1]
    <3> HIDE DEF lo, line, anchor
    <3>1. /\ Len(anchor.before) = (line - 1) - lo + 1
          /\ \A i \in 1 .. (line - 1) - lo + 1 : anchor.before[i] = lines[lo + i - 1]
      <4>1. line - 1 \in Int /\ lo \in Int
        BY <1>0, <2>1
      <4> QED
        BY <2>1, <2>2, <2>3, <4>1, SubSeqProperties
    <3> QED
      BY <1>0, <2>1, <3>1
  <2>5. 1 \in AgreeAbove(anchor, lines, line)
    <3> HIDE DEF lo, line, anchor
    <3>1. Len(anchor.before) + 1 - 1 = line - lo /\ 1 <= Len(anchor.before)
      BY <1>0, <2>1, <2>4
    <3> QED
      BY <1>0, <1>4, <2>4, <3>1, RadiusAssumption DEF AgreeAbove, Reads
  <2> QED
    BY <1>1, <2>5, ScoreIsNatural, RadiusAssumption DEF StaysClean
<1>5. CASE line = Len(lines) /\ line = 1
  BY <1>0, <1>1, <1>5 DEF StaysClean, IsDuplicatedInWindow, Candidates
<1> QED
  BY <1>0, <1>2, <1>3, <1>4, <1>5, RadiusAssumption

(* What a verdict says: a clean or drifted comment is on a line that reads *)
(* as its anchor does and covers a span that ends there; a lost line is in *)
(* no line of the window.                                                  *)
SoundVerdict(r, comment, lines, presence) ==
  /\ r \in [kind : {"clean", "drifted", "lost"},
           reason : {"none", "deleted", "renamed", "added", "line-deleted"},
           comment : {comment}, line : Nat \ {0}, start : Nat, uncertain : BOOLEAN]
  /\ r.start <= r.line
  /\ r.kind = "clean" => r.line = comment.line
  /\ r.kind # "lost" => Reads(lines, r.line, comment.anchor.text)
  /\ r.reason = "line-deleted" =>
       /\ presence = "present"
       /\ Candidates(lines, comment.anchor.text, comment.line) = {}

(* Every verdict of classifyAnchor (anchor.ts:267-335) is sound.            *)
THEOREM ClassificationIsSound ==
  ASSUME NEW S, NEW lines \in Seq(S), NEW comment,
         comment.line \in Nat \ {0}, comment.start \in Nat, comment.start <= comment.line,
         NEW presence \in {"present", "deleted", "renamed", "added"}
  PROVE  SoundVerdict(ClassifyAnchor(comment, lines, presence), comment, lines, presence)
<1> SUFFICES ASSUME NEW r, r = ClassifyAnchor(comment, lines, presence)
             PROVE  SoundVerdict(r, comment, lines, presence)
  OBVIOUS
<1> USE DEF SoundVerdict
<1> DEFINE found == Candidates(lines, comment.anchor.text, comment.line)
           best == BestCandidate(comment, lines)
           span == ResolveRangedStart(comment, lines, best)
<1>1. CASE presence # "present"
  <2>1. r = Lost(comment, presence)
    BY <1>1 DEF ClassifyAnchor
  <2> QED
    BY <1>1, <2>1 DEF Lost, Clean
<1>2. CASE presence = "present" /\ StaysClean(comment, lines)
  <2>1. r = Clean(comment)
    BY <1>2 DEF ClassifyAnchor
  <2>2. Reads(lines, comment.line, comment.anchor.text)
    BY <1>2 DEF StaysClean
  <2>3. /\ r.comment = comment /\ r.kind = "clean" /\ r.reason = "none"
        /\ r.line = comment.line /\ r.start = comment.start /\ r.uncertain = FALSE
    BY <2>1 DEF Clean
  <2>4. r \in [kind : {"clean", "drifted", "lost"},
              reason : {"none", "deleted", "renamed", "added", "line-deleted"},
              comment : {comment}, line : Nat \ {0}, start : Nat, uncertain : BOOLEAN]
    BY <2>1 DEF Clean
  <2> QED
    BY <2>2, <2>3, <2>4
<1>3. CASE presence = "present" /\ ~StaysClean(comment, lines) /\ found = {}
  <2>1. r = Lost(comment, "line-deleted")
    BY <1>3 DEF ClassifyAnchor
  <2> QED
    BY <1>3, <2>1 DEF Lost, Clean
<1>4. CASE presence = "present" /\ ~StaysClean(comment, lines) /\ found # {}
  <2>1. best \in found
    BY <1>4, BestCandidateRanks
  <2>2. best \in Nat \ {0} /\ Reads(lines, best, comment.anchor.text)
    BY <2>1 DEF Candidates, Reads
  <2>3. /\ span.start \in Nat /\ span.start <= best
        /\ span.uncertain \in BOOLEAN
    BY <2>2, RangedStartInSpan
  <2>4. r = [Clean(comment) EXCEPT !.kind = "drifted", !.line = best,
                                   !.start = span.start, !.uncertain = span.uncertain]
    BY <1>4 DEF ClassifyAnchor, Drifted
  <2> HIDE DEF best, span, found
  <2>5. /\ r.comment = comment /\ r.kind = "drifted" /\ r.reason = "none"
        /\ r.line = best /\ r.start = span.start /\ r.uncertain = span.uncertain
    BY <2>4 DEF Clean
  <2>6. r.uncertain \in BOOLEAN
    BY <2>3, <2>5, Zenon
  <2>7. r = [kind |-> r.kind, reason |-> r.reason, comment |-> r.comment,
             line |-> r.line, start |-> r.start, uncertain |-> r.uncertain]
    BY <2>4 DEF Clean
  <2>8. r \in [kind : {"clean", "drifted", "lost"},
              reason : {"none", "deleted", "renamed", "added", "line-deleted"},
              comment : {comment}, line : Nat \ {0}, start : Nat, uncertain : BOOLEAN]
    BY <2>2, <2>3, <2>5, <2>6, <2>7
  <2> QED
    BY <2>2, <2>3, <2>5, <2>8
<1> QED
  BY <1>1, <1>2, <1>3, <1>4

-----------------------------------------------------------------------------
(* The inductive invariant. *)

\* A dialog or a request is there for a draft, and each request belongs to the
\* place it was sent from.
DialogsHaveADraft ==
  /\ draft # NoDraft =>
       /\ draft = [head |-> draft.head, key |-> draft.key, comments |-> draft.comments]
       /\ draft.head \in 1..Len(commits)
  /\ (view # "files" \/ request # NoRequest) => draft # NoDraft
  /\ request # NoRequest =>
       /\ view = IF request.by = "bar" THEN "files" ELSE "report"
       /\ request.base \in 1..Len(bases)
       /\ request.head \in 1..Len(commits)

\* Every row is the verdict on the comment it carries, on the report's compare.
ReportIsTrue ==
  report # NoReport =>
    \A k \in DOMAIN report.results :
      report.results[k] =
        ClassifyPendingComment(report.results[k].comment, CompareOf(report.compare))

\* While a dialog is open every comment of the draft has a row, on its side,
\* and one that was clean has not been touched since.
ReportCoversDraft ==
  (report # NoReport /\ view # "files") =>
    \A k \in DOMAIN draft.comments :
      /\ k \in DOMAIN report.results
      /\ report.results[k].comment.side = draft.comments[k].side
      /\ report.results[k].kind = "clean" => report.results[k].comment = draft.comments[k]

\* What Apply promised of a comment is what the compare it names reads.
RequestReads ==
  (request # NoRequest /\ request.by = "apply") =>
    \A k \in DOMAIN request.comments :
      \/ request.texts[k] = NoText
      \/ Reads(SideOf([base |-> request.base, head |-> request.head], request.comments[k].side),
               request.comments[k].line, request.texts[k])

IInv ==
  /\ TypeOK
  /\ DialogsHaveADraft
  /\ ReportIsTrue
  /\ ReportCoversDraft
  /\ RequestReads
  /\ ReconciledCommentsLand

-----------------------------------------------------------------------------
(* The files of a compare. *)

\* The base and the head of a compare are files (buildBlobIndex, sync.ts:187).
LEMMA FilesOfCompare ==
  ASSUME TypeOK, NEW compare \in Compares
  PROVE  /\ bases[compare.base].lines \in Seq(Texts)
         /\ commits[compare.head].lines \in Seq(Texts)
<1>1. bases[compare.base] \in Trees /\ commits[compare.head] \in Heads
  BY DEF TypeOK, Compares
<1> QED
  BY <1>1, FilesAssumption

\* The lines a comment is classified against are a file, an empty one when
\* the blob index has none (selectAnchorBlobSha, anchor.ts:89-100).
LEMMA SideIsFile ==
  ASSUME TypeOK, NEW compare \in Compares, NEW side
  PROVE  SelectAnchorBlob(CompareOf(compare), side) \in Seq(Texts)
<1>1. NoBlob \in Seq(Texts)
  BY DEF NoBlob
<1>2. CompareOf(compare).base \in Seq(Texts) /\ CompareOf(compare).head \in Seq(Texts)
  BY <1>1, FilesOfCompare DEF CompareOf
<1> QED
  BY <1>1, <1>2 DEF SelectAnchorBlob

\* What a side of the blob index reads, that side of the compare reads: the
\* index holds the file, or nothing.
LEMMA IndexReadsFile ==
  ASSUME TypeOK, NEW compare \in Compares, NEW side \in Sides, NEW i, NEW text,
         Reads(SelectAnchorBlob(CompareOf(compare), side), i, text)
  PROVE  Reads(SideOf(compare, side), i, text)
<1> DEFINE blob == SelectAnchorBlob(CompareOf(compare), side)
<1>1. blob # NoBlob
  <2>1. CASE blob = NoBlob
    <3>1. Len(blob) = 0
      BY <2>1 DEF NoBlob
    <3> QED
      BY <3>1 DEF Reads
  <2> QED
    BY <2>1
<1>2. blob = IF side = "LEFT" THEN CompareOf(compare).base ELSE CompareOf(compare).head
  BY <1>1 DEF SelectAnchorBlob
<1>3. blob = SideOf(compare, side)
  BY <1>1, <1>2 DEF SideOf, CompareOf
<1> QED
  BY <1>3

\* Where the verdict is "present" the compare lists the file, and the index
\* has its lines, unless the listing of the base was cut short.
LEMMA PresentIsListed ==
  ASSUME TypeOK, NEW compare \in Compares, NEW side \in Sides,
         ResolveFilePresence(CompareOf(compare), side) = "present",
         side = "RIGHT" \/ bases[compare.base].listed
  PROVE  SelectAnchorBlob(CompareOf(compare), side) = SideOf(compare, side)
<1>1. Listed(CompareOf(compare))
  <2>1. ~Listed(CompareOf(compare)) => SelectAnchorBlob(CompareOf(compare), side) = NoBlob
    BY DEF SelectAnchorBlob
  <2> QED
    BY <2>1 DEF ResolveFilePresence
<1>2. SelectAnchorBlob(CompareOf(compare), side)
        = IF side = "LEFT" THEN CompareOf(compare).base ELSE CompareOf(compare).head
  BY <1>1 DEF SelectAnchorBlob
<1>3. CompareOf(compare).head = commits[compare.head].lines
  BY DEF CompareOf
<1>4. bases[compare.base].listed => CompareOf(compare).base = bases[compare.base].lines
  BY DEF CompareOf
<1> QED
  BY <1>2, <1>3, <1>4 DEF SideOf, Sides

\* Commits and merge bases are only ever added.
LEMMA CompareStays ==
  ASSUME TypeOK, [Next]_vars
  PROVE  /\ Len(commits) \in Nat /\ Len(bases) \in Nat
         /\ Len(commits) <= Len(commits)' /\ Len(bases) <= Len(bases)'
         /\ \A i \in 1..Len(commits) : commits'[i] = commits[i]
         /\ \A i \in 1..Len(bases) : bases'[i] = bases[i]
         /\ commits' \in Seq(Heads) /\ bases' \in Seq(Trees)
<1>0. commits \in Seq(Heads) /\ bases \in Seq(Trees)
  BY DEF TypeOK
<1>1. CASE Push
  <2>1. PICK head \in Heads : commits' = Append(commits, head)
    BY <1>1 DEF Push
  <2>2. bases' = bases
    BY <1>1 DEF Push
  <2> QED
    BY <1>0, <2>1, <2>2
<1>2. CASE MoveBase
  <2>1. PICK tree \in Trees : bases' = Append(bases, tree)
    BY <1>2 DEF MoveBase
  <2>2. commits' = commits
    BY <1>2 DEF MoveBase
  <2> QED
    BY <1>0, <2>1, <2>2
<1>3. CASE UNCHANGED <<commits, bases>>
  BY <1>0, <1>3
<1> QED
  BY <1>1, <1>2, <1>3 DEF Next, vars, OtherTabSync, LoseBlob, Resync, WriteComment, SubmitFromBar,
     SubmitOk, SubmitHeadMoved, SubmitFailed, DialogSync, DialogReconcile, DialogFailed,
     DialogClosed, Apply

-----------------------------------------------------------------------------
(* The verdicts. *)

\* An anchor captured from a file makes a comment.
LEMMA CapturedComment ==
  ASSUME NEW lines \in Seq(Texts), NEW side \in Sides, NEW line \in Nat \ {0},
         NEW start \in Nat, start <= line
  PROVE  [side |-> side, line |-> line, start |-> start,
          anchor |-> CaptureAnchor(lines, line, start)] \in Comments
<1>1. CaptureAnchor(lines, line, start) \in Anchors
  BY CaptureAnchorType DEF Anchors
<1> QED
  BY <1>1 DEF Comments

\* One comment against one compare (classifyPendingComment, anchor.ts:389-419).
LEMMA VerdictIsSound ==
  ASSUME TypeOK, NEW compare \in Compares, NEW comment \in Comments, NEW r,
         r = ClassifyPendingComment(comment, CompareOf(compare))
  PROVE  /\ r \in Results
         /\ r.comment = comment
         /\ r.kind = "clean" => r.line = comment.line
         /\ r.kind # "lost" =>
              /\ Reads(SelectAnchorBlob(CompareOf(compare), comment.side), r.line, comment.anchor.text)
              /\ Reads(SideOf(compare, comment.side), r.line, comment.anchor.text)
         /\ (/\ r.reason = "line-deleted"
             /\ comment.side = "RIGHT" \/ bases[compare.base].listed)
            => Candidates(SideOf(compare, comment.side), comment.anchor.text, comment.line) = {}
<1> DEFINE lines == SelectAnchorBlob(CompareOf(compare), comment.side)
           presence == ResolveFilePresence(CompareOf(compare), comment.side)
<1>1. /\ comment.side \in Sides
      /\ comment.line \in Nat \ {0} /\ comment.start \in Nat /\ comment.start <= comment.line
  BY DEF Comments
<1>2. lines \in Seq(Texts)
  BY SideIsFile
<1>3. presence \in {"present", "deleted", "renamed", "added"}
  <2>1. comment.side = "RIGHT" \/ comment.side = "LEFT"
    BY <1>1 DEF Sides
  <2> QED
    BY <2>1 DEF ResolveFilePresence
<1>4. r = ClassifyAnchor(comment, lines, presence)
  BY DEF ClassifyPendingComment
<1> HIDE DEF lines, presence
<1>5. SoundVerdict(r, comment, lines, presence)
  BY <1>1, <1>2, <1>3, <1>4, ClassificationIsSound
<1>6. r \in Results /\ r.comment = comment
  BY <1>5 DEF Results, SoundVerdict
<1>7. Reads(lines, r.line, comment.anchor.text)
        => Reads(SideOf(compare, comment.side), r.line, comment.anchor.text)
  BY <1>1, IndexReadsFile DEF lines
<1>8. (presence = "present" /\ (comment.side = "RIGHT" \/ bases[compare.base].listed))
        => lines = SideOf(compare, comment.side)
  BY <1>1, PresentIsListed DEF lines, presence
<1> QED
  BY <1>5, <1>6, <1>7, <1>8 DEF SoundVerdict, lines

\* The pre-flight: where it passes, the store reads every side a comment of the
\* draft depends on as the snapshot has it (reconcile.ts:105-133).
LEMMA PreflightSeesAll ==
  ASSUME ~MissesBlob, NEW k \in DOMAIN draft.comments, draft.comments[k].side \in Sides
  PROVE  ClassifyPendingComment(draft.comments[k], Readable)
           = ClassifyPendingComment(draft.comments[k], CompareOf(stored.compare))
<1> DEFINE seen == CompareOf(stored.compare)
           side == draft.comments[k].side
<1>1. \/ SelectAnchorBlob(seen, side) = NoBlob
      \/ side \notin stored.gone
  BY DEF MissesBlob
<1>2. /\ seen = [status |-> seen.status, base |-> seen.base, head |-> seen.head]
  BY DEF CompareOf
<1>3. /\ Readable.status = seen.status
      /\ Readable.base = IF "LEFT" \in stored.gone THEN NoBlob ELSE seen.base
      /\ Readable.head = IF "RIGHT" \in stored.gone THEN NoBlob ELSE seen.head
  BY <1>2 DEF Readable
<1>4. side = "LEFT" \/ side = "RIGHT"
  BY DEF Sides
<1> HIDE DEF seen, side
<1>5. SelectAnchorBlob(Readable, side) = SelectAnchorBlob(seen, side)
  BY <1>1, <1>3, <1>4 DEF SelectAnchorBlob, Listed
<1>6. ResolveFilePresence(Readable, side) = ResolveFilePresence(seen, side)
  BY <1>3, <1>4, <1>5 DEF ResolveFilePresence, Listed
<1> QED
  BY <1>5, <1>6 DEF ClassifyPendingComment, seen, side

-----------------------------------------------------------------------------
(* What a step leaves as it was. *)

\* A report that is kept stays a report, and true.
LEMMA ReportStays ==
  ASSUME TypeOK, ReportIsTrue, [Next]_vars, report' = report \/ report' = NoReport
  PROVE  /\ ReportIsTrue'
         /\ report' # NoReport =>
              /\ report'.compare \in Compares'
              /\ report'.head = report'.compare.head
              /\ IsTable(report'.results, Keys, Results)
<1>1. CASE report' = NoReport
  BY <1>1 DEF ReportIsTrue
<1>2. CASE report' = report /\ report # NoReport
  <2>1. /\ report.compare \in Compares
        /\ report.head = report.compare.head
        /\ IsTable(report.results, Keys, Results)
    BY <1>2 DEF TypeOK
  <2>2. /\ report.compare = [base |-> report.compare.base, head |-> report.compare.head]
        /\ report.compare.base \in 1..Len(bases) /\ report.compare.head \in 1..Len(commits)
    BY <2>1 DEF Compares
  <2>3. /\ bases'[report.compare.base] = bases[report.compare.base]
        /\ commits'[report.compare.head] = commits[report.compare.head]
        /\ report.compare.base \in 1..Len(bases)' /\ report.compare.head \in 1..Len(commits)'
    BY <2>2, CompareStays
  <2>4. report.compare \in Compares'
    BY <2>2, <2>3 DEF Compares
  <2>5. CompareOf(report.compare)' = CompareOf(report.compare)
    BY <1>2, <2>3 DEF CompareOf
  <2>6. ReportIsTrue'
    BY <1>2, <2>5 DEF ReportIsTrue
  <2> QED
    BY <1>2, <2>1, <2>4, <2>6
<1> QED
  BY <1>1, <1>2

\* A request that is kept still names a compare, and what it promised reads
\* there as it did.
LEMMA RequestStays ==
  ASSUME TypeOK, DialogsHaveADraft, RequestReads, [Next]_vars,
         request' = request \/ request' = NoRequest
  PROVE  /\ RequestReads'
         /\ request' # NoRequest =>
              /\ request'.by \in {"bar", "apply"}
              /\ IsTable(request'.comments, Keys, Comments)
              /\ request'.base \in 1..Len(bases)'
              /\ request'.head \in 1..Len(commits)'
<1>1. CASE request' = NoRequest
  BY <1>1 DEF RequestReads
<1>2. CASE request' = request /\ request # NoRequest
  <2> DEFINE compare == [base |-> request.base, head |-> request.head]
  <2>1. /\ request.by \in {"bar", "apply"}
        /\ IsTable(request.comments, Keys, Comments)
        /\ request.base \in 1..Len(bases) /\ request.head \in 1..Len(commits)
    BY <1>2 DEF TypeOK, DialogsHaveADraft
  <2>2. request.base \in 1..Len(bases)' /\ request.head \in 1..Len(commits)'
    BY <2>1, CompareStays
  <2>3. /\ bases'[request.base] = bases[request.base]
        /\ commits'[request.head] = commits[request.head]
    BY <2>1, CompareStays
  <2>4. RequestReads'
    BY <1>2, <2>3 DEF RequestReads, SideOf
  <2> QED
    BY <1>2, <2>1, <2>2, <2>4
<1> QED
  BY <1>1, <1>2

\* Nothing moves once the review is posted.
LEMMA PostedStays ==
  ASSUME ReconciledCommentsLand, [Next]_vars, posted' = posted
  PROVE  ReconciledCommentsLand'
<1>1. CASE posted = {}
  BY <1>1 DEF ReconciledCommentsLand
<1>2. CASE posted # {}
  <2>1. UNCHANGED <<commits, bases>>
    BY <1>2 DEF Next, vars, Push, MoveBase, MayMove, OtherTabSync, LoseBlob, Resync, WriteComment,
       SubmitFromBar, SubmitOk, SubmitHeadMoved, SubmitFailed, DialogSync, DialogReconcile,
       DialogFailed, DialogClosed, Apply
  <2> QED
    BY <2>1 DEF ReconciledCommentsLand, ReadsAsPromised
<1> QED
  BY <1>1, <1>2

\* A step that leaves the draft and the review alone keeps the invariant, when
\* it keeps the report and the request or ends them, and the views agree.
LEMMA CarriedOver ==
  ASSUME IInv, [Next]_vars, draft' = draft, posted' = posted,
         report' = report \/ report' = NoReport,
         request' = request \/ request' = NoRequest,
         cached' \in Compares', stored' \in [compare : Compares', gone : SUBSET Sides],
         view' \in {"files", "moved", "movedAgain", "synced", "report"},
         view' \in {"report", "movedAgain"} => report' # NoReport,
         view' # "files" => draft # NoDraft,
         request' # NoRequest => view' = view,
         (report' # NoReport /\ view' # "files") => view # "files"
  PROVE  IInv'
<1> USE DEF IInv
<1>1. TypeOK'
  <2>1. /\ commits' \in Seq(Heads) /\ bases' \in Seq(Trees)
    BY CompareStays
  <2>2. draft' # NoDraft => IsTable(draft'.comments, Keys, Comments)
    BY DEF TypeOK
  <2>3. report' # NoReport =>
          /\ report'.compare \in Compares'
          /\ report'.head = report'.compare.head
          /\ IsTable(report'.results, Keys, Results)
    BY ReportStays
  <2>4. request' # NoRequest =>
          /\ request'.by \in {"bar", "apply"}
          /\ IsTable(request'.comments, Keys, Comments)
    BY RequestStays
  <2> QED
    BY <2>1, <2>2, <2>3, <2>4 DEF TypeOK
<1>2. DialogsHaveADraft'
  <2>1. draft # NoDraft => draft.head \in 1..Len(commits)'
    BY CompareStays DEF DialogsHaveADraft
  <2>2. request' # NoRequest =>
          /\ request' = request
          /\ request'.base \in 1..Len(bases)' /\ request'.head \in 1..Len(commits)'
    BY RequestStays
  <2> QED
    BY <2>1, <2>2 DEF DialogsHaveADraft
<1>3. ReportIsTrue'
  BY ReportStays
<1>4. ReportCoversDraft'
  BY DEF ReportCoversDraft
<1>5. RequestReads'
  BY RequestStays
<1>6. ReconciledCommentsLand'
  BY PostedStays
<1> QED
  BY <1>1, <1>2, <1>3, <1>4, <1>5, <1>6

\* What the store holds and the tab shows are compares of the history so far.
LEMMA LoadedStays ==
  ASSUME TypeOK, [Next]_vars
  PROVE  /\ Compares \subseteq Compares'
         /\ Latest' \in Compares'
         /\ stored' = stored => stored' \in [compare : Compares', gone : SUBSET Sides]
         /\ cached' = cached => cached' \in Compares'
<1>1. Compares \subseteq Compares'
  BY CompareStays DEF Compares
<1>2. Len(commits) \in Nat \ {0} /\ Len(bases) \in Nat \ {0}
  BY DEF TypeOK, Compares
<1>3. Len(commits)' \in Nat \ {0} /\ Len(bases)' \in Nat \ {0}
  BY <1>2, CompareStays
<1>4. Latest' \in Compares'
  BY <1>3 DEF Latest, Compares
<1>5. stored' = stored => stored' \in [compare : Compares', gone : SUBSET Sides]
  BY <1>1 DEF TypeOK
<1>6. cached' = cached => cached' \in Compares'
  BY <1>1 DEF TypeOK
<1> QED
  BY <1>1, <1>4, <1>5, <1>6

-----------------------------------------------------------------------------
(* The steps. *)

\* GitHub and the store move under the tab.
LEMMA OutsideSteps ==
  ASSUME IInv, Push \/ MoveBase \/ OtherTabSync \/ LoseBlob
  PROVE  IInv'
<1> USE DEF IInv
<1>1. [Next]_vars
  BY DEF Next
<1>2. UNCHANGED <<cached, draft, view, report, request, posted>>
  BY DEF Push, MoveBase, OtherTabSync, LoseBlob, tab
<1>3. /\ cached' \in Compares'
      /\ Latest' \in Compares'
      /\ stored' = stored => stored' \in [compare : Compares', gone : SUBSET Sides]
  BY <1>1, <1>2, LoadedStays
<1>4. stored' \in [compare : Compares', gone : SUBSET Sides]
  <2>1. CASE Push \/ MoveBase
    BY <1>3, <2>1 DEF Push, MoveBase
  <2>2. CASE OtherTabSync
    <3>1. UNCHANGED <<commits, bases>>
      BY <2>2 DEF OtherTabSync
    <3> QED
      BY <1>3, <2>2, <3>1 DEF OtherTabSync, Synced, Latest
  <2>3. CASE LoseBlob
    <3>1. PICK side \in {draft.comments[k].side : k \in DOMAIN draft.comments} :
            stored' = [stored EXCEPT !.gone = @ \cup {side}]
      BY <2>3 DEF LoseBlob
    <3>2. side \in Sides
      BY <2>3, <3>1 DEF LoseBlob, TypeOK, IsTable, Comments
    <3>3. Compares \subseteq Compares'
      BY <1>1, LoadedStays
    <3> QED
      BY <3>1, <3>2, <3>3 DEF TypeOK
  <2> QED
    BY <2>1, <2>2, <2>3
<1>5. view' \in {"files", "moved", "movedAgain", "synced", "report"}
      /\ (view' \in {"report", "movedAgain"} => report' # NoReport)
      /\ (view' # "files" => draft # NoDraft)
  BY <1>2 DEF TypeOK, DialogsHaveADraft
<1> QED
  BY <1>1, <1>2, <1>3, <1>4, <1>5, CarriedOver

\* The tab syncs: from the files page, or from a dialog.
LEMMA SyncSteps ==
  ASSUME IInv, Resync \/ DialogSync
  PROVE  IInv'
<1> USE DEF IInv
<1>1. [Next]_vars
  BY DEF Next
<1>2. /\ UNCHANGED <<commits, bases, draft, report, request, posted>>
      /\ stored' = [compare |-> Latest, gone |-> {}] /\ cached' = Latest
  BY DEF Resync, DialogSync, SyncTab, Synced
<1>3. Latest' = Latest /\ Latest' \in Compares'
  BY <1>1, <1>2, LoadedStays DEF Latest
<1>4. /\ view' \in {"files", "synced"}
      /\ (view' # "files" => view # "files")
      /\ request # NoRequest => view' = view
  <2>1. CASE Resync
    BY <2>1 DEF Resync
  <2>2. CASE DialogSync
    BY <2>2 DEF DialogSync, DialogsHaveADraft
  <2> QED
    BY <2>1, <2>2
<1>5. view' # "files" => draft # NoDraft
  BY <1>4 DEF DialogsHaveADraft
<1>6. cached' \in Compares' /\ stored' \in [compare : Compares', gone : SUBSET Sides]
  BY <1>2, <1>3
<1> QED
  BY <1>1, <1>2, <1>4, <1>5, <1>6, CarriedOver

\* A refused submit, and the dialogs that fail or are closed.
LEMMA RefusedSteps ==
  ASSUME IInv, SubmitHeadMoved \/ SubmitFailed \/ DialogFailed \/ DialogClosed
  PROVE  IInv'
<1> USE DEF IInv
<1>1. [Next]_vars
  BY DEF Next
<1>2. UNCHANGED <<commits, bases, stored, cached, draft, posted>>
  BY DEF SubmitHeadMoved, SubmitFailed, DialogFailed, DialogClosed
<1>3. cached' \in Compares' /\ stored' \in [compare : Compares', gone : SUBSET Sides]
  BY <1>1, <1>2, LoadedStays
<1>4. CASE SubmitHeadMoved
  <2>1. draft # NoDraft /\ request' = NoRequest
    BY <1>4 DEF SubmitHeadMoved, DialogsHaveADraft
  <2>2. CASE request.by = "bar"
    BY <1>1, <1>2, <1>3, <1>4, <2>1, <2>2, CarriedOver DEF SubmitHeadMoved
  <2>3. CASE request.by # "bar"
    <3>1. view = "report" /\ view' = "movedAgain" /\ report' = report
      BY <1>4, <2>3 DEF SubmitHeadMoved, DialogsHaveADraft
    <3>2. report # NoReport
      BY <3>1 DEF TypeOK
    <3> QED
      BY <1>1, <1>2, <1>3, <2>1, <3>1, <3>2, CarriedOver
  <2> QED
    BY <2>2, <2>3
<1>5. CASE SubmitFailed
  <2>1. request' = NoRequest /\ view' = view /\ report' = report
    BY <1>5 DEF SubmitFailed
  <2>2. view' \in {"files", "moved", "movedAgain", "synced", "report"}
        /\ (view' \in {"report", "movedAgain"} => report' # NoReport)
        /\ (view' # "files" => draft # NoDraft)
    BY <2>1 DEF TypeOK, DialogsHaveADraft
  <2> QED
    BY <1>1, <1>2, <1>3, <2>1, <2>2, CarriedOver
<1>6. CASE DialogFailed
  <2>1. /\ view \in {"synced", "movedAgain"} /\ UNCHANGED <<report, request>>
        /\ view' = IF report = NoReport THEN "moved" ELSE "report"
    BY <1>6 DEF DialogFailed, Resting
  <2>2. draft # NoDraft /\ request = NoRequest
    BY <2>1 DEF TypeOK, DialogsHaveADraft
  <2> QED
    BY <1>1, <1>2, <1>3, <2>1, <2>2, CarriedOver
<1>7. CASE DialogClosed
  <2>1. view' = "files" /\ report' = NoReport /\ request' = NoRequest
    BY <1>7 DEF DialogClosed
  <2> QED
    BY <1>1, <1>2, <1>3, <2>1, CarriedOver
<1> QED
  BY <1>4, <1>5, <1>6, <1>7

\* ensureDraft and upsertComment (files.tsx:495-538).
LEMMA WriteStep ==
  ASSUME IInv, NEW k \in Keys, WriteComment(k)
  PROVE  IInv'
<1> USE DEF IInv
<1>1. /\ view = "files" /\ request = NoRequest /\ posted = {}
      /\ UNCHANGED <<commits, bases, stored, cached, view, report, request, posted>>
  BY DEF WriteComment
<1> DEFINE born == IF draft = NoDraft
                   THEN [head |-> cached.head, key |-> <<cached.base, cached.head>>,
                         comments |-> EmptyTable]
                   ELSE draft
<1>2. PICK side \in Sides : \E line \in 1..Len(Shown(side)) : \E start \in {NoStart} \cup 1..(line - 1) :
        draft' = [born EXCEPT !.comments =
                    Upsert(@, k, [side |-> side, line |-> line, start |-> start,
                                  anchor |-> CaptureAnchor(Shown(side), line, start)])]
  BY DEF WriteComment
<1>3. PICK line \in 1..Len(Shown(side)) : \E start \in {NoStart} \cup 1..(line - 1) :
        draft' = [born EXCEPT !.comments =
                    Upsert(@, k, [side |-> side, line |-> line, start |-> start,
                                  anchor |-> CaptureAnchor(Shown(side), line, start)])]
  BY <1>2
<1>4. PICK start \in {NoStart} \cup 1..(line - 1) :
        draft' = [born EXCEPT !.comments =
                    Upsert(@, k, [side |-> side, line |-> line, start |-> start,
                                  anchor |-> CaptureAnchor(Shown(side), line, start)])]
  BY <1>3
<1> DEFINE comment == [side |-> side, line |-> line, start |-> start,
                       anchor |-> CaptureAnchor(Shown(side), line, start)]
<1>5. comment \in Comments
  <2>1. Shown(side) \in Seq(Texts)
    BY SideIsFile DEF Shown, TypeOK
  <2>2. line \in Nat \ {0} /\ start \in Nat /\ start <= line
    BY <2>1 DEF NoStart
  <2> QED
    BY <2>1, <2>2, CapturedComment
<1>6. /\ born = [head |-> born.head, key |-> born.key, comments |-> born.comments]
      /\ born.head \in 1..Len(commits)
      /\ IsTable(born.comments, Keys, Comments)
  <2>1. CASE draft = NoDraft
    BY <2>1 DEF TypeOK, Compares, IsTable, EmptyTable
  <2>2. CASE draft # NoDraft
    BY <2>2 DEF TypeOK, DialogsHaveADraft
  <2> QED
    BY <2>1, <2>2
<1> HIDE DEF born, comment
<1>7. draft' = [head |-> born.head, key |-> born.key, comments |-> Upsert(born.comments, k, comment)]
  BY <1>4, <1>6 DEF comment
<1>8. IsTable(draft'.comments, Keys, Comments)
  BY <1>5, <1>6, <1>7 DEF IsTable, Upsert
<1>9. draft' # NoDraft
  BY <1>7 DEF NoDraft
<1>10. TypeOK'
  BY <1>1, <1>8 DEF TypeOK, Compares
<1>11. DialogsHaveADraft'
  BY <1>1, <1>6, <1>7, <1>9 DEF DialogsHaveADraft
<1>12. ReportIsTrue' /\ ReportCoversDraft' /\ RequestReads' /\ ReconciledCommentsLand'
  BY <1>1 DEF ReportIsTrue, ReportCoversDraft, RequestReads, ReconciledCommentsLand, CompareOf
<1> QED
  BY <1>10, <1>11, <1>12

\* handleSubmit (review-bar.tsx:138-177): nothing is promised of these comments.
LEMMA BarStep ==
  ASSUME IInv, SubmitFromBar
  PROVE  IInv'
<1> USE DEF IInv
<1>1. /\ view = "files" /\ draft # NoDraft
      /\ UNCHANGED <<commits, bases, stored, cached, draft, view, report, posted>>
      /\ request' = [by |-> "bar", base |-> cached.base, head |-> cached.head,
                     comments |-> draft.comments,
                     texts |-> [k \in DOMAIN draft.comments |-> draft.comments[k].anchor.text]]
  BY DEF SubmitFromBar
<1>2. cached.base \in 1..Len(bases) /\ cached.head \in 1..Len(commits)
  BY DEF TypeOK, Compares
<1>3. IsTable(draft.comments, Keys, Comments)
  BY <1>1 DEF TypeOK
<1>4. /\ request'.by = "bar" /\ request'.comments = draft.comments
      /\ request'.base = cached.base /\ request'.head = cached.head
  BY <1>1
<1>5. TypeOK'
  BY <1>1, <1>3, <1>4 DEF TypeOK, Compares
<1>6. DialogsHaveADraft'
  BY <1>1, <1>2, <1>4 DEF DialogsHaveADraft
<1>7. RequestReads'
  BY <1>4 DEF RequestReads
<1>8. ReportIsTrue' /\ ReportCoversDraft' /\ ReconciledCommentsLand'
  BY <1>1 DEF ReportIsTrue, ReportCoversDraft, ReconciledCommentsLand, ReadsAsPromised, CompareOf
<1> QED
  BY <1>5, <1>6, <1>7, <1>8

\* The review is posted: the head it names is the latest, so what was promised
\* of the request's compare holds of what GitHub shows.
LEMMA PostStep ==
  ASSUME IInv, SubmitOk
  PROVE  IInv'
<1> USE DEF IInv
<1>1. /\ request # NoRequest /\ request.head = Len(commits)
      /\ request' = NoRequest /\ draft' = NoDraft /\ view' = "files"
      /\ UNCHANGED <<commits, bases, stored, cached, report>>
      /\ posted' = {[by |-> request.by, head |-> request.head, rebased |-> request.base # Len(bases),
                     comment |-> request.comments[k], text |-> request.texts[k]] :
                    k \in DOMAIN request.comments}
  BY DEF SubmitOk
<1>2. TypeOK'
  BY <1>1 DEF TypeOK, Compares
<1>3. DialogsHaveADraft'
  BY <1>1 DEF DialogsHaveADraft
<1>4. ReportIsTrue' /\ ReportCoversDraft' /\ RequestReads'
  BY <1>1 DEF ReportIsTrue, ReportCoversDraft, RequestReads, CompareOf
<1>5. ReconciledCommentsLand'
  <2>1. SUFFICES ASSUME NEW k \in DOMAIN request.comments, request.by = "apply",
                        NEW p, p = [by |-> request.by, head |-> request.head,
                                    rebased |-> request.base # Len(bases),
                                    comment |-> request.comments[k], text |-> request.texts[k]]
                 PROVE  ReadsAsPromised(p)'
    BY <1>1 DEF ReconciledCommentsLand
  <2>2. \/ p.text = NoText
        \/ Reads(IF p.comment.side = "LEFT" THEN bases[request.base].lines
                 ELSE commits[p.head].lines, p.comment.line, p.text)
    BY <1>1, <2>1 DEF RequestReads, SideOf
  <2>3. ~p.rebased => request.base = Len(bases)
    BY <2>1
  <2> QED
    BY <1>1, <2>2, <2>3 DEF ReadsAsPromised
<1> QED
  BY <1>2, <1>3, <1>4, <1>5

\* reconcileDraft (reconcile.ts:72-179): the verdicts of a snapshot that has
\* every blob the comments depend on.
LEMMA ReconcileStep ==
  ASSUME IInv, DialogReconcile
  PROVE  IInv'
<1> USE DEF IInv
<1>1. /\ view = "synced" /\ ~MissesBlob /\ view' = "report"
      /\ UNCHANGED <<commits, bases, stored, cached, draft, request, posted>>
      /\ report' = [head |-> stored.compare.head, compare |-> stored.compare,
                    results |-> [k \in DOMAIN draft.comments |->
                                   ClassifyPendingComment(draft.comments[k], Readable)]]
  BY DEF DialogReconcile, ReconcileDraft
<1>2. draft # NoDraft /\ request = NoRequest
  BY <1>1 DEF DialogsHaveADraft
<1>3. IsTable(draft.comments, Keys, Comments) /\ stored.compare \in Compares
  BY <1>2 DEF TypeOK
<1>4. /\ report'.head = stored.compare.head /\ report'.compare = stored.compare
      /\ DOMAIN report'.results = DOMAIN draft.comments
      /\ report' # NoReport
  BY <1>1 DEF NoReport
<1>5. ASSUME NEW k \in DOMAIN draft.comments
      PROVE  /\ report'.results[k] =
                  ClassifyPendingComment(draft.comments[k], CompareOf(stored.compare))
             /\ report'.results[k] \in Results
             /\ report'.results[k].comment = draft.comments[k]
  <2>1. draft.comments[k] \in Comments /\ draft.comments[k].side \in Sides
    BY <1>3 DEF IsTable, Comments
  <2>2. report'.results[k] = ClassifyPendingComment(draft.comments[k], Readable)
    BY <1>1
  <2>3. report'.results[k] = ClassifyPendingComment(draft.comments[k], CompareOf(stored.compare))
    BY <1>1, <2>1, <2>2, PreflightSeesAll
  <2> QED
    BY <1>3, <2>1, <2>3, VerdictIsSound
<1>6. IsTable(report'.results, Keys, Results)
  BY <1>1, <1>3, <1>4, <1>5 DEF IsTable
<1>7. TypeOK'
  BY <1>1, <1>2, <1>3, <1>4, <1>6 DEF TypeOK, Compares
<1>8. DialogsHaveADraft'
  BY <1>1, <1>2 DEF DialogsHaveADraft
<1>9. ReportIsTrue'
  <2>1. CompareOf(stored.compare)' = CompareOf(stored.compare)
    BY <1>1 DEF CompareOf
  <2> QED
    BY <1>1, <1>4, <1>5, <2>1 DEF ReportIsTrue
<1>10. ReportCoversDraft'
  BY <1>1, <1>4, <1>5 DEF ReportCoversDraft
<1>11. RequestReads' /\ ReconciledCommentsLand'
  BY <1>1, <1>2 DEF RequestReads, ReconciledCommentsLand, ReadsAsPromised
<1> QED
  BY <1>7, <1>8, <1>9, <1>10, <1>11

-----------------------------------------------------------------------------
(* Apply. *)

\* What may be decided on a row (DecisionActions, reconcile-dialog.tsx:518-628).
LEMMA DecisionCases ==
  ASSUME NEW r \in Results, NEW d \in Decisions(r)
  PROVE  \/ r.kind = "clean" /\ d.kind = "keep"
         \/ r.kind # "clean" /\ d.kind = "drop"
         \/ r.kind = "drifted" /\ d.kind = "accept" /\ d.line = r.line
         \/ r.kind # "clean" /\ d.kind = "reanchor" /\ d.line \in 1..Len(Shown(r.comment.side))
<1>1. CASE r.kind = "clean"
  BY <1>1 DEF Decisions
<1>2. CASE r.kind = "drifted"
  BY <1>2 DEF Decisions
<1>3. CASE r.kind = "lost"
  BY <1>3 DEF Decisions
<1> QED
  BY <1>1, <1>2, <1>3 DEF Results

\* A re-anchored comment is a comment, on the line decided on.
LEMMA ReanchoredComment ==
  ASSUME TypeOK, NEW comment \in Comments, NEW r \in Results, NEW d, d.line \in Nat \ {0},
         d.kind = "accept" => d.line = r.line
  PROVE  /\ Reanchored(comment, r, d) \in Comments
         /\ Reanchored(comment, r, d).side = comment.side
         /\ Reanchored(comment, r, d).line = d.line
         /\ Reanchored(comment, r, d).anchor.text = TextAt(Shown(comment.side), d.line)
<1> DEFINE start == NewStart(comment, r, d)
<1>1. /\ comment = [side |-> comment.side, line |-> comment.line,
                    start |-> comment.start, anchor |-> comment.anchor]
      /\ comment.side \in Sides /\ comment.line \in Nat \ {0}
      /\ comment.start \in Nat /\ comment.start <= comment.line
  BY DEF Comments
<1>2. start \in Nat /\ start <= d.line
  <2>1. CASE d.kind = "accept"
    BY <2>1 DEF Results, NewStart
  <2>2. CASE d.kind # "accept" /\ comment.start = NoStart
    BY <2>2 DEF NoStart, NewStart
  <2>3. CASE d.kind # "accept" /\ comment.start # NoStart
    <3>1. start = Larger(1, comment.start + (d.line - comment.line))
      BY <2>3 DEF NewStart
    <3> QED
      BY <1>1, <3>1 DEF Larger
  <2> QED
    BY <2>1, <2>2, <2>3
<1> HIDE DEF start
<1>3. Reanchored(comment, r, d)
        = [side |-> comment.side, line |-> d.line, start |-> start,
           anchor |-> CaptureAnchor(Shown(comment.side), d.line, start)]
  BY <1>1 DEF Reanchored, start
<1>4. Shown(comment.side) \in Seq(Texts)
  BY SideIsFile DEF Shown, TypeOK
<1>5. Reanchored(comment, r, d) \in Comments
  BY <1>1, <1>2, <1>3, <1>4, CapturedComment
<1>6. CaptureAnchor(Shown(comment.side), d.line, start).text = TextAt(Shown(comment.side), d.line)
  BY DEF CaptureAnchor
<1> QED
  BY <1>3, <1>5, <1>6

\* One row that Apply leaves in the draft.
LEMMA AppliedRow ==
  ASSUME IInv, view = "report", draft # NoDraft, NEW decisions,
         \A k \in DOMAIN report.results : decisions[k] \in Decisions(report.results[k]),
         NEW k \in DOMAIN Updated(draft.comments, report.results, decisions),
         NEW c, c = Updated(draft.comments, report.results, decisions)[k],
         NEW text, text = Promised(draft.comments, report.results, decisions)[k]
  PROVE  /\ k \in DOMAIN draft.comments /\ k \in DOMAIN report.results
         /\ c \in Comments
         /\ c.side = report.results[k].comment.side
         /\ report.results[k].kind = "clean" => c = report.results[k].comment
         /\ text = NoText \/ Reads(SideOf(report.compare, c.side), c.line, text)
         /\ cached = report.compare =>
              Reads(SideOf(report.compare, c.side), c.line, c.anchor.text)
<1> USE DEF IInv
<1> DEFINE comment == draft.comments[k]
           r == report.results[k]
           d == decisions[k]
<1>1. /\ k \in DOMAIN draft.comments
      /\ k \in DOMAIN report.results => d.kind # "drop"
      /\ c = IF k \notin DOMAIN report.results \/ d.kind = "keep" THEN comment
             ELSE Reanchored(comment, r, d)
  BY DEF Updated
<1>2. report # NoReport
  BY DEF TypeOK
<1>3. /\ k \in DOMAIN report.results
      /\ r.comment.side = comment.side
      /\ r.kind = "clean" => r.comment = comment
  BY <1>1, <1>2 DEF ReportCoversDraft
<1>4. /\ comment \in Comments /\ r \in Results /\ report.compare \in Compares
  BY <1>1, <1>2, <1>3 DEF TypeOK, IsTable
<1>5. r.comment \in Comments /\ r.comment.side \in Sides
  BY <1>4 DEF Results, Comments
<1>6. r = ClassifyPendingComment(r.comment, CompareOf(report.compare))
  BY <1>2, <1>3 DEF ReportIsTrue
<1>7. d \in Decisions(r)
  BY <1>3
<1>8. text = IF d.kind \in {"keep", "accept"} THEN r.comment.anchor.text ELSE NoText
  BY <1>1, <1>3 DEF Promised
<1> HIDE DEF comment, r, d
<1>9. /\ r.kind = "clean" => r.line = r.comment.line
      /\ r.kind # "lost" =>
           /\ Reads(SelectAnchorBlob(CompareOf(report.compare), r.comment.side),
                    r.line, r.comment.anchor.text)
           /\ Reads(SideOf(report.compare, r.comment.side), r.line, r.comment.anchor.text)
  BY <1>4, <1>5, <1>6, VerdictIsSound
<1>10. CASE r.kind = "clean" /\ d.kind = "keep"
  BY <1>1, <1>3, <1>4, <1>8, <1>9, <1>10 DEF r
<1>11. ASSUME d.kind # "keep", r.kind # "clean", d.line \in Nat \ {0},
              d.kind = "accept" => d.line = r.line,
              d.line \in 1..Len(Shown(comment.side))
                \/ d.line \in 1..Len(SelectAnchorBlob(CompareOf(report.compare), comment.side)),
              text = NoText \/ Reads(SideOf(report.compare, comment.side), d.line, text)
       PROVE  /\ c \in Comments
              /\ c.side = r.comment.side
              /\ text = NoText \/ Reads(SideOf(report.compare, c.side), c.line, text)
              /\ cached = report.compare =>
                   Reads(SideOf(report.compare, c.side), c.line, c.anchor.text)
  <2>1. c = Reanchored(comment, r, d)
    BY <1>1, <1>3, <1>11
  <2>2. /\ c \in Comments /\ c.side = comment.side /\ c.line = d.line
        /\ c.anchor.text = TextAt(Shown(comment.side), d.line)
    BY <1>4, <1>11, <2>1, ReanchoredComment
  <2>3. ASSUME cached = report.compare
        PROVE  Reads(SideOf(report.compare, c.side), c.line, c.anchor.text)
    <3>1. Shown(comment.side) = SelectAnchorBlob(CompareOf(report.compare), comment.side)
      BY <2>3 DEF Shown
    <3>2. Reads(SelectAnchorBlob(CompareOf(report.compare), c.side), c.line, c.anchor.text)
      BY <1>11, <2>2, <3>1 DEF Reads, TextAt
    <3> QED
      BY <1>3, <1>4, <1>5, <2>2, <3>2, IndexReadsFile
  <2> QED
    BY <1>3, <1>11, <2>2, <2>3
<1>12. CASE r.kind = "drifted" /\ d.kind = "accept" /\ d.line = r.line
  <2>1. d.line \in Nat \ {0}
    BY <1>4, <1>12 DEF Results
  <2>2. d.line \in 1..Len(SelectAnchorBlob(CompareOf(report.compare), comment.side))
    BY <1>3, <1>9, <1>12 DEF Reads
  <2>3. Reads(SideOf(report.compare, comment.side), d.line, text)
    BY <1>3, <1>8, <1>9, <1>12
  <2> QED
    BY <1>1, <1>3, <1>11, <1>12, <2>1, <2>2, <2>3 DEF r
<1>13. CASE r.kind # "clean" /\ d.kind = "reanchor" /\ d.line \in 1..Len(Shown(r.comment.side))
  <2>1. d.line \in Nat \ {0}
    <3>1. Shown(r.comment.side) \in Seq(Texts)
      BY SideIsFile DEF Shown, TypeOK
    <3> QED
      BY <1>13, <3>1
  <2>2. text = NoText
    BY <1>8, <1>13
  <2> QED
    BY <1>1, <1>3, <1>11, <1>13, <2>1, <2>2 DEF r
<1> QED
  BY <1>1, <1>3, <1>4, <1>7, <1>10, <1>12, <1>13, DecisionCases DEF d

\* planReconcileApply and the submit it feeds (reconcile-dialog.tsx:154-214).
LEMMA ApplyStep ==
  ASSUME IInv, Apply
  PROVE  /\ IInv'
         /\ cached = report.compare =>
              /\ draft'.key = <<report.compare.base, report.compare.head>>
              /\ draft'.head = report.head
              /\ \A k \in DOMAIN draft'.comments :
                   Reads(SideOf(report.compare, draft'.comments[k].side),
                         draft'.comments[k].line, draft'.comments[k].anchor.text)
<1> USE DEF IInv
<1>1. /\ view = "report" /\ request = NoRequest /\ draft # NoDraft
      /\ UNCHANGED <<commits, bases, stored, cached, view, report, posted>>
  BY DEF Apply
<1>2. PICK decisions :
        /\ \A k \in DOMAIN report.results : decisions[k] \in Decisions(report.results[k])
        /\ draft' = [head |-> IF Coherent THEN report.head ELSE draft.head,
                     key  |-> IF Coherent THEN <<cached.base, cached.head>> ELSE draft.key,
                     comments |-> Updated(draft.comments, report.results, decisions)]
        /\ request' = [by |-> "apply", base |-> report.compare.base, head |-> ExpectedHead,
                       comments |-> Updated(draft.comments, report.results, decisions),
                       texts |-> Promised(draft.comments, report.results, decisions)]
  BY DEF Apply
<1> DEFINE updated == Updated(draft.comments, report.results, decisions)
           texts == Promised(draft.comments, report.results, decisions)
<1>3. ASSUME NEW k \in DOMAIN updated
      PROVE  /\ k \in DOMAIN draft.comments /\ k \in DOMAIN report.results
             /\ updated[k] \in Comments
             /\ updated[k].side = report.results[k].comment.side
             /\ report.results[k].kind = "clean" => updated[k] = report.results[k].comment
             /\ texts[k] = NoText
                  \/ Reads(SideOf(report.compare, updated[k].side), updated[k].line, texts[k])
             /\ cached = report.compare =>
                  Reads(SideOf(report.compare, updated[k].side), updated[k].line,
                        updated[k].anchor.text)
  BY <1>1, <1>2, <1>3, AppliedRow
<1>4. updated = [k \in DOMAIN updated |-> updated[k]]
  BY DEF Updated
<1> HIDE DEF updated, texts
<1>5. /\ report # NoReport /\ report.compare \in Compares /\ report.head = report.compare.head
  BY <1>1 DEF TypeOK
<1>6. /\ report.compare = [base |-> report.compare.base, head |-> report.compare.head]
      /\ report.compare.base \in 1..Len(bases) /\ report.compare.head \in 1..Len(commits)
  BY <1>5 DEF Compares
<1>7. IsTable(updated, Keys, Comments)
  <2>1. DOMAIN draft.comments \subseteq Keys
    BY <1>1 DEF TypeOK, IsTable
  <2> QED
    BY <1>3, <1>4, <2>1 DEF IsTable
<1>8. /\ draft' = [head |-> draft'.head, key |-> draft'.key, comments |-> draft'.comments]
      /\ draft'.comments = updated
      /\ draft'.head = IF Coherent THEN report.head ELSE draft.head
      /\ draft'.key = IF Coherent THEN <<cached.base, cached.head>> ELSE draft.key
      /\ draft' # NoDraft
  BY <1>2 DEF updated, NoDraft
<1>9. /\ request'.by = "apply" /\ request'.comments = updated /\ request'.texts = texts
      /\ request'.base = report.compare.base /\ request'.head = report.head
  BY <1>2 DEF updated, texts, ExpectedHead
<1>10. TypeOK'
  BY <1>1, <1>7, <1>8, <1>9 DEF TypeOK, Compares
<1>11. DialogsHaveADraft'
  BY <1>1, <1>5, <1>6, <1>8, <1>9 DEF DialogsHaveADraft
<1>12. ReportIsTrue'
  <2>1. CompareOf(report.compare)' = CompareOf(report.compare)
    BY <1>1 DEF CompareOf
  <2> QED
    BY <1>1, <2>1 DEF ReportIsTrue
<1>13. ReportCoversDraft'
  BY <1>1, <1>3, <1>8 DEF ReportCoversDraft
<1>14. RequestReads'
  <2>1. ASSUME NEW k \in DOMAIN updated
        PROVE  texts[k] = NoText
                 \/ Reads(IF updated[k].side = "LEFT" THEN bases'[request'.base].lines
                          ELSE commits'[request'.head].lines,
                          updated[k].line, texts[k])
    BY <1>1, <1>3, <1>5, <1>9, <2>1 DEF SideOf
  <2> QED
    BY <1>9, <2>1 DEF RequestReads, SideOf
<1>15. ReconciledCommentsLand'
  BY <1>1 DEF ReconciledCommentsLand, ReadsAsPromised
<1>16. cached = report.compare =>
         /\ draft'.key = <<report.compare.base, report.compare.head>>
         /\ draft'.head = report.head
  BY <1>5, <1>8 DEF Coherent
<1> QED
  BY <1>3, <1>8, <1>10, <1>11, <1>12, <1>13, <1>14, <1>15, <1>16

-----------------------------------------------------------------------------
(* The theorems. *)

LEMMA InitHolds == Init => IInv
<1> SUFFICES ASSUME Init PROVE IInv
  OBVIOUS
<1>1. PICK head \in Heads : commits = <<head>>
  BY DEF Init
<1>2. PICK tree \in Trees : bases = <<tree>>
  BY DEF Init
<1>3. commits \in Seq(Heads) /\ bases \in Seq(Trees) /\ Len(commits) = 1 /\ Len(bases) = 1
  BY <1>1, <1>2
<1>4. /\ cached = [base |-> Len(bases), head |-> Len(commits)]
      /\ stored = [compare |-> cached, gone |-> {}]
      /\ draft = NoDraft /\ view = "files" /\ report = NoReport
      /\ request = NoRequest /\ posted = {}
  BY DEF Init, Latest
<1>5. TypeOK
  BY <1>3, <1>4 DEF TypeOK, Compares
<1> QED
  BY <1>4, <1>5 DEF IInv, DialogsHaveADraft, ReportIsTrue, ReportCoversDraft, RequestReads,
     ReconciledCommentsLand

LEMMA NextKeeps == IInv /\ [Next]_vars => IInv'
<1> SUFFICES ASSUME IInv, [Next]_vars PROVE IInv'
  OBVIOUS
<1>1. CASE Push \/ MoveBase \/ OtherTabSync \/ LoseBlob
  BY <1>1, OutsideSteps
<1>2. CASE Resync \/ DialogSync
  BY <1>2, SyncSteps
<1>3. CASE SubmitHeadMoved \/ SubmitFailed \/ DialogFailed \/ DialogClosed
  BY <1>3, RefusedSteps
<1>4. CASE \E k \in Keys : WriteComment(k)
  BY <1>4, WriteStep
<1>5. CASE SubmitFromBar
  BY <1>5, BarStep
<1>6. CASE SubmitOk
  BY <1>6, PostStep
<1>7. CASE DialogReconcile
  BY <1>7, ReconcileStep
<1>8. CASE Apply
  BY <1>8, ApplyStep
<1>9. CASE UNCHANGED vars
  BY <1>9 DEF vars, IInv, TypeOK, Compares, DialogsHaveADraft, ReportIsTrue, ReportCoversDraft,
     RequestReads, ReconciledCommentsLand, ReadsAsPromised, CompareOf, SideOf
<1> QED
  BY <1>1, <1>2, <1>3, <1>4, <1>5, <1>6, <1>7, <1>8, <1>9 DEF Next

LEMMA IInvHolds == Spec => []IInv
BY InitHolds, NextKeeps, PTL DEF Spec

\* Every position in a draft, a report or a request is a line, or a span that
\* ends in it.
THEOREM PositionsAreLines == Spec => []TypeOK
<1>1. IInv => TypeOK
  BY DEF IInv
<1> QED
  BY <1>1, IInvHolds, PTL

\* A comment that went through reconcile and was kept or accepted is posted on
\* the text it was written about (reconcile-dialog.tsx:183).
THEOREM ReconciledLand == Spec => []ReconciledCommentsLand
<1>1. IInv => ReconciledCommentsLand
  BY DEF IInv
<1> QED
  BY <1>1, IInvHolds, PTL

\* A row whose neighbourhood has not moved is clean (anchor.ts:290-302).
THEOREM UntouchedStaysClean == Spec => []UntouchedIsClean
<1>1. IInv => UntouchedIsClean
  <2> SUFFICES ASSUME IInv, report # NoReport, NEW k \in DOMAIN report.results,
                      NEW c, c = report.results[k].comment,
                      NEW lines, lines = SelectAnchorBlob(CompareOf(report.compare), c.side),
                      c.line <= Len(lines), c.anchor = CaptureAnchor(lines, c.line, c.start),
                      ResolveFilePresence(CompareOf(report.compare), c.side) = "present"
               PROVE  report.results[k].kind = "clean"
    BY DEF UntouchedIsClean
  <2>1. report.compare \in Compares /\ report.results[k] \in Results
    BY DEF IInv, TypeOK, IsTable
  <2>2. c.line \in Nat \ {0}
    BY <2>1 DEF Results, Comments
  <2>3. lines \in Seq(Texts)
    BY <2>1, SideIsFile DEF IInv
  <2>4. StaysClean(c, lines)
    BY <2>2, <2>3, CapturedIsClean
  <2>5. report.results[k] = ClassifyAnchor(c, lines, "present")
    BY DEF IInv, ReportIsTrue, ClassifyPendingComment
  <2>6. report.results[k] = Clean(c)
    BY <2>4, <2>5 DEF ClassifyAnchor
  <2> QED
    BY <2>6 DEF Clean
<1> QED
  BY <1>1, IInvHolds, PTL

\* A row says that its line is gone only when no line of the window reads like
\* it (reconcile.ts:105-133, anchor.ts:304-322).
THEOREM LostIsGone == Spec => []LostMeansGone
<1>1. IInv => LostMeansGone
  <2> SUFFICES ASSUME IInv, report # NoReport, NEW k \in DOMAIN report.results,
                      NEW r, r = report.results[k], r.reason = "line-deleted",
                      r.comment.side = "RIGHT" \/ bases[report.compare.base].listed
               PROVE  Candidates(SideOf(report.compare, r.comment.side),
                                 r.comment.anchor.text, r.comment.line) = {}
    BY DEF LostMeansGone
  <2>1. TypeOK /\ report.compare \in Compares /\ r.comment \in Comments
    BY DEF IInv, TypeOK, IsTable, Results
  <2>2. r = ClassifyPendingComment(r.comment, CompareOf(report.compare))
    BY DEF IInv, ReportIsTrue
  <2> QED
    BY <2>1, <2>2, VerdictIsSound
<1> QED
  BY <1>1, IInvHolds, PTL

\* What Apply leaves in the draft reads as its anchors say on the compare the
\* draft then names (reconcile-dialog.tsx:173-179).
THEOREM AppliedDraftCoheres == Spec => AppliedDraftIsCoherent
<1>1. ASSUME IInv, [Next]_vars, Applies, cached = report.compare
      PROVE  /\ draft'.key = <<report.compare.base, report.compare.head>>
             /\ draft'.head = report.head
             /\ \A k \in Decided :
                  LET c == draft'.comments[k]
                  IN  Reads(SideOf(report.compare, c.side), c.line, c.anchor.text)
  <2>1. Apply
    BY <1>1 DEF Applies, Next, vars, Push, MoveBase, OtherTabSync, LoseBlob, tab, Resync,
       WriteComment, SubmitFromBar, SubmitOk, SubmitHeadMoved, SubmitFailed, DialogSync,
       DialogReconcile, DialogFailed, DialogClosed
  <2> QED
    BY <1>1, <2>1, ApplyStep DEF Decided
<1> QED
  BY <1>1, IInvHolds, PTL DEF Spec, AppliedDraftIsCoherent

=============================================================================
