------------------------------- MODULE DiffRows -------------------------------
(***************************************************************************)
(* How a file's patch becomes the rows the Files tab draws.  A patch holds *)
(* the changed lines and a little around them; what lies between its hunks *)
(* is never sent, and is worked out from the hunks' coordinates alone: the *)
(* unchanged lines the reader may uncover come from the head file's text.  *)
(*                                                                         *)
(* A line of text is a value.  Word-level emphasis inside a pair of lines  *)
(* is left out: it colours a row and changes none.                         *)
(***************************************************************************)
EXTENDS Integers, SequencesExt

CONSTANTS
  None,    \* no number, no line, no text
  Around,  \* lines of context git prints around a change
  Step     \* GAP_STEP: lines one press uncovers at an edge of a gap

ASSUME RowsAssumption == Around \in Nat /\ Step \in Nat \ {0}

MinOf(a, b) == IF a < b THEN a ELSE b
MaxOf(a, b) == IF a > b THEN a ELSE b

----------------------------------------------------------------------------
(* What git does.  A script is the alignment of a file's two versions: the *)
(* sequence of their lines, each kept, deleted or added.                   *)
TextsOf(lines) == FoldLeft(LAMBDA texts, l : Append(texts, l.text), <<>>, lines)
BaseFile(script) == TextsOf(SelectSeq(script, LAMBDA l : l.kind # "add"))
HeadFile(script) == TextsOf(SelectSeq(script, LAMBDA l : l.kind # "del"))

Printed(script) ==
  {i \in DOMAIN script : \E j \in DOMAIN script :
     script[j].kind # "context" /\ i - j \in (-Around)..Around}
HunkAt(script, a, b) ==
  LET Before(kind) == Len(SelectSeq(SubSeq(script, 1, a - 1), LAMBDA l : l.kind # kind))
      Within(kind) == Len(SelectSeq(SubSeq(script, a, b), LAMBDA l : l.kind # kind))
      Start(kind) == Before(kind) + (IF Within(kind) = 0 THEN 0 ELSE 1)
  IN [oldStart |-> Start("add"), oldLines |-> Within("add"),
      newStart |-> Start("del"), newLines |-> Within("del"),
      raw |-> SubSeq(script, a, b)]
PatchOf(script) ==
  LET printed == Printed(script)
      spans == {p \in printed \X printed :
                  p[1]..p[2] \subseteq printed /\ {p[1] - 1, p[2] + 1} \cap printed = {}}
      inOrder == SetToSortSeq({p \in spans : p[1] <= p[2]}, LAMBDA p, q : p[1] < q[1])
  IN [k \in DOMAIN inOrder |-> HunkAt(script, inOrder[k][1], inOrder[k][2])]

----------------------------------------------------------------------------
(* parseHunks: two cursors number the lines of a hunk.                     *)
Line(kind, old, new, text) == [kind |-> kind, old |-> old, new |-> new, text |-> text]
ParseHunk(hunk) ==
  LET Read(seen, l) ==
        LET old == IF l.kind = "add" THEN None ELSE seen.old
            new == IF l.kind = "del" THEN None ELSE seen.new
        IN [old |-> IF old = None THEN seen.old ELSE seen.old + 1,
            new |-> IF new = None THEN seen.new ELSE seen.new + 1,
            lines |-> Append(seen.lines, Line(l.kind, old, new, l.text))]
  IN [hunk EXCEPT !.raw =
        FoldLeft(Read, [old |-> hunk.oldStart, new |-> hunk.newStart, lines |-> <<>>],
                 hunk.raw).lines]
ParseHunks(patch) == FoldLeft(LAMBDA hunks, h : Append(hunks, ParseHunk(h)), <<>>, patch)

(* mergeExpanded: ranges that overlap or touch become one.                 *)
Range_(from, to) == [from |-> from, to |-> to]
MergeExpanded(ranges, add) ==
  LET incoming == Range_(MinOf(add.from, add.to), MaxOf(add.from, add.to))
      sorted == SortSeq(Append(ranges, incoming),
                        LAMBDA a, b : a.from < b.from \/ (a.from = b.from /\ a.to < b.to))
      Absorb(out, r) ==
        IF out # <<>> /\ r.from <= Last(out).to + 1
          THEN [out EXCEPT ![Len(out)].to = MaxOf(@, r.to)]
          ELSE Append(out, r)
  IN FoldLeft(Absorb, <<>>, sorted)

(* Rows.  A code row holds the line drawn on the left and the one on the   *)
(* right; a unified row of an unchanged line has it on both, one of a      *)
(* changed line on its own side.                                           *)
Gap(from, to, delta) ==
  [type |-> "gap", id |-> <<"gap", from>>, from |-> from, to |-> to, delta |-> delta]
GapIf(from, to, delta) == IF from <= to THEN <<Gap(from, to, delta)>> ELSE <<>>
Code(id, left, right) == [type |-> "code", id |-> id, left |-> left, right |-> right]
Mirrored(mode, line) ==
  Code(<<IF mode = "split" THEN "R" ELSE "L", line.new>>, line, line)

(* emitGapRegion: the lines of a region that an expanded range covers      *)
(* become rows, what is left of it stays a gap; without the head file's    *)
(* text there is nothing to uncover.                                       *)
(* Fault: a range that begins above the region is taken from its start.    *)
EntryAtTheRange(range, cursor) == range.from
Entry(range, cursor) == MaxOf(range.from, cursor)
Uncovered(mode, delta, text, n) ==
  Mirrored(mode, Line("context", n + delta, n, IF n \in DOMAIN text THEN text[n] ELSE None))
Covered(region, done) == done.rows \o GapIf(done.cursor, region.to, region.delta)
EmitGapRegion(region, expanded, text, mode) ==
  LET Reveal(done, r) ==
        LET from == Entry(r, done.cursor)  to == MinOf(r.to, region.to)
        IN IF r.to < done.cursor \/ r.from > region.to \/ to < from THEN done
           ELSE [cursor |-> to + 1,
                 rows |-> done.rows \o GapIf(done.cursor, from - 1, region.delta)
                   \o [k \in 1..(to - from + 1) |->
                         Uncovered(mode, region.delta, text, from + k - 1)]]
  IN IF region.to < region.from THEN <<>>
     ELSE IF text = None THEN <<Gap(region.from, region.to, region.delta)>>
     ELSE Covered(region, FoldLeft(Reveal, [cursor |-> region.from, rows |-> <<>>], expanded))

(* emitUnifiedLines                                                        *)
EmitUnifiedLines(lines) ==
  [k \in DOMAIN lines |->
     LET l == lines[k]
     IN Code(IF l.new # None THEN <<"L", l.new>> ELSE <<"O", l.old>>,
             IF l.kind = "add" THEN None ELSE l, IF l.kind = "del" THEN None ELSE l)]

(* emitSplitLines: in a run of changed lines the k-th deleted one sits     *)
(* beside the k-th added one.                                              *)
FlushedRows(run) ==
  LET At(side, k) == IF k \in DOMAIN side THEN side[k] ELSE None
      Row(k) == LET left == At(run.dels, k)  right == At(run.adds, k)
                IN Code(IF right # None THEN <<"R", right.new>> ELSE <<"O", left.old>>,
                        left, right)
  IN run.rows \o [k \in 1..MaxOf(Len(run.dels), Len(run.adds)) |-> Row(k)]
EmitSplitLines(lines) ==
  LET Take(run, l) ==
        CASE l.kind = "del" -> [run EXCEPT !.dels = Append(@, l)]
          [] l.kind = "add" -> [run EXCEPT !.adds = Append(@, l)]
          [] l.kind = "context" ->
               [dels |-> <<>>, adds |-> <<>>, rows |-> Append(FlushedRows(run), Mirrored("split", l))]
  IN FlushedRows(FoldLeft(Take, [dels |-> <<>>, adds |-> <<>>, rows |-> <<>>], lines))

EmitLines(mode, lines) ==
  IF mode = "split" THEN EmitSplitLines(lines) ELSE EmitUnifiedLines(lines)

(* buildRows: a region before each hunk, one after the last where the head *)
(* file's length is known.  A side of a hunk with no lines starts at the   *)
(* line before the change.                                                 *)
Past(start, lines) == IF lines > 0 THEN start + lines ELSE start + 1
BuildRows(model, mode, expanded, text) ==
  LET Region(from, to, delta) ==
        IF model.status = "added" THEN <<>>
        ELSE EmitGapRegion([from |-> from, to |-> to, delta |-> delta], expanded, text, mode)
      Emit(done, hunk) ==
        [old |-> Past(hunk.oldStart, hunk.oldLines),
         new |-> Past(hunk.newStart, hunk.newLines),
         index |-> done.index + 1,
         rows |-> done.rows
           \o Region(done.new, IF hunk.newLines > 0 THEN hunk.newStart - 1 ELSE hunk.newStart,
                     done.old - done.new)
           \o <<[type |-> "hunk", id |-> <<"hunk", done.index>>]>>
           \o EmitLines(mode, hunk.raw)]
      Ended(all) == all.rows \o
        (IF model.status = "removed" \/ text = None THEN <<>>
         ELSE Region(all.new, Len(text), all.old - all.new))
  IN Ended(FoldLeft(Emit, [old |-> 1, new |-> 1, index |-> 0, rows |-> <<>>], model.hunks))

(* diffRowMatchesLine and findAnchorRowIndex: the row a comment hangs      *)
(* under, 0 where no row shows its line.  Ids are tried first: a row of    *)
(* the other side may carry the number in its id.                          *)
RowMatches(row, side, line) ==
  /\ row.type = "code"
  /\ IF side = "RIGHT" THEN row.right # None /\ row.right.new = line
                       ELSE row.left # None /\ row.left.old = line
FindAnchorRowIndex(rows, side, line) ==
  LET Named(row) == row.type = "code" /\
        row.id \in (IF side = "RIGHT" THEN {<<"L", line>>, <<"R", line>>} ELSE {<<"O", line>>})
      Or(named) == IF named # 0 THEN named
                   ELSE SelectInSeq(rows, LAMBDA row : RowMatches(row, side, line))
  IN Or(SelectInSeq(rows, Named))

(* lineTextFromModel and firstChangedLine                                  *)
LinesOf(model) == FlattenSeq([k \in DOMAIN model.hunks |-> model.hunks[k].raw])
NumberOn(side, l) == IF side = "RIGHT" THEN l.new ELSE l.old
LineTextFromModel(model, side, line) ==
  LET lines == LinesOf(model)
      k == SelectInSeq(lines, LAMBDA l : NumberOn(side, l) = line)
  IN IF k = 0 THEN None ELSE lines[k].text
FirstChangedLine(model) ==
  LET lines == LinesOf(model)
      k == SelectInSeq(lines, LAMBDA l : l.kind # "context")
  IN IF k = 0 THEN None
     ELSE IF lines[k].kind = "add" THEN [side |-> "RIGHT", line |-> lines[k].new]
     ELSE [side |-> "LEFT", line |-> lines[k].old]
=============================================================================
