------------------------------ MODULE FilesView ------------------------------
(***************************************************************************)
(* The Files tab over one file of a review: the rows it draws, the gaps    *)
(* and folds the reader opens, the selection in the gutter, the composer   *)
(* and the comments that leave it for the draft.  Blobs arrive one by one, *)
(* and a sync may put another snapshot under all of it: nothing the tab    *)
(* keeps is told.                                                          *)
(*                                                                         *)
(* A history is the sequence of snapshots that syncs will show.  An effect *)
(* that runs before the next event is part of the action that caused it.   *)
(***************************************************************************)
EXTENDS DiffRows

CONSTANTS
  Histories,    \* the histories considered: for each, the file as synced, in order
  Texts,        \* bound: for those the reader comments on, what may be typed
  Reopens,      \* may the composer be opened again where it is open?
  MaxComments,  \* bound: comments ever added to the draft
  MaxTurns      \* bound: how often one who comments changes the view

ASSUME FilesAssumption ==
  /\ DOMAIN Texts \subseteq DOMAIN Histories /\ \A h \in DOMAIN Texts : None \notin Texts[h]
  /\ Reopens \in BOOLEAN
  /\ {MaxComments, MaxTurns} \subseteq Nat
  /\ \A h \in DOMAIN Histories : \A s \in ToSet(Histories[h]) :
       s.status \in {"added", "modified", "removed", "renamed"}

VARIABLES
  history,   \* which of the histories it is
  now,       \* which of them is shown
  fetched,   \* the file versions whose blob has arrived
  mode,      \* diffMode
  expanded,  \* expandedByPath: uncovered ranges, in head-file numbers
  override,  \* collapseOverride: None, or folded or unfolded by hand
  outdatedOpen, \* outdatedOpenByPath
  isViewed,  \* is the file marked viewed?
  turns,     \* history: how often the view was changed beside commenting
  selection, \* lines selected in the gutter; history: on which snapshot
  dragging,  \* is the button held down?
  composer,  \* the composer: its anchor, None while it is closed, and its text;
             \* history: where its lines were chosen, and their text then
  canceled,  \* canceledTextRef: texts of composers closed or displaced
  draft,     \* the snapshot it is said to be about, if there is one, and its comments
  made,      \* comments ever added
  typed      \* history: texts typed and not taken back by hand

view == <<mode, expanded, override, outdatedOpen, isViewed, turns>>
writing == <<selection, dragging, composer, canceled>>
filesVars == <<history, now, fetched, view, writing, draft, made, typed>>

(* What the tab has of a snapshot's file: what GitHub says of it, its two  *)
(* versions and its parsed patch (models).  Git and GitHub omit the patch  *)
(* of a binary file and of one too large; folded is a lock file or a large *)
(* one, missing one whose head blob is not in the store.                   *)
FileOf(file) ==
  [status |-> file.status, base |-> BaseFile(file.script), head |-> HeadFile(file.script),
   hunks |-> IF file.opaque THEN <<>> ELSE ParseHunks(PatchOf(file.script)),
   opaque |-> file.opaque, folded |-> file.folded, missing |-> file.missing,
   threads |-> file.threads]
FilesOf ==
  LET histories == Histories
  IN [h \in DOMAIN histories |-> [k \in DOMAIN histories[h] |-> FileOf(histories[h][k])]]
Files == FilesOf[history]
Shown == Files[now]
CommentedOn == history \in DOMAIN Texts

Version(s, side) == IF side = "RIGHT" THEN s.head ELSE s.base

(* useSnapshotBlobs and useFileContents: a side has text once its blob has *)
(* arrived, unless the snapshot says it is missing.                        *)
Blob(s, side) ==
  IF IF side = "RIGHT" THEN s.status = "removed" \/ s.missing ELSE s.status = "added"
    THEN None ELSE Version(s, side)
Contents(side) == LET blob == Blob(Shown, side) IN IF blob \in fetched THEN blob ELSE None

(* classifyCollapse                                                        *)
Collapsed == Shown.opaque \/ (IF override # None THEN override ELSE isViewed \/ Shown.folded)

Rows == IF Shown.opaque THEN <<>> ELSE BuildRows(Shown, mode, expanded, Contents("RIGHT"))

(* buildFlatRows: threads, then the draft's comments, then the composer    *)
(* trail the row that shows their line, or else the last row; with no row  *)
(* at all they follow the header.                                          *)
Comments == draft.comments
Keyed(kind, id) == [key |-> <<kind, id>>, row |-> None]
Attachment(key, side, line) == [key |-> key, side |-> side, line |-> line]
Attachments ==
  LET threads == SelectSeq(Shown.threads, LAMBDA t : ~t.outdated /\ ~t.whole)
  IN [k \in DOMAIN threads |->
        Attachment(<<"thread", threads[k].id>>, threads[k].side, threads[k].line)]
     \o [k \in DOMAIN Comments |->
           Attachment(<<"pending", Comments[k].key>>, Comments[k].side, Comments[k].line)]
     \o (IF composer.anchor = None THEN <<>>
         ELSE <<Attachment(<<"composer", 0>>, composer.anchor.side, composer.anchor.line)>>)
(* Fault: what no row shows the line of is attached nowhere.               *)
AttachedToItsRow(rows, a) == FindAnchorRowIndex(rows, a.side, a.line)
AttachedTo(rows, a) ==
  LET k == IF a.line = None THEN 0 ELSE FindAnchorRowIndex(rows, a.side, a.line)
  IN IF k = 0 THEN Len(rows) ELSE k
Place(rows) == [i \in DOMAIN Attachments |->
                  [at |-> AttachedTo(rows, Attachments[i]), key |-> Attachments[i].key]]
Trailing(places, k) ==
  LET here == SelectSeq(places, LAMBDA a : a.at = k)
  IN [i \in DOMAIN here |-> [key |-> here[i].key, row |-> None]]
Outdated == SelectSeq(Shown.threads, LAMBDA t : t.outdated)
Whole == SelectSeq(Shown.threads, LAMBDA t : ~t.outdated /\ t.whole)
Unfolded(rows, places) ==
  (IF Outdated = <<>> THEN <<>> ELSE <<Keyed("group", 0)>>)
  \o (IF ~outdatedOpen THEN <<>>
      ELSE [k \in DOMAIN Outdated |-> Keyed("outdated", Outdated[k].id)])
  \o [k \in DOMAIN Whole |-> Keyed("thread", Whole[k].id)]
  \o (IF Shown.missing THEN <<Keyed("notice", 0)>> ELSE <<>>)
  \o (IF rows = <<>> THEN Trailing(places, 0) ELSE <<>>)
  \o FlattenSeq([k \in DOMAIN rows |->
       <<[key |-> <<"diff", rows[k].id>>, row |-> rows[k]]>> \o Trailing(places, k)])
BuildFlatRows(rows) ==
  <<Keyed("header", 0)>> \o (IF Collapsed THEN <<>> ELSE Unfolded(rows, Place(rows)))
OnPage(key) == ~Collapsed /\ \E a \in ToSet(Attachments) : a.key = key

----------------------------------------------------------------------------
ClosedComposer ==
  [anchor |-> None, text |-> None, on |-> None, chosen |-> None, chosenStart |-> None]
NoDraft == [head |-> None, comments |-> <<>>]
FilesInit ==
  /\ history \in DOMAIN Histories /\ now = 1 /\ fetched = {}
  /\ mode = "unified" /\ expanded = <<>> /\ override = None
  /\ outdatedOpen = FALSE /\ isViewed = FALSE /\ turns = 0
  /\ selection = None /\ dragging = FALSE /\ composer = ClosedComposer
  /\ canceled = [a \in {} |-> None]
  /\ draft = NoDraft /\ made = 0 /\ typed = {}

(* A blob arrives, and is kept for good.                                   *)
BlobArrives ==
  \E side \in {"LEFT", "RIGHT"} :
    LET blob == Blob(Shown, side) IN
    /\ blob \notin fetched \union {None}
    /\ fetched' = fetched \union {blob}
    /\ UNCHANGED <<history, now, view, writing, draft, made, typed>>

(* A sync, from this tab or another: the component stays, and with it all  *)
(* it keeps.                                                               *)
Resync ==
  /\ now < Len(Files) /\ now' = now + 1
  /\ UNCHANGED <<history, fetched, view, writing, draft, made, typed>>

(* Another tab of the review is opened and this one again: what the page   *)
(* kept is gone.                                                           *)
Leave ==
  /\ expanded' = <<>> /\ override' = None /\ outdatedOpen' = FALSE
  /\ selection' = None /\ dragging' = FALSE /\ composer' = ClosedComposer
  /\ canceled' = [a \in {} |-> None]
  /\ typed' = typed \intersect {c.text : c \in ToSet(Comments)}
  /\ UNCHANGED <<history, now, fetched, mode, isViewed, turns, draft, made>>

(* What follows changes how the file is drawn and nothing that is written. *)
Press ==
  /\ CommentedOn => turns < MaxTurns
  /\ turns' = IF CommentedOn THEN turns + 1 ELSE turns
ToggleMode ==
  /\ Press
  /\ mode' = IF mode = "split" THEN "unified" ELSE "split"
  /\ UNCHANGED <<history, now, fetched, expanded, override, outdatedOpen, isViewed, writing,
                 draft, made, typed>>

(* The targets of a gap row, and gapRangesForPath.                         *)
Expand(ranges) ==
  /\ Press
  /\ expanded' = FoldLeft(MergeExpanded, expanded, ranges)
  /\ UNCHANGED <<history, now, fetched, mode, override, outdatedOpen, isViewed, writing,
                 draft, made, typed>>
Gaps == IF Collapsed THEN <<>> ELSE SelectSeq(Rows, LAMBDA row : row.type = "gap")
RangesOf(gaps) == [k \in DOMAIN gaps |-> Range_(gaps[k].from, gaps[k].to)]
Parts(gap) ==
  {Range_(gap.from, gap.to)} \union
  (IF gap.to - gap.from < Step THEN {}
   ELSE {Range_(MaxOf(gap.from, gap.to - (Step - 1)), gap.to),
         Range_(gap.from, MinOf(gap.to, gap.from + (Step - 1)))})
ExpandRange ==
  /\ Contents("RIGHT") # None
  /\ \E gap \in ToSet(Gaps) : \E part \in Parts(gap) : Expand(<<part>>)
ExpandAllGaps == \E ranges \in {RangesOf(Gaps)} : ranges # <<>> /\ Expand(ranges)

(* toggleCollapse, `[`, `]` and "Load anyway"                              *)
Fold(folded) ==
  /\ Press
  /\ override' = folded
  /\ UNCHANGED <<history, now, fetched, mode, expanded, outdatedOpen, isViewed, writing,
                 draft, made, typed>>
ToggleCollapse == ~Shown.opaque /\ Fold(~Collapsed)
FoldByKey == \E folded \in BOOLEAN : Fold(folded)

ToggleViewed ==
  /\ Press
  /\ isViewed' = ~isViewed
  /\ UNCHANGED <<history, now, fetched, mode, expanded, override, outdatedOpen, writing,
                 draft, made, typed>>

HasOutdated == \E t \in ToSet(Shown.threads) : t.outdated
(* toggleOutdated and toggleAllOutdated                                    *)
ToggleOutdated ==
  /\ Press
  /\ outdatedOpen' = (HasOutdated /\ ~outdatedOpen)
  /\ UNCHANGED <<history, now, fetched, mode, expanded, override, isViewed, writing,
                 draft, made, typed>>

(* jumpTo a thread, a comment of the draft or the file, from the tree, the *)
(* queue or a link: the file is unfolded, and the group of an outdated     *)
(* thread opened.                                                          *)
JumpTo ==
  \E t \in {None} \union ToSet(Shown.threads) :
    /\ Press
    /\ override' = FALSE
    /\ outdatedOpen' = (outdatedOpen \/ (t # None /\ t.outdated))
    /\ UNCHANGED <<history, now, fetched, mode, expanded, isViewed, writing, draft, made, typed>>

(* jumpTo a line: where no row shows it, every gap is opened.              *)
Opened == FoldLeft(MergeExpanded, expanded,
                   RangesOf(SelectSeq(Rows, LAMBDA row : row.type = "gap")))
JumpToLine ==
  \E side \in {"LEFT", "RIGHT"} : \E line \in DOMAIN Version(Shown, side) :
    /\ Press
    /\ override' = FALSE
    /\ expanded' = IF \E row \in ToSet(Rows) : RowMatches(row, side, line) THEN expanded ELSE Opened
    /\ UNCHANGED <<history, now, fetched, mode, outdatedOpen, isViewed, writing, draft,
                   made, typed>>

----------------------------------------------------------------------------
(* The composer.  An anchor is a side, a line and, for a range, its start. *)
TrueText(side, line) ==
  LET file == Version(Shown, side) IN IF line \in DOMAIN file THEN file[line] ELSE None
Kept(anchor) == IF anchor \in DOMAIN canceled THEN canceled[anchor] ELSE None
KeptAlso(anchor, text) ==
  [a \in DOMAIN canceled \union {anchor} |-> IF a = anchor THEN text ELSE canceled[a]]
(* openComposer: a composer displaced by another anchor keeps its text.    *)
(* Fault: a displaced composer is only replaced.                           *)
OpenOver(anchor) == UNCHANGED canceled
Displace(anchor) ==
  canceled' = IF composer.text # None /\ composer.anchor # anchor
                THEN KeptAlso(composer.anchor, composer.text) ELSE canceled
ReopenedLive(anchor) ==
  composer.anchor = anchor /\ composer.text # Kept(anchor)
OpenComposer(anchor, on) ==
  /\ Reopens \/ ~ReopenedLive(anchor)
  /\ Displace(anchor)
  /\ composer' = [anchor |-> anchor, text |-> Kept(anchor), on |-> on,
                  chosen |-> TrueText(anchor.side, anchor.line),
                  chosenStart |-> IF anchor.start = None THEN None
                                  ELSE TrueText(anchor.side, anchor.start)]
  /\ selection' = [side |-> anchor.side,
                   anchor |-> IF anchor.start = None THEN anchor.line ELSE anchor.start,
                   head |-> anchor.line, on |-> on]
  /\ override' = FALSE
  /\ UNCHANGED <<history, now, fetched, mode, expanded, outdatedOpen, isViewed, turns,
                 draft, made, typed>>
(* commitSelection                                                         *)
AnchorOf(sel) ==
  [side |-> sel.side, line |-> MaxOf(sel.anchor, sel.head),
   start |-> IF sel.anchor = sel.head THEN None ELSE MinOf(sel.anchor, sel.head)]

(* The gutter: onGutterDown, onGutterEnter and the button's release.  The  *)
(* target of a line is its old number where it was deleted, its new one    *)
(* otherwise.                                                              *)
Targets ==
  IF Collapsed THEN {}
  ELSE {IF l.kind = "del" THEN [side |-> "LEFT", line |-> l.old]
                          ELSE [side |-> "RIGHT", line |-> l.new] :
          l \in UNION {{row.left, row.right} \ {None} :
                         row \in {r \in ToSet(Rows) : r.type = "code"}}}
SelectOnly(sel) ==
  /\ selection' = sel
  /\ UNCHANGED <<history, now, fetched, view, composer, canceled, draft, made, typed>>
GutterDown ==
  /\ CommentedOn /\ ~dragging /\ dragging' = TRUE
  /\ \E t \in Targets :
       SelectOnly([side |-> t.side, anchor |-> t.line, head |-> t.line, on |-> now])
GutterDownWithShift ==
  /\ selection # None /\ ~dragging
  /\ \E t \in Targets : t.side = selection.side
                        /\ OpenComposer(AnchorOf([selection EXCEPT !.head = t.line]), selection.on)
  /\ UNCHANGED dragging
GutterEnter ==
  /\ dragging /\ selection # None /\ UNCHANGED dragging
  /\ \E t \in Targets : /\ t.side = selection.side /\ t.line # selection.head
                        /\ SelectOnly([selection EXCEPT !.head = t.line])
MouseUp ==
  /\ dragging /\ dragging' = FALSE
  /\ IF selection = None THEN SelectOnly(None) ELSE OpenComposer(AnchorOf(selection), selection.on)

(* `c`: the selection, or else the first changed line.                     *)
ComposeByKey ==
  LET first == FirstChangedLine(Shown) IN
  /\ CommentedOn /\ UNCHANGED dragging
  /\ IF selection # None THEN OpenComposer(AnchorOf(selection), selection.on)
     ELSE /\ first # None
          /\ OpenComposer([side |-> first.side, line |-> first.line, start |-> None], now)

Held ==
  {c.text : c \in ToSet(Comments)} \union {canceled[a] : a \in DOMAIN canceled}
    \union {composer.text}

(* Each text is typed afresh, so that it stands for one writing.           *)
TypeComment ==
  /\ composer.anchor # None /\ OnPage(<<"composer", 0>>)
  /\ \E t \in (Texts[history] \ Held) \union {None} :
       /\ t # composer.text
       /\ composer' = [composer EXCEPT !.text = t]
       /\ typed' = (typed \ {composer.text}) \union ({t} \ {None})
  /\ UNCHANGED <<history, now, fetched, view, selection, dragging, canceled, draft, made>>

(* closeComposer, by escape or the button                                  *)
CancelComposer ==
  /\ composer.anchor # None \/ selection # None
  /\ canceled' = IF composer.text # None THEN KeptAlso(composer.anchor, composer.text)
                                         ELSE canceled
  /\ composer' = ClosedComposer /\ selection' = None
  /\ UNCHANGED <<history, now, fetched, view, dragging, draft, made, typed>>

(* submitComposer: the lines around the anchor are captured for a later    *)
(* reconcile, from the blob or else from the patch; ensureDraft makes a    *)
(* draft only where there is none.                                         *)
(* Fault: line numbers taken for indices.                                  *)
LineTextByIndex(side, line) ==
  LET lines == Contents(side)
  IN IF lines # None /\ line + 1 \in DOMAIN lines THEN lines[line + 1]
     ELSE LineTextFromModel(Shown, side, line)
LineText(side, line) ==
  LET lines == Contents(side)
  IN IF lines # None /\ line \in DOMAIN lines THEN lines[line]
     ELSE LineTextFromModel(Shown, side, line)
Captured(anchor) ==
  LET lines == Contents(anchor.side)
      n == anchor.line
  IN [lineText |-> LineText(anchor.side, n),
      startText |-> IF anchor.start = None THEN None ELSE LineText(anchor.side, anchor.start),
      before |-> IF lines = None THEN <<>>
                 ELSE SubSeq(lines, MaxOf(1, n - 3), MinOf(Len(lines), n - 1)),
      after |-> IF lines = None THEN <<>> ELSE SubSeq(lines, n + 1, MinOf(Len(lines), n + 3))]
SubmitComposer ==
  /\ composer.text # None /\ OnPage(<<"composer", 0>>)
  /\ made < MaxComments /\ made' = made + 1
  /\ LET comment ==
           [key |-> made', on |-> now, side |-> composer.anchor.side,
            line |-> composer.anchor.line, start |-> composer.anchor.start,
            text |-> composer.text, captured |-> Captured(composer.anchor),
            chosenOn |-> composer.on, chosen |-> composer.chosen,
            chosenStart |-> composer.chosenStart]
     IN draft' = [head |-> IF draft.head = None THEN now ELSE draft.head,
                  comments |-> Append(Comments, comment)]
  /\ canceled' = [a \in DOMAIN canceled \ {composer.anchor} |-> canceled[a]]
  /\ composer' = ClosedComposer /\ selection' = None
  /\ UNCHANGED <<history, now, fetched, view, dragging, typed>>

(* The reader deletes a comment of the draft; the draft is submitted or    *)
(* discarded.                                                              *)
RemoveComment ==
  \E k \in DOMAIN Comments :
    /\ OnPage(<<"pending", Comments[k].key>>)
    /\ draft' = [head |-> draft.head, comments |-> RemoveAt(Comments, k)]
    /\ typed' = typed \ {Comments[k].text}
    /\ UNCHANGED <<history, now, fetched, view, writing, made>>
DraftGoes ==
  /\ draft.head # None /\ draft' = NoDraft
  /\ typed' = typed \ {c.text : c \in ToSet(Comments)}
  /\ UNCHANGED <<history, now, fetched, view, writing, made>>

FilesNext ==
  \/ BlobArrives \/ Resync \/ Leave
  \/ ToggleMode \/ ExpandRange \/ ExpandAllGaps \/ ToggleCollapse \/ FoldByKey
  \/ ToggleViewed \/ ToggleOutdated \/ JumpTo \/ JumpToLine
  \/ GutterDown \/ GutterDownWithShift \/ GutterEnter \/ MouseUp \/ ComposeByKey
  \/ TypeComment \/ CancelComposer \/ SubmitComposer \/ RemoveComment \/ DraftGoes

FilesSpec == FilesInit /\ [][FilesNext]_filesVars

----------------------------------------------------------------------------
FilesTypeOK ==
  /\ history \in DOMAIN Histories /\ now \in DOMAIN Files
  /\ fetched \subseteq {Blob(Files[k], side) : k \in 1..now, side \in {"LEFT", "RIGHT"}} \ {None}
  /\ mode \in {"unified", "split"} /\ override \in BOOLEAN \union {None}
  /\ \A k \in DOMAIN expanded : expanded[k].from \in Nat /\ expanded[k].to \in Nat
  /\ {outdatedOpen, isViewed, dragging} \subseteq BOOLEAN
  /\ selection # None => /\ selection.side \in {"LEFT", "RIGHT"}
                         /\ {selection.anchor, selection.head} \subseteq Nat \ {0}
  /\ CommentedOn \/ (composer = ClosedComposer /\ selection = None)
  /\ turns \in 0..MaxTurns /\ made \in 0..MaxComments
  /\ CommentedOn => Held \subseteq Texts[history] \union {None}
  /\ Len(draft.comments) <= made /\ (Comments # <<>> => draft.head # None)

(* Read from top to bottom, the rows and what the gaps stand for are the   *)
(* two versions of the file, line by line, each number once and in order,  *)
(* up to the last line the tab can know of, and every line drawn has the   *)
(* text of that number.  A gap hides only lines equal on both sides.       *)
(* Whatever ranges were opened, on this snapshot or an earlier one.        *)
Covers(side, row) ==
  CASE row.type = "hunk" -> <<>>
    [] row.type = "gap" -> [k \in 1..(row.to - row.from + 1) |->
                              row.from + k - 1 + (IF side = "LEFT" THEN row.delta ELSE 0)]
    [] row.type = "code" -> LET l == IF side = "LEFT" THEN row.left ELSE row.right
                            IN IF l = None THEN <<>> ELSE <<NumberOn(side, l)>>
VersionOf(side) == Version(Shown, side)
Listed(side) == {NumberOn(side, l) : l \in ToSet(LinesOf(Shown))} \ {None}
NumbersOn(side, rows) == FlattenSeq([k \in DOMAIN rows |-> Covers(side, rows[k])])
Numbered(side, numbers) ==
  /\ numbers = [k \in DOMAIN numbers |-> k]
  /\ Listed(side) \subseteq DOMAIN numbers
  /\ DOMAIN numbers \subseteq DOMAIN VersionOf(side)
  /\ Contents("RIGHT") # None => Len(numbers) = Len(VersionOf(side))
Truly(row) ==
  /\ row.type = "code" =>
       /\ row.left # None => row.left.text = VersionOf("LEFT")[row.left.old]
       /\ row.right # None => row.right.text = VersionOf("RIGHT")[row.right.new]
  /\ row.type = "gap" =>
       \A n \in row.from..row.to : VersionOf("RIGHT")[n] = VersionOf("LEFT")[n + row.delta]
AreTheFile(rows) ==
  /\ \A side \in {"LEFT", "RIGHT"} : Numbered(side, NumbersOn(side, rows))
  /\ \A k \in DOMAIN rows : Truly(rows[k])
EachLineOnce == Shown.opaque \/ AreTheFile(Rows)

(* What was written about the file is on the page of an unfolded file,     *)
(* once, whatever became of its line: each current thread, each comment of *)
(* the draft and the open composer, under a row that shows its line if any *)
(* row does.  No two rows share the key they are kept by.                  *)
IsUnder(flat, k, a) ==
  \E i \in 1..k : /\ flat[i].row # None /\ RowMatches(flat[i].row, a.side, a.line)
                  /\ \A j \in (i + 1)..k : flat[j].row = None
ShowAll(flat, rows) ==
  /\ \A i, j \in DOMAIN flat : flat[i].key = flat[j].key => i = j
  /\ \A t \in ToSet(Shown.threads) : (t.outdated /\ ~outdatedOpen) \/
       \E k \in DOMAIN flat : flat[k].key \in {<<"thread", t.id>>, <<"outdated", t.id>>}
  /\ \A a \in ToSet(Attachments) : \E k \in DOMAIN flat :
       /\ flat[k].key = a.key
       /\ (\E i \in DOMAIN rows : RowMatches(rows[i], a.side, a.line)) => IsUnder(flat, k, a)
NothingWrittenIsHidden == Collapsed \/ \E rows \in {Rows} : ShowAll(BuildFlatRows(rows), rows)

(* What a comment carries for a later reconcile is the snapshot it was     *)
(* made on: around its line the lines of that snapshot and no other, and   *)
(* for the line and the start of the range their text there, or none where *)
(* the tab has neither blob nor patch for them.  Chosen on that snapshot,  *)
(* they carry what their author saw.                                       *)
CapturedAsShown ==
  \A c \in ToSet(Comments) :
    LET file == Version(Files[c.on], c.side)
        got == c.captured
        Is(part, first) == \A k \in DOMAIN part :
                             first + k - 1 \in DOMAIN file /\ part[k] = file[first + k - 1]
        Of(text, line) == text # None => line \in DOMAIN file /\ text = file[line]
    IN /\ Of(got.lineText, c.line) /\ Of(got.startText, c.start)
       /\ Is(got.before, MaxOf(1, c.line - 3)) /\ Is(got.after, c.line + 1)
       /\ c.start # None => c.start < c.line
       /\ c.chosenOn = c.on => got.lineText = c.chosen /\ got.startText = c.chosenStart

(* What was chosen before a sync, too, is captured as its author saw it:   *)
(* this code does not see to that, and no listed run checks it.            *)
CapturedAsChosen ==
  \A c \in ToSet(Comments) :
    c.captured.lineText = c.chosen /\ c.captured.startText = c.chosenStart

(* A text typed into a composer is in the composer, among the texts kept   *)
(* for their anchors or in the draft until its author takes it back: types *)
(* over it, deletes the comment, sends or discards the draft, or leaves    *)
(* the tab.                                                                *)
TextIsKept == typed \subseteq Held

(* The draft is about the snapshot its comments were made on.              *)
HeadIsOfItsComments == \A c \in ToSet(Comments) : c.on = draft.head
=============================================================================
