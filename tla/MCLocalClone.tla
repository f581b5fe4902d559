---------------------------- MODULE MCLocalClone ----------------------------
EXTENDS LocalClone, SequencesExt, TLC

\* m0 is the root; m1 is main's next; a1 is a feature, a2 its amended form and
\* a3 its merge of main.  o1 is an orphan.
History == [m0 |-> {"m0"}, m1 |-> {"m0", "m1"}, a1 |-> {"m0", "a1"},
            a2 |-> {"m0", "a2"}, a3 |-> {"m0", "m1", "a1", "a3"}, o1 |-> {"o1"}]

File(blob) == [mode |-> "file", object |-> blob]
Link(blob) == [mode |-> "link", object |-> blob]
Gitlink == [mode |-> "gitlink", object |-> "elsewhere"]

\* A submodule added, a text changed and removed, a link that becomes a file,
\* a binary added.
Trees == [m0 |-> [g |-> Nothing, p |-> File("b1"), q |-> Link("b2"), x |-> File("b1")],
          m1 |-> [g |-> Nothing, p |-> File("b3"), q |-> Link("b2"), x |-> File("b1")],
          a1 |-> [g |-> Gitlink, p |-> File("b1"), q |-> File("b4"), x |-> File("b3")],
          a2 |-> [g |-> Nothing, p |-> Nothing,    q |-> File("b4"), x |-> File("b5")],
          a3 |-> [g |-> Gitlink, p |-> File("b3"), q |-> File("b4"), x |-> File("b3")],
          o1 |-> [g |-> Nothing, p |-> File("b3"), q |-> Nothing,    x |-> Nothing]]

InOrder == [pair \in Pairs |->
  SelectSeq(<<"g", "p", "q", "x">>, LAMBDA p : Before(pair, p) # After(pair, p))]
Prints == [pair \in Pairs |->
  FoldLeft(LAMBDA printed, path :
             printed \o SectionsOfPath(Before(pair, path), After(pair, path)),
           <<>>, Changed[pair])]
Bases == [r1 |-> "main", r2 |-> "feature"]
HeadBranches == [r1 |-> "feature", r2 |-> "main"]
Subjects == [s \in Syncs |-> "r1"]
Moves == [main |-> {"m0", "m1"}, feature |-> {"a1", "a2", "a3", "o1"}]

AtFirst == {[main |-> "m0", feature |-> "a1"]}

Alike == Permutations(Syncs)
=============================================================================
