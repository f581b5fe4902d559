---------------------------- MODULE MCReconcile ----------------------------
EXTENDS Reconcile

\* Files of two texts: one that repeats, a line added above it, a line added
\* inside a span; and the file removed, or renamed away.
FewHeads ==
  {[lines |-> f, renamed |-> FALSE] :
     f \in {<<"a", "b", "a">>, <<"b", "a", "b", "a">>, <<"a", "a", "b">>, NoBlob}}
  \cup {[lines |-> NoBlob, renamed |-> TRUE]}

\* Two bases with the file, one without it, one whose listing was cut short.
FewTrees ==
  {[lines |-> <<"b", "a", "a">>, listed |-> TRUE],
   [lines |-> <<"a", "b", "a">>, listed |-> TRUE],
   [lines |-> NoBlob, listed |-> TRUE],
   [lines |-> <<"b", "a", "a">>, listed |-> FALSE]}
=============================================================================
