--------------------------- MODULE MCLocalReview ---------------------------
(***************************************************************************)
(* Small instances of LocalReview: the names a .cfg gives its sets.        *)
(***************************************************************************)
EXTENDS LocalReview

CONSTANTS q1, q2, p1, p2, a, b
=============================================================================
