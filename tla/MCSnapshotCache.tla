--------------------------- MODULE MCSnapshotCache ---------------------------
(***************************************************************************)
(* Small instances of SnapshotCache: one pull request and one local review *)
(* that may show the same comparison, and two request slots, served by one *)
(* daemon or by two on the same data directory.                            *)
(***************************************************************************)
EXTENDS SnapshotCache

CONSTANTS dA, dB, q1, q2, pr, lr, k1, k2, b1, b2

OneDaemon == [q \in Requests |-> dA]
TwoDaemons == [q \in Requests |-> IF q = q1 THEN dA ELSE dB]

(* The local branch pair shows k1 alone, the pull request k1 and k2.       *)
PullMoves == [r \in Reviews |-> IF r \in Locals THEN {k1} ELSE {k1, k2}]
(* Both show k2 as well, the comparison GitHub caps.                       *)
ShareAll == [r \in Reviews |-> {k1, k2}]

NoBlobs == [k \in CompareKeys |-> {}]
(* k1 and k2 share b1; b2 is the file only k2 (and only its tail) has.     *)
SharedBlob == [k \in CompareKeys |-> IF k = k1 THEN {b1} ELSE {b1, b2}]
=============================================================================
