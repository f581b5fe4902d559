-------------------------- MODULE SnapshotPromise --------------------------
(***************************************************************************)
(* What the snapshot cache promises a reader: each review shows one        *)
(* snapshot or none, a snapshot is replaced whole by a sync of that review *)
(* and of no other, and only a local review's snapshot is ever taken away. *)
(* Two reviews may share a cached half; nothing here lets one of them see  *)
(* the other's writes.                                                     *)
(***************************************************************************)
EXTENDS Functions

CONSTANTS Pulls, Locals, CompareKeys, Blobs

VARIABLE shown  \* review -> the snapshot getSnapshot answers

Snapshot ==
  [key: CompareKeys, partial: BOOLEAN, missing: SUBSET Blobs,
   half: [files: CompareKeys, capped: BOOLEAN]]

(* The half is the comparison the key names, and stops short only if told. *)
Faithful(s) == s.half.files = s.key /\ (s.half.capped => s.partial)

Init == shown = [r \in {} |-> {}]

Publish(r, s) ==
  /\ Faithful(s)
  /\ shown' = [x \in DOMAIN shown \cup {r} |-> IF x = r THEN s ELSE shown[x]]

Remove(r) == shown' = Restrict(shown, DOMAIN shown \ {r})

Next ==
  \/ \E r \in Pulls \cup Locals, s \in Snapshot : Publish(r, s)
  \/ \E l \in Locals : Remove(l)

Spec == Init /\ [][Next]_shown
=============================================================================
