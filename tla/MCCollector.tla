---------------------------- MODULE MCCollector ----------------------------
(* Two workspaces, whose owners are bound to two people.                   *)
EXTENDS Collector
CONSTANTS oA, oB, eA, eB
TwoPeople == [o \in {oA, oB} |-> IF o = oA THEN eA ELSE eB]
=============================================================================
