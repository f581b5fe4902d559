------------------------------- MODULE Tables -------------------------------
(***************************************************************************)
(* SQLite tables as functions: the domain is the set of keys with a row.   *)
(***************************************************************************)
EXTENDS Functions

EmptyTable == [k \in {} |-> {}]

(* INSERT ... ON CONFLICT DO UPDATE, and DELETE.                           *)
Upsert(table, k, row) ==
  [x \in DOMAIN table \cup {k} |-> IF x = k THEN row ELSE table[x]]
Without(table, ks) == Restrict(table, DOMAIN table \ ks)

(* Two tables laid over one another; the second wins where both have a row. *)
Joined(f, g) ==
  [x \in DOMAIN f \cup DOMAIN g |-> IF x \in DOMAIN g THEN g[x] ELSE f[x]]

(* The rows under a key of a table of tables or sets, none if it has none. *)
RowsOf(table, k) == IF k \in DOMAIN table THEN table[k] ELSE EmptyTable
SetOf(table, k) == IF k \in DOMAIN table THEN table[k] ELSE {}

IsTable(table, K, V) ==
  /\ table = [k \in DOMAIN table |-> table[k]]
  /\ DOMAIN table \subseteq K
  /\ \A k \in DOMAIN table : table[k] \in V

=============================================================================
