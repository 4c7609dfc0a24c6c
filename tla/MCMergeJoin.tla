---------------------------- MODULE MCMergeJoin ----------------------------
(* Two pairs of bins, with at most two rows of the primary key table, its  *)
(* keys distinct, and at most three of the foreign key table.              *)
EXTENDS MergeJoin

MCRows(t) == [table : {t}, key : {1, 2}, dummy : BOOLEAN]
MCPrimaryBins ==
  {b \in UNION {[1 .. n -> MCRows(0)] : n \in 0 .. 2} :
     \A k, l \in DOMAIN b : k # l /\ ~b[k].dummy /\ ~b[l].dummy => b[k].key # b[l].key}
MCForeignBins == UNION {[1 .. n -> MCRows(1)] : n \in 0 .. 2} \cup
  [1 .. 3 -> {[table |-> 1, key |-> 1, dummy |-> FALSE], [table |-> 1, key |-> 2, dummy |-> FALSE]}]
=============================================================================
