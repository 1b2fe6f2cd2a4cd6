--------------------------- MODULE MCReconciliation ---------------------------
(***************************************************************************)
(* Constants for TLC.  Day 0 is a Thursday; day 4 is the next Monday.      *)
(***************************************************************************)
EXTENDS Reconciliation, TLC

MCRange == {[start |-> 0, end |-> 1]}
MCRanges == {[start |-> 0, end |-> 1], [start |-> 4, end |-> 4]}

MCSymmetry == Permutations(Requests) \cup Permutations(Ingesters)
=============================================================================
