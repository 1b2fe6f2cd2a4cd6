--------------------------- MODULE MCTimeOffSystem ---------------------------
(***************************************************************************)
(* Constants for TLC.  Day 0 is a Thursday, so day 2 and 3 are a weekend.  *)
(***************************************************************************)
EXTENDS TimeOffSystem, TLC

\* Thu-Fri; Fri to Sunday; Saturday to Mon; a weekend, which counts no days.
MCRanges == {[start |-> 0, end |-> 1], [start |-> 1, end |-> 3],
             [start |-> 2, end |-> 4], [start |-> 2, end |-> 3]}

\* Ranges that do not overlap, so two requests can be open together.
MCDisjointRanges == {[start |-> 0, end |-> 1], [start |-> 4, end |-> 5]}

MCSymmetry == Permutations(Requests) \cup Permutations(IdemKeys)
=============================================================================
