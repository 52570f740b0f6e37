----------------------------- MODULE MCTimesheets -----------------------------
(* Instances of Timesheets for TLC. *)
EXTENDS Timesheets, TLC

Symmetry == Permutations(Allocations) \cup Permutations(Entries)
=============================================================================
