------------------------------ MODULE MCFlagd ------------------------------
(* Instances of Flagd for TLC.                                             *)
EXTENDS Flagd, TLC

Interchangeable == Permutations(Procs) \cup Permutations(Requests)
=============================================================================
