---------------------------- MODULE MCDataFiles ----------------------------
(* Instance of DataFiles for TLC.                                          *)
EXTENDS DataFiles, TLC

ProcessSymmetry == Permutations(Processes)
=============================================================================
