---------------------------- MODULE MCJobAttempts ----------------------------
(***************************************************************************)
(* Small instances of JobAttempts for TLC.                                 *)
(***************************************************************************)
EXTENDS JobAttempts, TLC

Symmetry == Permutations(Worker)
==============================================================================
