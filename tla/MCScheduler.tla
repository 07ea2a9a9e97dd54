----------------------------- MODULE MCScheduler -----------------------------
(***************************************************************************)
(* An interval that fires at every instant, and an expression that names   *)
(* hours, one of which the clock repeats.                                  *)
(***************************************************************************)
EXTENDS Scheduler, TLC

CONSTANTS minutely, daily

Series_raw == minutely :> Instant @@ daily :> {1, 2, 3}
=============================================================================
