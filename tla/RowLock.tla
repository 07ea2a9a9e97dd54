------------------------------- MODULE RowLock -------------------------------
(***************************************************************************)
(* The right to write a job's row, with the tokens of FencedRow left out:  *)
(* it goes from nobody to a worker and from a worker to nobody, never on.  *)
(* JobAttempts implements it for every row by the epochs; StateMachine,    *)
(* which keeps an owner in their place, implements it with that owner.     *)
(***************************************************************************)
CONSTANTS Worker, None

VARIABLE holder     \* the worker whose fences let it write, or None

Init == holder = None

\* A claim.
Take == holder = None /\ holder' \in Worker

\* The attempt ends, or loses the row to whoever may claim it next.
Lose == holder # None /\ holder' = None

Next == Take \/ Lose

Spec == Init /\ [][Next]_holder

==============================================================================
