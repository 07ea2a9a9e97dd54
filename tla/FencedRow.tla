------------------------------ MODULE FencedRow ------------------------------
(***************************************************************************)
(* What run_epoch is to a job's row: a lock that can be taken away.  At    *)
(* any time the fences of one worker at most let it write; it begins to    *)
(* when nobody's do, under a token that no earlier attempt had, and it     *)
(* never passes the row on to another.  JobAttempts is shown to implement  *)
(* this specification for every row.                                       *)
(***************************************************************************)
EXTENDS Naturals

CONSTANTS Worker, None

VARIABLES
    holder,         \* the worker whose fences let it write, or None
    token           \* run_epoch

Init == holder = None /\ token = 0

\* A claim.
Take == /\ holder = None
        /\ holder' \in Worker
        /\ token' = token + 1

\* The attempt is ended, by the holder or under it; or nothing is left of the
\* holder that could write.
Lose == /\ holder # None
        /\ holder' = None
        /\ token' \in {token, token + 1}

\* A claim nobody learns of, a requeue, the sweep of an attempt that died.
Advance == /\ holder = None
           /\ token' = token + 1
           /\ UNCHANGED holder

Next == Take \/ Lose \/ Advance

Spec == Init /\ [][Next]_<<holder, token>>

==============================================================================
