---------------------------- MODULE MCClaimLimits -----------------------------
(***************************************************************************)
(* Small instances of ClaimLimits for TLC.                                 *)
(***************************************************************************)
EXTENDS ClaimLimits, TLC

CONSTANTS j1, j2, j3

\* j1 and j2 have no partition_key: they are the NULL lane.
Lanes == [j \in Job |-> IF j = j3 THEN "acme" ELSE None]

Everything == [w \in Worker |-> Job]

Limits(cap, rate, lanes) ==
    [paused |-> FALSE, max_concurrency |-> cap, rate_limit |-> rate,
     partition_limits |-> lanes]

\* Unlimited, one in flight per lane, and one admission per period (paused or not).
ControlRows ==
    {Limits(None, None, FALSE), Limits(1, None, TRUE), Limits(2, 1, FALSE)}
        \union {[Limits(1, None, TRUE) EXCEPT !.paused = TRUE]}
==============================================================================
