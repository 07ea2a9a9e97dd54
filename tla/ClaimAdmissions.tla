--------------------------- MODULE ClaimAdmissions ----------------------------
(***************************************************************************)
(* ClaimLimits with a history of the admissions themselves.  The rate      *)
(* limit is documented as a count of admissions; the code counts rows by   *)
(* claimed_at, and a row claimed again keeps only its last stamp.          *)
(***************************************************************************)
EXTENDS MCClaimLimits

VARIABLE admissions     \* <<job, run_count, claimed_at>> of every claim

RateOnly == {Limits(None, 2, FALSE)}

HistoryInit == Init /\ admissions = {}

HistoryNext ==
    /\ Next
    /\ admissions' = admissions \union
           {<<j, run_count'[j], claimed_at'[j]>> :
                j \in {i \in Job : run_count'[i] # run_count[i]}}

HistorySpec == HistoryInit /\ [][HistoryNext]_<<vars, admissions>>

\* "The limits are exact, not approximate": no trailing window holds more
\* admissions than rate_limit.
AdmissionsWithinRate ==
    \A t \in 0..MaxTime, c \in Controls :
        (c.rate_limit # None) =>
            Cardinality({a \in admissions : a[3] <= t /\ a[3] + Period > t})
                <= c.rate_limit
==============================================================================
