------------------------------ MODULE Lifecycle ------------------------------
(***************************************************************************)
(* The job lifecycle as pyjobby/lifecycle.py declares it: the states of    *)
(* jorb.state, the groups of states the rest of the platform guards its    *)
(* statements with, and the legal moves between them.  Every other module  *)
(* takes its states from here, as every SQL statement takes its guards     *)
(* from lifecycle.py.                                                      *)
(***************************************************************************)

\* The pseudo-state a job's history starts from: the row does not exist yet.
HISTORY_ORIGIN == "enqueued"

TERMINAL_STATES == {"finished", "crashed", "cancelled"}

\* The states in which a job is matched to a worker.
IN_FLIGHT_STATES == {"claimed", "running"}

\* The states in which a job has not been matched to a worker yet.
PRE_CLAIM_STATES == {"queued", "waiting"}

LIVE_STATES == PRE_CLAIM_STATES \union IN_FLIGHT_STATES

JOB_STATES == LIVE_STATES \union TERMINAL_STATES

\* Source state -> every state it may move to.
LEGAL_TRANSITIONS ==
    [enqueued  |-> {"queued", "waiting", "claimed", "running"},
     waiting   |-> {"queued", "cancelled"},
     queued    |-> {"claimed", "cancelled"},
     claimed   |-> {"running", "queued", "waiting",
                    "cancelled", "crashed", "finished"},
     running   |-> {"finished", "crashed", "cancelled",
                    "queued", "waiting", "running"},
     finished  |-> {"queued", "waiting"},
     crashed   |-> {"queued", "waiting"},
     cancelled |-> {"queued", "waiting"}]

is_legal(source, target) == target \in LEGAL_TRANSITIONS[source]

==============================================================================
