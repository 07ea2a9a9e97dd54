---------------------------- MODULE JobLifecycle ----------------------------
(***************************************************************************)
(* What the platform promises about jorb.state, whoever writes it: a row   *)
(* moves only along the edges of LEGAL_TRANSITIONS.  One statement may     *)
(* move many rows at once (the monitor's sweeps and the bulk verbs are     *)
(* batch UPDATEs), so a step moves any set of jobs, each along one edge.   *)
(* The detailed modules are shown to implement this specification.         *)
(***************************************************************************)
EXTENDS Lifecycle

CONSTANT Job

VARIABLE state

Init == state = [j \in Job |-> HISTORY_ORIGIN]

Move == /\ state' \in [Job -> JOB_STATES \union {HISTORY_ORIGIN}]
        /\ \A j \in Job : state'[j] # state[j] => is_legal(state[j], state'[j])

Spec == Init /\ [][Move]_state

==============================================================================
