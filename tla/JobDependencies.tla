--------------------------- MODULE JobDependencies ---------------------------
(***************************************************************************)
(* Jobs that wait for other jobs, and the DAG they may belong to.          *)
(*                                                                         *)
(* A waiter is parked in 'waiting' until its upstream job, or every job of *)
(* its upstream group, is finished.  Two things release it: the edge (the  *)
(* worker that finished the upstream sends a wake statement for the job    *)
(* and then one for its group, unless it dies first) and the level (the    *)
(* monitor probes for parked rows whose dependency is satisfied already).  *)
(* The monitor also cancels waiters of a target that does not exist, and   *)
(* retention deletes old terminal jobs nobody unfinished depends on.  A    *)
(* sweep is two statements in one transaction: the probe locks the row it  *)
(* found, the write looks again, and other rows move in between.           *)
(*                                                                         *)
(* An update that takes a DAG member into or out of the terminal states    *)
(* fires complete_jorb_dag() inside its transaction: the row is written,   *)
(* the trigger locks the DAG and counts, the transaction commits.          *)
(*                                                                         *)
(* The attempt protocol is JobAttempts: an attempt is one state here.      *)
(***************************************************************************)
EXTENDS Lifecycle, FiniteSets

CONSTANTS
    Job,
    None,           \* NULL
    waitfor_job,    \* columns of jorb: each job's upstream job,
    waitfor_group,  \* its upstream group
    use_result_from,\* admin_data: the job whose result it is handed,
    run_group,      \* and the group it belongs to
    Dag,            \* the members of the one DAG
    Batches         \* the sets of jobs inserted by one transaction

ASSUME DependenciesAssumption ==
    /\ None \notin Job /\ None \notin JOB_STATES /\ None \notin BOOLEAN
    /\ waitfor_job \in [Job -> Job \union {None}]
    /\ use_result_from \in [Job -> Job \union {None}]
    /\ DOMAIN waitfor_group = Job /\ DOMAIN run_group = Job
    /\ \A j \in Job : waitfor_job[j] = None \/ waitfor_group[j] = None
    /\ Dag # {} /\ Dag \subseteq Job
    /\ Batches \subseteq SUBSET Job
    /\ \A B \in Batches : Dag \subseteq B \/ Dag \intersect B = {}

VARIABLES
    state,          \* committed column; HISTORY_ORIGIN is a row not there yet
    gone,           \* rows retention deleted
    writing, stamp, \* an open transaction on a DAG member: the state it wrote,
                    \* and what its trigger decided for jorb_dag.completed
    completed,      \* jorb_dag.completed IS NOT NULL
    wakes,          \* wake statements a worker is about to send
    probed,         \* the row a stranded-waiter sweep locked, and what for
    retiring,       \* the row the retention sweep locked
    met,            \* history: dependency satisfied since the row was parked
    late            \* history: live since retention probed what it depends on, or
                    \* since the job it is to read was gone

rows == <<state, gone>>
dag == <<writing, stamp, completed>>
history == <<met, late>>
vars == <<rows, dag, wakes, probed, retiring, history>>

------------------------------------------------------------------------------
HasDependency(j) == waitfor_job[j] # None \/ waitfor_group[j] # None
Exists(j) == state[j] # HISTORY_ORIGIN /\ j \notin gone
Members(g) == {j \in Job : Exists(j) /\ run_group[j] = g}
Is(j, s) == Exists(j) /\ state[j] = s
Live(j) == Exists(j) /\ state[j] \in LIVE_STATES

\* Mutant: the sweep's probe takes no row lock.
Locked_ButNotProbed(j) == writing[j] # None \/ retiring = j

Locked(j) == writing[j] # None \/ probed.row = j \/ retiring = j

GroupDone(g) == Members(g) # {} /\ \A i \in Members(g) : state[i] = "finished"

\* The dependency as every wake statement words it.
Satisfied(j) ==
    \/ waitfor_job[j] # None /\ Is(waitfor_job[j], "finished")
    \/ waitfor_group[j] # None /\ GroupDone(waitfor_group[j])

Missing(j) ==
    \/ waitfor_job[j] # None /\ ~Exists(waitfor_job[j])
    \/ waitfor_group[j] # None /\ Members(waitfor_group[j]) = {}

DependsOn(j, u) ==
    \/ waitfor_job[j] = u
    \/ waitfor_group[j] # None /\ waitfor_group[j] = run_group[u]
    \/ use_result_from[j] = u

\* The rows whose result a job may read.
Inputs(j) == {waitfor_job[j], use_result_from[j]} \ {None}

TypeOK ==
    /\ state \in [Job -> JOB_STATES \union {HISTORY_ORIGIN}]
    /\ gone \subseteq {j \in Job : state[j] \in TERMINAL_STATES}
    /\ writing \in [Job -> JOB_STATES \union {None}]
    /\ stamp \in [Job -> BOOLEAN \union {None}]
    /\ \A j \in Job : stamp[j] # None => writing[j] # None
    /\ completed \in BOOLEAN
    /\ wakes \subseteq Job \X {"job", "group"}
    /\ probed \in [row : Job \union {None}, why : {"satisfied", "missing", None}]
    /\ probed.row # None => Is(probed.row, "waiting")
    /\ retiring \in Job \union {None}
    /\ met \in [Job -> BOOLEAN]
    /\ late \subseteq Job

Nobody == [row |-> None, why |-> None]

Init ==
    /\ state = [j \in Job |-> HISTORY_ORIGIN]
    /\ gone = {}
    /\ writing = [j \in Job |-> None]
    /\ stamp = [j \in Job |-> None]
    /\ completed = FALSE
    /\ wakes = {}
    /\ probed = Nobody
    /\ retiring = None
    /\ met = [j \in Job |-> FALSE]
    /\ late = {}

------------------------------------------------------------------------------
(* Writing a row.  A worker that records `finished` goes on to wake.       *)

Crosses(j, to) ==
    j \in Dag /\ (state[j] \in TERMINAL_STATES <=> to \notin TERMINAL_STATES)

Reach(j, to) ==
    /\ state' = [state EXCEPT ![j] = to]
    /\ wakes' = IF to = "finished" THEN wakes \union {<<j, "job">>} ELSE wakes

\* An UPDATE of one row: committed at once unless the trigger fires.
Write(j, to) ==
    IF Crosses(j, to)
    THEN /\ writing' = [writing EXCEPT ![j] = to]
         /\ UNCHANGED <<rows, stamp, completed, wakes>>
    ELSE Reach(j, to) /\ UNCHANGED <<gone, dag>>

\* What a transaction on j sees: committed rows, and its own.
Pending(j) == {i \in Dag : /\ Exists(i)
                           /\ (IF i = j THEN writing[j] ELSE state[i]) \notin TERMINAL_STATES}

\* Mutant: counted without locking the DAG row.
Trigger_NoLock(j) ==
    /\ writing[j] # None /\ stamp[j] = None
    /\ stamp' = [stamp EXCEPT ![j] = (Pending(j) = {})]
    /\ UNCHANGED <<rows, writing, completed, wakes, probed, retiring>>

\* complete_jorb_dag(): whoever has a stamp holds the DAG row's lock.
Trigger(j) ==
    /\ writing[j] # None /\ \A i \in Dag : stamp[i] = None
    /\ stamp' = [stamp EXCEPT ![j] = (Pending(j) = {})]
    /\ UNCHANGED <<rows, writing, completed, wakes, probed, retiring>>

CommitMember(j) ==
    /\ stamp[j] # None
    /\ completed' = stamp[j]
    /\ Reach(j, writing[j])
    /\ writing' = [writing EXCEPT ![j] = None]
    /\ stamp' = [stamp EXCEPT ![j] = None]
    /\ UNCHANGED <<gone, probed, retiring>>

\* The connection died and everything is rolled back (before the trigger has
\* run there is nothing to tell it from an update that was never sent).
Rollback(j) ==
    /\ stamp[j] # None
    /\ writing' = [writing EXCEPT ![j] = None]
    /\ stamp' = [stamp EXCEPT ![j] = None]
    /\ UNCHANGED <<rows, completed, wakes, probed, retiring>>

------------------------------------------------------------------------------
(* Clients, workers and operators                                          *)

Initially(j) == IF HasDependency(j) THEN "waiting" ELSE "queued"

\* A fan-out or a DAG is written whole, in one transaction.
EnqueueBatch(B) ==
    /\ \A j \in B : state[j] = HISTORY_ORIGIN
    /\ state' = [j \in Job |-> IF j \in B THEN Initially(j) ELSE state[j]]
    /\ UNCHANGED <<gone, dag, wakes, probed, retiring>>

Move(j, from, to) ==
    /\ Exists(j) /\ ~Locked(j) /\ state[j] \in from
    /\ Write(j, to)
    /\ UNCHANGED <<probed, retiring>>

Claim(j) == Move(j, {"queued"}, "claimed")
Finish(j) == Move(j, {"claimed"}, "finished")
Crash(j) == Move(j, {"claimed"}, "crashed")

\* retry, reschedule and the recovery sweeps: the dependency was met once.
RetryAttempt(j) == Move(j, {"claimed"}, "queued")

Cancel(j) == Move(j, LIVE_STATES, "cancelled")

\* Mutant: whatever is requeued becomes claimable.
Requeue_Queued(j) == Move(j, TERMINAL_STATES, "queued")

\* retry and rerun: a row with a dependency is parked again, satisfied or not.
Requeue(j) == Move(j, TERMINAL_STATES, Initially(j))

------------------------------------------------------------------------------
(* The edge                                                                *)

\* One wake statement; rows locked by somebody else are skipped.
Release(W) ==
    state' = [j \in Job |-> IF j \in W /\ Is(j, "waiting") /\ ~Locked(j)
                            THEN "queued" ELSE state[j]]

WakeDependents(u) ==
    \/ /\ <<u, "job">> \in wakes
       /\ Release({j \in Job : waitfor_job[j] = u /\ Is(u, "finished")})
       /\ wakes' = (wakes \ {<<u, "job">>})
                     \union (IF run_group[u] = None THEN {} ELSE {<<u, "group">>})
       /\ UNCHANGED <<gone, dag, probed, retiring>>
    \/ /\ <<u, "group">> \in wakes
       /\ Release({j \in Job : waitfor_group[j] = run_group[u]
                                 /\ \A i \in Members(run_group[u]) : state[i] = "finished"})
       /\ wakes' = wakes \ {<<u, "group">>}
       /\ UNCHANGED <<gone, dag, probed, retiring>>

\* The worker died between its outcome and the wake.
LoseWake(e) ==
    /\ e \in wakes
    /\ wakes' = wakes \ {e}
    /\ UNCHANGED <<rows, dag, probed, retiring>>

------------------------------------------------------------------------------
(* The level: sweep_stranded_waiters(), a row at a time                    *)

\* Mutant: the group probe is not there.
ProbeWaiter_JobOnly(j, why) ==
    /\ probed = Nobody
    /\ Is(j, "waiting") /\ ~Locked(j) /\ waitfor_job[j] # None
    /\ IF why = "satisfied" THEN Satisfied(j) ELSE Missing(j)
    /\ probed' = [row |-> j, why |-> why]
    /\ UNCHANGED <<rows, dag, wakes, retiring>>

ProbeWaiter(j, why) ==
    /\ probed = Nobody
    /\ Is(j, "waiting") /\ ~Locked(j)
    /\ IF why = "satisfied" THEN Satisfied(j) ELSE Missing(j)
    /\ probed' = [row |-> j, why |-> why]
    /\ UNCHANGED <<rows, dag, wakes, retiring>>

\* Mutant: the write believes the probe.
SweepWaiter_Blind ==
    /\ probed # Nobody
    /\ Write(probed.row, IF probed.why = "satisfied" THEN "queued" ELSE "cancelled")
    /\ probed' = Nobody
    /\ UNCHANGED retiring

\* The write verifies the dependency again under the row lock.
SweepWaiter ==
    /\ probed # Nobody
    /\ \/ probed.why = "satisfied" /\ Satisfied(probed.row) /\ Write(probed.row, "queued")
       \/ probed.why = "missing" /\ Missing(probed.row) /\ Write(probed.row, "cancelled")
       \/ /\ IF probed.why = "satisfied" THEN ~Satisfied(probed.row) ELSE ~Missing(probed.row)
          /\ UNCHANGED <<rows, dag, wakes>>
    /\ probed' = Nobody
    /\ UNCHANGED retiring

------------------------------------------------------------------------------
(* Retention: sweep_expired_jobs(), a row at a time                        *)

\* Terminal for longer than the retention window: a time in which a worker
\* that is to wake the row's dependents has done it, or died.
Expired(u) ==
    /\ Exists(u) /\ state[u] \in TERMINAL_STATES
    /\ {<<u, "job">>, <<u, "group">>} \intersect wakes = {}

\* Mutant: only parked dependents keep a job.
ProbeExpired_Parked(u) ==
    /\ retiring = None
    /\ Expired(u) /\ ~Locked(u)
    /\ \A j \in Job : DependsOn(j, u) => ~Is(j, "waiting")
    /\ retiring' = u
    /\ UNCHANGED <<rows, dag, wakes, probed>>

ProbeExpired(u) ==
    /\ retiring = None
    /\ Expired(u) /\ ~Locked(u)
    /\ \A j \in Job : DependsOn(j, u) => ~Live(j)
    /\ retiring' = u
    /\ UNCHANGED <<rows, dag, wakes, probed>>

DeleteExpired ==
    /\ retiring # None
    /\ gone' = gone \union {retiring}
    /\ retiring' = None
    /\ UNCHANGED <<state, dag, wakes, probed>>

------------------------------------------------------------------------------
UpdateHistory ==
    /\ met' = [j \in Job |-> \/ Satisfied(j)'
                             \/ met[j] /\ ~(state'[j] = "waiting" /\ state[j] # "waiting")]
    /\ late' = {j \in Job : IF Live(j)' /\ ~Live(j)
                            THEN \/ retiring # None /\ DependsOn(j, retiring)
                                 \/ use_result_from[j] # None /\ ~Exists(use_result_from[j])'
                            ELSE j \in late}

Worker(j) ==
    Claim(j) \/ Finish(j) \/ Crash(j) \/ RetryAttempt(j) \/ WakeDependents(j)

Transaction(j) == Trigger(j) \/ CommitMember(j) \/ Rollback(j)

Monitor ==
    \/ \E j \in Job, why \in {"satisfied", "missing"} : ProbeWaiter(j, why)
    \/ SweepWaiter
    \/ \E j \in Job : ProbeExpired(j)
    \/ DeleteExpired

Step ==
    \/ \E B \in Batches : EnqueueBatch(B)
    \/ \E j \in Job : Worker(j) \/ Cancel(j) \/ Requeue(j) \/ Transaction(j)
    \/ \E e \in wakes : LoseWake(e)
    \/ Monitor

Next == Step /\ UpdateHistory

Spec == Init /\ [][Next]_vars

\* The monitor's pass comes round and takes up to 500 rows at once, so each
\* row it keeps finding is probed in the end; not every transaction is rolled
\* back.  No worker and no wake is fair.
Probe(j) == (\E why \in {"satisfied", "missing"} : ProbeWaiter(j, why)) /\ UpdateHistory
Waiters == {j \in Job : HasDependency(j)}

FairSpec ==
    /\ Spec
    /\ \A j \in Waiters : SF_vars(Probe(j))
    /\ WF_vars(SweepWaiter /\ UpdateHistory)
    /\ \A j \in Dag : WF_vars(Trigger(j) /\ UpdateHistory)
    /\ \A j \in Dag : SF_vars(CommitMember(j) /\ UpdateHistory)

------------------------------------------------------------------------------
\* A waiter is never claimed before its dependency was satisfied, counted from
\* when it was last parked: whatever cancelled it, requeued it, retried it or
\* reran its upstream (build_requeue_sql's CASE, the wakes, the sweeps).
DependencyHonoured ==
    [][\A j \in Job :
           state[j] = "queued" /\ state'[j] = "claimed" /\ HasDependency(j) => met[j]]_vars

\* The monitor moves a parked row on what is true when it writes, not on what
\* its probe saw: upstreams are rerun and groups are enqueued in between.
SweepActsOnTruth ==
    [][probed # Nobody /\ probed' = Nobody =>
           /\ state'[probed.row] = "queued" => Satisfied(probed.row)
           /\ "cancelled" \in {state'[probed.row], writing'[probed.row]}
                  => Missing(probed.row)]_vars

\* jorb_dag.completed is set exactly when every member is terminal, however
\* the members' transactions overlap, roll back or take members back to work.
DagCompletedTruthful ==
    completed <=> \A j \in Dag : state[j] \in TERMINAL_STATES

\* A job that is claimed still has the rows it reads, whether it was parked for
\* them or, with use_result_from alone, never was: retention spares what an
\* unfinished job depends on.  Excused are rows that became live while a
\* retention transaction was open on such a row, or when it was not there.
InputAvailable ==
    [][\A j \in Job :
           state[j] = "queued" /\ state'[j] = "claimed" /\ j \notin late
               => \A i \in Inputs(j) : Exists(i)]_vars

\* No waiter stays parked on a dependency that is and stays satisfied, nor on
\* a target that does not exist, although every wake may be lost.
NoStrandedWaiter ==
    \A j \in Job : ~<>[](Is(j, "waiting") /\ (Satisfied(j) \/ Missing(j)))
==============================================================================
