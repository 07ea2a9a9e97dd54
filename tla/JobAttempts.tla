----------------------------- MODULE JobAttempts -----------------------------
(***************************************************************************)
(* The attempt protocol: worker processes claim rows of the jorb table,    *)
(* execute them and record an outcome, while the monitor's sweeps take     *)
(* work away from workers it believes dead, stuck or late, and operators   *)
(* cancel and requeue.  Nothing coordinates these actors but the rows:     *)
(* every statement that ends an attempt is guarded by the row's state and  *)
(* by run_epoch, the fencing token a claim increments, and advances it.    *)
(*                                                                         *)
(* An action is one SQL statement as the database commits it, together     *)
(* with what the process that sent it does with the answer before it next  *)
(* waits.  A statement whose acknowledgement is lost with the connection   *)
(* is sent again by JobSystem.ex() after it reconnects: the Lose... actions *)
(* commit the statement and leave the sender where it was, about to repeat *)
(* it.  Time is left out: whatever a clock decides (a deadline, a stale    *)
(* heartbeat, a backoff) may happen as soon as the rows allow it.          *)
(*                                                                         *)
(* Jobs here carry no waitfor dependency, and a queue no admission limit.  *)
(***************************************************************************)
EXTENDS Lifecycle, Naturals, FiniteSets

CONSTANTS
    Job,              \* rows of the jorb table
    Worker,           \* worker process starts, each with its own registry row
    None,             \* NULL
    MaxRetries,       \* admin_data.max_retries
    JobThreads,       \* --job-threads, the size of a worker's thread pool
    Deadlined,        \* jobs with a timeout (timeout=0 jobs are the others)
    FailOnTimeout,    \* jobs with admin_data.on_timeout = 'fail'
    Sleepers,         \* jobs whose task calls reschedule() or sleep()
    HeartbeatFaults,  \* TRUE: a live worker's heartbeat can fail to arrive
    MaxEpoch          \* bound: a row is not disturbed from this epoch on

ASSUME AttemptsAssumption ==
    /\ None \notin Job \union Worker
    /\ MaxRetries \in Nat \ {0}
    /\ JobThreads \in Nat \ {0}
    /\ Deadlined \subseteq Job
    /\ FailOnTimeout \subseteq Job
    /\ Sleepers \subseteq Job
    /\ HeartbeatFaults \in BOOLEAN
    /\ MaxEpoch \in Nat

VARIABLES
    \* columns of jorb
    state, run_epoch, claimed_by, cancel_requested,
    error_count,
    timeout_at,       \* timeout_at IS NOT NULL
    \* jorb_worker: "unregistered", then "fresh" or "stale" by last_seen
    \* against the liveness grace, "deleted" once retention removed the row
    registry,
    \* a worker process
    pc,               \* the statement or task it is at
    stopping,         \* JobSystem.stop, set by SIGTERM
    job, epoch, errors,  \* its copy of the claimed row: id, run_epoch, error_count
    op,               \* the outcome it is recording
    note,             \* a jorb_cancel notification waits in its connection
    abandoned         \* code left behind: <<worker, job, epoch>> still running

jorb == <<state, run_epoch, claimed_by, cancel_requested,
          error_count, timeout_at>>
attempt == <<job, epoch, errors, op, note>>
process == <<registry, stopping>>
vars == <<jorb, attempt, process, pc, abandoned>>

------------------------------------------------------------------------------
(* What a worker process can be doing.  "claimed": the claim was answered;  *)
(* the row's class is being loaded and its inputs fetched.  "starting": a   *)
(* `run` statement was committed and its answer lost.  "executing": the     *)
(* task runs.  "recording": in ex(), writing the outcome in op.             *)
(***************************************************************************)
Outcomes == {"finished", "crashed", "cancelled", "retry"}
Holding == {"claimed", "starting", "executing", "recording"}
Phases == {"unborn", "idle", "down"} \union Holding

Up(w) == pc[w] \notin {"unborn", "down"}
Holds(w, j) == pc[w] \in Holding /\ job[w] = j

\* Mutant: the fence without its token.
Fence_StateOnly(w) == state[job[w]] \in IN_FLIGHT_STATES

\* The WHERE clause of run, finished, crashed, cancelled, retry, reschedule.
Fence(w) == /\ state[job[w]] \in IN_FLIGHT_STATES
            /\ run_epoch[job[w]] = epoch[w]

\* Bound: what the environment may still do to row j.
Disturbable(j) == run_epoch[j] < MaxEpoch
UndisturbedWhileHeld(j) == (\E w \in Worker : Holds(w, j)) => Disturbable(j)

TypeOK ==
    /\ state \in [Job -> JOB_STATES \union {HISTORY_ORIGIN}]
    /\ run_epoch \in [Job -> Nat]
    /\ claimed_by \in [Job -> Worker \union {None}]
    /\ cancel_requested \in [Job -> BOOLEAN]
    /\ error_count \in [Job -> Nat]
    /\ timeout_at \in [Job -> BOOLEAN]
    /\ registry \in [Worker -> {"unregistered", "fresh", "stale", "deleted"}]
    /\ pc \in [Worker -> Phases]
    /\ stopping \in [Worker -> BOOLEAN]
    /\ job \in [Worker -> Job \union {None}]
    /\ epoch \in [Worker -> Nat]
    /\ errors \in [Worker -> Nat]
    /\ op \in [Worker -> Outcomes \union {None}]
    /\ note \in [Worker -> BOOLEAN]
    /\ abandoned \subseteq Worker \X Job \X Nat
    /\ \A w \in Worker : pc[w] \in Holding => job[w] \in Job
    /\ \A w \in Worker : pc[w] = "recording" => op[w] \in Outcomes

Init ==
    /\ state = [j \in Job |-> HISTORY_ORIGIN]
    /\ run_epoch = [j \in Job |-> 0]
    /\ claimed_by = [j \in Job |-> None]
    /\ cancel_requested = [j \in Job |-> FALSE]
    /\ error_count = [j \in Job |-> 0]
    /\ timeout_at = [j \in Job |-> FALSE]
    /\ registry = [w \in Worker |-> "unregistered"]
    /\ pc = [w \in Worker |-> "unborn"]
    /\ stopping = [w \in Worker |-> FALSE]
    /\ job = [w \in Worker |-> None]
    /\ epoch = [w \in Worker |-> 0]
    /\ errors = [w \in Worker |-> 0]
    /\ op = [w \in Worker |-> None]
    /\ note = [w \in Worker |-> FALSE]
    /\ abandoned = {}

------------------------------------------------------------------------------
(* The statements, as the columns they set.                                 *)

\* Mutant: the epoch is left as it was.
LeaveAttempt_SameEpoch(j, target) ==
    /\ state' = [state EXCEPT ![j] = target]
    /\ timeout_at' = [timeout_at EXCEPT ![j] = FALSE]
    /\ UNCHANGED <<run_epoch, claimed_by, cancel_requested>>

\* What finished, crashed, cancelled and retry share: the row leaves the
\* attempt, so its epoch advances and the deadline goes.
LeaveAttempt(j, target) ==
    /\ state' = [state EXCEPT ![j] = target]
    /\ run_epoch' = [run_epoch EXCEPT ![j] = @ + 1]
    /\ timeout_at' = [timeout_at EXCEPT ![j] = FALSE]
    /\ UNCHANGED <<claimed_by, cancel_requested>>

Finished(j)  == LeaveAttempt(j, "finished") /\ UNCHANGED error_count
Cancelled(j) == LeaveAttempt(j, "cancelled") /\ UNCHANGED error_count
Crashed(j)   == /\ LeaveAttempt(j, "crashed")
                /\ error_count' = [error_count EXCEPT ![j] = @ + 1]
Retry(j)     == /\ LeaveAttempt(j, "queued")
                /\ error_count' = [error_count EXCEPT ![j] = @ + 1]

\* claim_jorb() on a queue with no limits: any queued row may be the one that
\* prio, run_after and SKIP LOCKED select.
ClaimRow(w, j) ==
    /\ state[j] = "queued"
    /\ state' = [state EXCEPT ![j] = "claimed"]
    /\ claimed_by' = [claimed_by EXCEPT
                        ![j] = IF registry[w] = "unregistered" THEN None ELSE w]
    /\ run_epoch' = [run_epoch EXCEPT ![j] = @ + 1]
    /\ UNCHANGED <<cancel_requested, error_count, timeout_at>>

\* Mutant: the deadline is not stamped.
RunRow_NoDeadline(w) ==
    /\ Fence(w)
    /\ state' = [state EXCEPT ![job[w]] = "running"]
    /\ UNCHANGED <<run_epoch, claimed_by, cancel_requested, error_count, timeout_at>>

\* STMTS["run"]: idempotent at its own epoch.
RunRow(w) ==
    /\ Fence(w)
    /\ state' = [state EXCEPT ![job[w]] = "running"]
    /\ timeout_at' = [timeout_at EXCEPT ![job[w]] = job[w] \in Deadlined]
    /\ UNCHANGED <<run_epoch, claimed_by, cancel_requested, error_count>>

\* The sweeps that put a batch of rows back in the queue.
RequeueRows(S) ==
    /\ state' = [j \in Job |-> IF j \in S THEN "queued" ELSE state[j]]
    /\ run_epoch' = [j \in Job |-> run_epoch[j] + (IF j \in S THEN 1 ELSE 0)]
    /\ timeout_at' = [j \in Job |-> timeout_at[j] /\ j \notin S]
    /\ UNCHANGED <<claimed_by, cancel_requested, error_count>>

------------------------------------------------------------------------------
(* Moves of a worker between statements.                                    *)

GoTo(w, phase) == pc' = [pc EXCEPT ![w] = phase]

\* Mutant: what the listener heard outlives the job it was about.
LetGo_KeepsNote(w, phase) ==
    /\ GoTo(w, phase)
    /\ job' = [job EXCEPT ![w] = None]
    /\ epoch' = [epoch EXCEPT ![w] = 0]
    /\ errors' = [errors EXCEPT ![w] = 0]
    /\ op' = [op EXCEPT ![w] = None]
    /\ UNCHANGED note

\* _process returns: the job is no longer this worker's, whatever came of it.
LetGo(w, phase) ==
    /\ GoTo(w, phase)
    /\ job' = [job EXCEPT ![w] = None]
    /\ epoch' = [epoch EXCEPT ![w] = 0]
    /\ errors' = [errors EXCEPT ![w] = 0]
    /\ op' = [op EXCEPT ![w] = None]
    /\ note' = [note EXCEPT ![w] = FALSE]

\* Mutant: the outcome is forgotten.
Resolve_NoOutcome(w, o) ==
    /\ GoTo(w, "recording")
    /\ note' = [note EXCEPT ![w] = FALSE]
    /\ UNCHANGED <<job, epoch, errors, op>>

\* The worker turns to recording outcome o.  Its listener is deaf from here:
\* _on_cancel ignores a notification once the execution task is done.
Resolve(w, o) ==
    /\ GoTo(w, "recording")
    /\ op' = [op EXCEPT ![w] = o]
    /\ note' = [note EXCEPT ![w] = FALSE]
    /\ UNCHANGED <<job, epoch, errors>>

\* Whether the task's thread, or what the task spawned, outlives the attempt.
MayAbandonCode(w) ==
    abandoned' \in {abandoned, abandoned \union {<<w, job[w], epoch[w]>>}}

\* A lost connection while stopping makes ex() raise, and the process ends;
\* otherwise the worker reconnects and repeats the statement.
Reconnect(w, phase) ==
    IF stopping[w]
    THEN LetGo(w, "down")
    ELSE /\ GoTo(w, phase)
         /\ note' = [note EXCEPT ![w] = FALSE]
         /\ UNCHANGED <<job, epoch, errors, op>>

------------------------------------------------------------------------------
(* A worker process.                                                        *)

\* JobClient.enqueue() of a job with no dependency.
Enqueue(j) ==
    /\ state[j] = HISTORY_ORIGIN
    /\ state' = [state EXCEPT ![j] = "queued"]
    /\ UNCHANGED <<run_epoch, claimed_by, cancel_requested, error_count,
                   timeout_at, attempt, process, pc, abandoned>>

\* run() up to the main loop.  When the registry is unreachable the worker
\* goes on UNREGISTERED and its heartbeat loop registers it later.
Start(w) ==
    /\ pc[w] = "unborn"
    /\ GoTo(w, "idle")
    /\ \E r \in {"fresh", "unregistered"} :
           registry' = [registry EXCEPT ![w] = r]
    /\ UNCHANGED <<jorb, attempt, stopping, abandoned>>

\* An iteration of _heartbeat_loop, which runs `while not self.stop`.  The
\* heartbeat of a deleted row updates nothing.
Beat(w) ==
    /\ Up(w) /\ ~stopping[w]
    /\ registry[w] \in {"unregistered", "stale"}
    /\ registry' = [registry EXCEPT ![w] = "fresh"]
    /\ UNCHANGED <<jorb, attempt, stopping, pc, abandoned>>

\* last_seen falls behind the liveness grace: nothing beats for this row any
\* more, or the beats of a live worker do not arrive.
GoStale(w) ==
    /\ registry[w] = "fresh"
    /\ pc[w] = "down" \/ stopping[w] \/ HeartbeatFaults
    /\ registry' = [registry EXCEPT ![w] = "stale"]
    /\ UNCHANGED <<jorb, attempt, stopping, pc, abandoned>>

\* Mutant: one slot too few.
PoolHasRoom_OffByOne(w) ==
    Cardinality({a \in abandoned : a[1] = w}) + 1 < JobThreads

\* An abandoned thread holds a slot of the pool until it ends by itself.
PoolHasRoom(w) == Cardinality({a \in abandoned : a[1] = w}) < JobThreads

Claim(w, j) ==
    /\ pc[w] = "idle" /\ ~stopping[w]
    /\ PoolHasRoom(w)
    /\ ClaimRow(w, j)
    /\ GoTo(w, "claimed")
    /\ job' = [job EXCEPT ![w] = j]
    /\ epoch' = [epoch EXCEPT ![w] = run_epoch[j] + 1]
    /\ errors' = [errors EXCEPT ![w] = error_count[j]]
    /\ UNCHANGED <<op, note, process, abandoned>>

\* The claim commits and its rows never arrive: ex() claims again, and gets
\* a different job.
LoseClaimAck(w, j) ==
    /\ pc[w] = "idle" /\ ~stopping[w]
    /\ PoolHasRoom(w)
    /\ Disturbable(j)
    /\ ClaimRow(w, j)
    /\ UNCHANGED <<attempt, process, pc, abandoned>>

\* Mutant: the attempt that just failed is not counted.
FailureOutcome_OffByOne(w, timedOut) ==
    IF /\ errors[w] < MaxRetries
       /\ timedOut => job[w] \notin FailOnTimeout
    THEN "retry" ELSE "crashed"

\* The failure path's choice: another attempt, or the dead letter queue.
FailureOutcome(w, timedOut) ==
    IF /\ errors[w] + 1 < MaxRetries
       /\ timedOut => job[w] \notin FailOnTimeout
    THEN "retry" ELSE "crashed"

\* The class does not load, or the upstream result is not there.
PrepareFails(w) ==
    /\ pc[w] = "claimed"
    /\ Resolve(w, FailureOutcome(w, FALSE))
    /\ UNCHANGED <<jorb, process, abandoned>>

RunBegins(w) ==
    /\ pc[w] \in {"claimed", "starting"}
    /\ RunRow(w)
    /\ ~cancel_requested[job[w]]
    /\ GoTo(w, "executing")
    /\ UNCHANGED <<attempt, process, abandoned>>

\* The row came back with cancel_requested: not a line of the task runs.
RunFindsCancel(w) ==
    /\ pc[w] \in {"claimed", "starting"}
    /\ RunRow(w)
    /\ cancel_requested[job[w]]
    /\ Resolve(w, "cancelled")
    /\ UNCHANGED <<process, abandoned>>

\* Zero rows: requeued between claim and run.
RunSuperseded(w) ==
    /\ pc[w] \in {"claimed", "starting"}
    /\ ~Fence(w)
    /\ LetGo(w, "idle")
    /\ UNCHANGED <<jorb, process, abandoned>>

LoseRunAck(w) ==
    /\ pc[w] \in {"claimed", "starting"}
    /\ Disturbable(job[w])
    /\ RunRow(w)
    /\ Reconnect(w, "starting")
    /\ UNCHANGED <<process, abandoned>>

TaskReturns(w) ==
    /\ pc[w] = "executing"
    /\ Resolve(w, "finished")
    /\ UNCHANGED <<jorb, process, abandoned>>

TaskRaises(w) ==
    /\ pc[w] = "executing"
    /\ Resolve(w, FailureOutcome(w, FALSE))
    /\ UNCHANGED <<jorb, process, abandoned>>

\* The worker's own deadline for the job expires (dxe.JobTimeout).
TaskTimesOut(w) ==
    /\ pc[w] = "executing"
    /\ job[w] \in Deadlined
    /\ MayAbandonCode(w)
    /\ Resolve(w, FailureOutcome(w, TRUE))
    /\ UNCHANGED <<jorb, process>>

\* _on_cancel interrupts the execution task.  Job code may catch that and carry
\* on: then the task ends as it would have.
TaskCancelled(w) ==
    /\ pc[w] = "executing"
    /\ note[w]
    /\ MayAbandonCode(w)
    /\ Resolve(w, "cancelled")
    /\ UNCHANGED <<jorb, process>>

\* reschedule() and sleep(): the row goes back to the queue under the running
\* task.  The statement leaves timeout_at as it is.
TaskReschedules(w) ==
    /\ pc[w] = "executing"
    /\ job[w] \in Sleepers
    /\ Disturbable(job[w])
    /\ Fence(w)
    /\ state' = [state EXCEPT ![job[w]] = "queued"]
    /\ run_epoch' = [run_epoch EXCEPT ![job[w]] = @ + 1]
    /\ UNCHANGED <<claimed_by, cancel_requested, error_count, timeout_at,
                   attempt, process, pc, abandoned>>

\* The task unwinds: DurableSleep after its reschedule, or a durable write
\* that was fenced out (StaleExecutionError).
TaskUnwinds(w) ==
    /\ pc[w] = "executing"
    /\ run_epoch[job[w]] # epoch[w]
    /\ LetGo(w, "idle")
    /\ UNCHANGED <<jorb, process, abandoned>>

\* The outcome statement, applied to the row.
OutcomeRow(w) ==
    /\ Fence(w)
    /\ \/ op[w] = "finished"  /\ Finished(job[w])
       \/ op[w] = "crashed"   /\ Crashed(job[w])
       \/ op[w] = "cancelled" /\ Cancelled(job[w])
       \/ op[w] = "retry"     /\ Retry(job[w])

Record(w) ==
    /\ pc[w] = "recording"
    /\ OutcomeRow(w)
    /\ LetGo(w, "idle")
    /\ UNCHANGED <<process, abandoned>>

\* Zero rows: the outcome belongs to whoever owns the row now.
RecordSuperseded(w) ==
    /\ pc[w] = "recording"
    /\ ~Fence(w)
    /\ LetGo(w, "idle")
    /\ UNCHANGED <<jorb, process, abandoned>>

LoseRecordAck(w) ==
    /\ pc[w] = "recording"
    /\ OutcomeRow(w)
    /\ Reconnect(w, "recording")
    /\ UNCHANGED <<process, abandoned>>

\* The result cannot be stored: the attempt fails after all.
FinishRefused(w) ==
    /\ pc[w] = "recording" /\ op[w] = "finished"
    /\ Resolve(w, FailureOutcome(w, FALSE))
    /\ UNCHANGED <<jorb, process, abandoned>>

\* The listening connection drops under a long task; nothing replays the
\* notification.
LoseNotification(w) ==
    /\ note[w]
    /\ note' = [note EXCEPT ![w] = FALSE]
    /\ UNCHANGED <<jorb, process, pc, job, epoch, errors, op, abandoned>>

AbandonedCodeEnds(a) ==
    /\ a \in abandoned
    /\ abandoned' = abandoned \ {a}
    /\ UNCHANGED <<jorb, attempt, process, pc>>

\* SIGTERM: finish the current job, claim no other, exit.
Shutdown(w) ==
    /\ Up(w) /\ ~stopping[w]
    /\ \E v \in Worker \ {w} : pc[v] # "down" /\ ~stopping[v]  \* bound: one stays
    /\ stopping' = [stopping EXCEPT ![w] = TRUE]
    /\ UNCHANGED <<jorb, attempt, registry, pc, abandoned>>

\* run() returns.  Its last act deregisters the worker; the threads left in
\* the pool keep the process until they end.
Exit(w) ==
    /\ pc[w] = "idle" /\ stopping[w]
    /\ LetGo(w, "down")
    /\ UNCHANGED <<jorb, process, abandoned>>

\* The connection is lost before the statement commits, while stopping: ex()
\* raises, and the job is left as it is.
GiveUp(w) ==
    /\ pc[w] \in {"claimed", "starting", "recording"} /\ stopping[w]
    /\ LetGo(w, "down")
    /\ UNCHANGED <<jorb, process, abandoned>>

\* SIGKILL, or the host is lost.
Crash(w) ==
    /\ Up(w)
    /\ \E v \in Worker \ {w} : pc[v] # "down" /\ ~stopping[v]  \* bound: one stays
    /\ pc[w] \in Holding => Disturbable(job[w])
    /\ LetGo(w, "down")
    /\ abandoned' = {a \in abandoned : a[1] # w}
    /\ UNCHANGED <<jorb, process>>

------------------------------------------------------------------------------
(* The monitor.  A sweep takes any batch: SKIP LOCKED and LIMIT choose.     *)

\* sweep_timed_out_jobs: the whole batch is decided under its row locks.
SweepTimedOut(S) ==
    /\ S # {}
    /\ \A j \in S : state[j] = "running" /\ timeout_at[j]
    /\ LET retried == {j \in S : /\ error_count[j] + 1 < MaxRetries
                                 /\ j \notin FailOnTimeout}
       IN state' = [j \in Job |-> IF j \in retried THEN "queued"
                                  ELSE IF j \in S THEN "crashed" ELSE state[j]]
    /\ run_epoch' = [j \in Job |-> run_epoch[j] + (IF j \in S THEN 1 ELSE 0)]
    /\ error_count' = [j \in Job |-> error_count[j] + (IF j \in S THEN 1 ELSE 0)]
    /\ timeout_at' = [j \in Job |-> timeout_at[j] /\ j \notin S]
    /\ UNCHANGED <<claimed_by, cancel_requested, attempt, process, pc, abandoned>>

DeadWorkerJob(j) == /\ state[j] \in IN_FLIGHT_STATES
                    /\ claimed_by[j] # None
                    /\ registry[claimed_by[j]] = "stale"

SweepDeadWorkers(S) ==
    /\ S # {}
    /\ \A j \in S : DeadWorkerJob(j) /\ UndisturbedWhileHeld(j)
    /\ RequeueRows(S)
    /\ UNCHANGED <<attempt, process, pc, abandoned>>

SweepStuckClaims(S) ==
    /\ S # {}
    /\ \A j \in S : state[j] = "claimed" /\ UndisturbedWhileHeld(j)
    /\ RequeueRows(S)
    /\ UNCHANGED <<attempt, process, pc, abandoned>>

\* sweep_retired_workers: the row of a worker silent for the whole retention
\* window (so long that no process is left behind it), unless it still owns
\* in-flight work.
DeleteRetiredWorker(w) ==
    /\ pc[w] = "down" /\ registry[w] = "stale"
    /\ \A j \in Job : claimed_by[j] = w => state[j] \notin IN_FLIGHT_STATES
    /\ registry' = [registry EXCEPT ![w] = "deleted"]
    /\ UNCHANGED <<jorb, attempt, stopping, pc, abandoned>>

------------------------------------------------------------------------------
(* Operators.                                                               *)

\* Mutant: a row that has ended is cancelled too.
Cancel_Ended(j) ==
    /\ \/ /\ state[j] \in PRE_CLAIM_STATES \union TERMINAL_STATES
          /\ state' = [state EXCEPT ![j] = "cancelled"]
          /\ UNCHANGED <<cancel_requested, note>>
       \/ /\ state[j] \in IN_FLIGHT_STATES
          /\ cancel_requested' = [cancel_requested EXCEPT ![j] = TRUE]
          /\ UNCHANGED <<state, note>>
    /\ UNCHANGED <<run_epoch, claimed_by, error_count, timeout_at,
                   job, epoch, errors, op, process, pc, abandoned>>

\* CANCEL_SQL.  Cancelling a running row notifies every listening worker;
\* those executing the job react, whatever attempt they are on, unless their
\* connection is down or their execution task is not there yet.
Cancel(j) ==
    /\ \/ /\ state[j] \in PRE_CLAIM_STATES
          /\ state' = [state EXCEPT ![j] = "cancelled"]
          /\ UNCHANGED <<cancel_requested, note>>
       \/ /\ state[j] \in IN_FLIGHT_STATES
          /\ cancel_requested' = [cancel_requested EXCEPT ![j] = TRUE]
          /\ \E heard \in SUBSET {w \in Worker : pc[w] = "executing"
                                                 /\ job[w] = j
                                                 /\ state[j] = "running"} :
                 note' = [w \in Worker |-> note[w] \/ w \in heard]
          /\ UNCHANGED state
    /\ UNCHANGED <<run_epoch, claimed_by, error_count, timeout_at,
                   job, epoch, errors, op, process, pc, abandoned>>

\* retry_job and rerun_job on a terminal row, with or without reset_errors.
Requeue(j, resetErrors) ==
    /\ state[j] \in TERMINAL_STATES
    /\ Disturbable(j)
    /\ state' = [state EXCEPT ![j] = "queued"]
    /\ run_epoch' = [run_epoch EXCEPT ![j] = @ + 1]
    /\ error_count' = [error_count EXCEPT ![j] = IF resetErrors THEN 0 ELSE @]
    /\ cancel_requested' = [cancel_requested EXCEPT ![j] = FALSE]
    /\ timeout_at' = [timeout_at EXCEPT ![j] = FALSE]
    /\ UNCHANGED <<claimed_by, attempt, process, pc, abandoned>>

------------------------------------------------------------------------------
Process(w) ==
    \/ Start(w) \/ Beat(w) \/ GoStale(w) \/ Shutdown(w) \/ Exit(w)
    \/ GiveUp(w) \/ Crash(w)
    \/ \E j \in Job : Claim(w, j) \/ LoseClaimAck(w, j)
    \/ PrepareFails(w)
    \/ RunBegins(w) \/ RunFindsCancel(w) \/ RunSuperseded(w) \/ LoseRunAck(w)
    \/ TaskReturns(w) \/ TaskRaises(w) \/ TaskTimesOut(w)
    \/ TaskCancelled(w) \/ TaskReschedules(w) \/ TaskUnwinds(w)
    \/ Record(w) \/ RecordSuperseded(w) \/ LoseRecordAck(w) \/ FinishRefused(w)
    \/ LoseNotification(w)

Monitor ==
    \/ \E S \in SUBSET Job :
           SweepTimedOut(S) \/ SweepDeadWorkers(S) \/ SweepStuckClaims(S)
    \/ \E w \in Worker : DeleteRetiredWorker(w)

Operator ==
    \E j \in Job :
        \/ Enqueue(j) \/ Cancel(j)
        \/ \E resetErrors \in BOOLEAN : Requeue(j, resetErrors)

Next ==
    \/ \E w \in Worker : Process(w)
    \/ \E a \in abandoned : AbandonedCodeEnds(a)
    \/ Monitor
    \/ Operator

Spec == Init /\ [][Next]_vars

------------------------------------------------------------------------------
(* Fairness: what runs by itself.  A worker answers its statements, the     *)
(* deadline scope of _execute ends every task that has a deadline, a dead   *)
(* process stops beating, and the monitor's loop keeps sweeping.            *)

Recovery ==
    /\ \A w \in Worker :
           /\ WF_vars(RunBegins(w) \/ RunFindsCancel(w) \/ RunSuperseded(w))
           /\ WF_vars(TaskTimesOut(w))
           /\ WF_vars(Record(w) \/ RecordSuperseded(w))
           /\ WF_vars((pc[w] = "down" \/ stopping[w]) /\ GoStale(w))
    /\ \A j \in Job : /\ WF_vars(SweepTimedOut({j}))
                      /\ WF_vars(SweepDeadWorkers({j}))
                      /\ WF_vars(SweepStuckClaims({j}))

\* Besides: workers start, beat and keep claiming, abandoned code ends.
Progress ==
    /\ \A w \in Worker : /\ WF_vars(Start(w))
                         /\ WF_vars(Beat(w))
                         /\ WF_vars(\E j \in Job : Claim(w, j))
    /\ WF_vars(\E a \in abandoned : AbandonedCodeEnds(a))

RecoverySpec == Spec /\ Recovery

------------------------------------------------------------------------------
(* Properties.                                                              *)

\* Worker w holds the row's epoch: every statement fenced on it would apply.
Current(w) == pc[w] \in Holding /\ run_epoch[job[w]] = epoch[w]

\* Whatever still runs on behalf of an attempt: the process driving it and the
\* code that attempts left behind.  <<worker, job, epoch it knows>>
Executions == {<<w, job[w], epoch[w]>> : w \in {v \in Worker : pc[v] \in Holding}}
                  \union abandoned

\* Checkpoints, events, messages and stream rows are fenced on run_epoch and
\* nothing else (dxe.py).  That is enough: code that knows a row's epoch runs in
\* the worker that claimed the row last, which no other execution shares, and
\* the row is in flight.  It fails as soon as one statement that begins or ends
\* an attempt forgets to advance the epoch.
EpochIdentifiesAttempt ==
    \A a \in Executions : run_epoch[a[2]] = a[3] =>
        /\ state[a[2]] \in IN_FLIGHT_STATES
        /\ claimed_by[a[2]] \in {a[1], None}
        /\ \A b \in Executions : b[2] = a[2] /\ b[3] = a[3] => b[1] = a[1]

\* No in-flight row is out of everyone's reach: a process is still on its
\* attempt, or the stuck-claim sweep, the timeout sweep or the dead-worker
\* sweep can see it.  Excepted is what the platform says it cannot recover: a
\* job without deadline run by a worker that died UNREGISTERED.
NoOrphan ==
    \A j \in Job : state[j] \in IN_FLIGHT_STATES =>
        \/ \E w \in Worker : Current(w) /\ job[w] = j
        \/ state[j] = "claimed"
        \/ timeout_at[j]
        \/ claimed_by[j] = None
        \/ /\ pc[claimed_by[j]] = "down" \/ stopping[claimed_by[j]]
           /\ registry[claimed_by[j]] \in {"fresh", "stale"}

\* The failure path decides on the error_count it claimed with, the monitor on
\* the row's own: whichever of them requeues a failed attempt, the row that
\* results still has an attempt left.
RetryWithinBudget ==
    [][\A j \in Job :
          state'[j] = "queued" /\ error_count'[j] > error_count[j]
              => error_count'[j] < MaxRetries]_vars

\* A result is recorded, and a failure charged to the retry budget, only by the
\* process that claimed the row last, however many superseded executions of the
\* job are still reporting, or by the sweep that finds its deadline passed.  So
\* nobody pays for another attempt's failure, and one failure is paid once.
LatestClaimDecides ==
    [][\A j \in Job :
          (state[j] # "finished" /\ state'[j] = "finished")
              \/ error_count'[j] > error_count[j] =>
          \/ \E w \in Worker : /\ pc[w] = "recording" /\ job[w] = j /\ Current(w)
                               /\ claimed_by[j] \in {w, None}
          \/ /\ state[j] = "running" /\ timeout_at[j]
             /\ state'[j] # "finished" /\ error_count'[j] = error_count[j] + 1]_vars

\* An attempt ends as cancelled only while the operator's request stands: a
\* notification names the job and not the attempt, so one that was meant for
\* an earlier attempt must never take a later one down.
CancelledOnRequest ==
    [][\A j \in Job :
          state[j] \in IN_FLIGHT_STATES /\ state'[j] = "cancelled"
              => cancel_requested[j]]_vars

\* Every way this module moves jorb.state is an edge of LEGAL_TRANSITIONS.
Abstract == INSTANCE JobLifecycle WITH state <- state
ImplementsLifecycle == Abstract!Spec

\* An attempt ends, whatever happens to the task, to the process and to the
\* acknowledgements, with nothing but the deadline and the sweeps at work.
InFlightEnds ==
    \A j \in Job : state[j] \in IN_FLIGHT_STATES
                      ~> state[j] \notin IN_FLIGHT_STATES

\* Every job gets an outcome where workers keep claiming: nothing the platform
\* does by itself can keep a job going round between the queue and the workers.
EveryJobSettles ==
    Progress =>
        \A j \in Job : state[j] \in LIVE_STATES ~> state[j] \in TERMINAL_STATES

\* docs/OPERATIONS.md:50: a worker told to stop "finishes the one it is
\* running, then exits.  In-flight work is not abandoned".  So nobody else
\* requeues the row a stopping worker is executing.
DrainKeepsJob ==
    [][\A w \in Worker :
          stopping[w] /\ pc[w] = "executing" /\ Current(w) /\ pc'[w] = pc[w]
              => state'[job[w]] = "running"]_vars

==============================================================================
