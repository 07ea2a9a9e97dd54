# TLA+ verification of pyjobby

pyjobby is a job platform on PostgreSQL. Producers insert rows into the table
`jorb`; worker processes (`pyjobby/pj.py`) claim rows, run a Python class and
write an outcome; a monitor (`pyjobby/monitor.py`) takes work away from workers
that died, are stuck or are late; operators cancel, retry and re-run; a
scheduler inserts recurring work. There is no coordinator: processes meet only
in rows, statements and notifications. Correctness therefore sits in the
`WHERE` clauses, in the order of statements, and in one integer, `run_epoch`,
that fences superseded executions out. That is what these modules model.

## 1. Inventory

| Component | State it keeps | Operations | Interacts with |
|---|---|---|---|
| Job lifecycle (`lifecycle.py`) | the value of `jorb.state` | `LEGAL_TRANSITIONS`, `is_legal` | every writer of a row |
| Worker attempt protocol (`pj.py`) | claimed row, epoch, execution task, stop flag, job threads | claim, run, execute, finished / retry / crashed / cancelled / reschedule, reconnect and replay, heartbeat, shutdown | rows, registry, notifications |
| Monitor recovery (`monitor.py`) | none (rows only) | timed-out, dead-worker, stuck-claim, retired-worker sweeps | rows, registry |
| Operator verbs (`db.py`) | none | cancel, retry, rerun, fork, priority and version edits | rows |
| Claim admission (`30_claim.sql`, `20_queues.sql`) | queue controls, advisory lock, `claimed_at` | `claim_jorb` with pause, concurrency cap, rate limit, lanes | workers, operators |
| Dependencies (`pj.py`, `monitor.py`, `db.py`) | `waitfor_job`, `waitfor_group`, `run_group` | edge wake, level sweep, unsatisfiable sweep, requeue to waiting, retention | lifecycle, retention |
| Enqueue wakeups (`pj.py`, `90_notify.sql`) | `jorb_worker.idle`, `_idle`, the wake event | park, publish demand, deferred gate, notify, retire | claim, monitor |
| Durable execution (`dxe.py`, `pj.py`, `50_dxe.sql`) | checkpoints, step counter, published position | step, transaction, sleep, commit_position, rerun wipe | attempt fence, row lock |
| Mailbox, events, streams | mailbox rows, event values, stream positions | send, recv, set_event, stream_write, stream_close, read_stream | fence, notifications, retention |
| State machine jobs (`statemachine.py`, `fsm.py`) | machine state, event in hand | receive, transition, act, sleep | durable execution, mailbox |
| Dedupe keys (`client.py`, `enqueue_rules.py`, `10_jobs.sql`) | three unique indexes | enqueue, enqueue_identified, debounce | every statement that requeues |
| DAGs (`dag.py`, `91_dag_complete.sql`) | `jorb_dag.completed` | completion trigger, unstamping | lifecycle |
| Scheduler (`scheduler.py`, `cron.py`) | next run, execution log, failures | fire, catch up, break the circuit, edit | enqueue, dedupe keys |
| Client waiting (`client.py`, `90_notify.sql`) | `awaited` latch, dispatch table | wait_for_result, get_event, read_stream | notifications |
| Dashboard watches (`websocket_server.py`) | subscriptions, running broadcasts | watch_job, unwatch_job, broadcast, re-arm | `awaited` latch, notifications |
| Retention (`monitor.py`) | none | expired jobs, retired workers | lifecycle, dependencies |
| Retry backoff (`retry_strategies.py`) | none | delay of attempt n | failure path |
| History, migrations, launcher, benchmarks, the other surfaces (`admin_api.py`, `web_admin.py`, `cli.py`) | – | – | I/O over the verbs above |

What makes it hard: statements of different processes interleave; a statement
can commit and its acknowledgement be lost; a process can die between any two
statements; a process declared dead can be alive; Python threads cannot be
stopped, so code outlives its attempt; notifications are lost with the
connection; a snapshot is taken before a lock is waited for.

## 2. Core: the attempt protocol

`Lifecycle.tla` holds the states and `LEGAL_TRANSITIONS`. `JobLifecycle.tla` is
the abstract specification: a step moves any set of rows, each along one legal
edge. `FencedRow.tla` is what `run_epoch` is for: a lock on the row that can be
taken away, whose tokens only grow; `RowLock.tla` is the same without the tokens.
`JobAttempts.tla` is the detailed one.

| `JobAttempts` | code |
|---|---|
| `state run_epoch claimed_by cancel_requested error_count timeout_at` | columns of `jorb` (`timeout_at` as set / not set) |
| `registry` | the worker's `jorb_worker` row, by `last_seen` against the grace |
| `pc job epoch errors op stopping` | where `JobSystem._process` stands, its copy of the row, `JobSystem.stop` |
| `note` | a `jorb_cancel` notification the worker's listener is about to deliver |
| `abandoned` | job threads and spawned tasks that outlive their attempt |
| `Claim`, `LoseClaimAck` | `claim_jorb` answered / committed with the answer lost |
| `RunBegins`, `RunFindsCancel`, `RunSuperseded`, `LoseRunAck` | `STMTS["run"]` and its four outcomes |
| `Task...` | how the execution task ends: value, exception, deadline, cancellation, reschedule, fenced-out write |
| `Record`, `RecordSuperseded`, `LoseRecordAck`, `FinishRefused` | the outcome statement |
| `GoStale`, `Beat`, `Shutdown`, `Exit`, `GiveUp`, `Crash` | heartbeat loop, SIGTERM, SIGKILL |
| `Sweep...`, `DeleteRetiredWorker` | the monitor |
| `Enqueue`, `Cancel`, `Requeue` | client and operators |

What the four sweeps, the operator verbs and a worker do to a row is always the
same statement the code runs: an outcome is applied `WHERE state IN (claimed,
running) AND run_epoch = $n` and advances the epoch; a sweep takes a batch of
rows (a set of jobs in the model) and advances each row's epoch; the timed-out
sweep chooses between requeue and crash from the row's own `error_count`; a
requeue by an operator accepts terminal rows only.

Every action that sends a statement has a twin in which the statement commits
and its acknowledgement is lost with the connection. `JobSystem.ex` then sends
it again (`pj.py:530-562`): the twin leaves the process where it was, so that
the statement meets its own effect.

## 3. Admission: `ClaimLimits`

| `ClaimLimits` | code |
|---|---|
| `controls` | the `jorb_queue` row |
| `state claimed_at run_count` | columns of `jorb` (claimed and running are one value) |
| `lock` | the transaction's advisory lock of the queue |
| `pc q start blocked picked` | a claim transaction: its statement, the control row it read, its `now()`, the lanes it found full, the row it locked |
| `Begin`, `AcquireLock`, `LockTimeout`, `CountInFlight`, `CountAdmitted`, `Pick`, `ClaimNothing`, `Commit`, `Abort` | the statements of `claim_jorb` and `claim_queue_lock`, each with its own READ COMMITTED snapshot |
| `Leave`, `Queue` | everything else that moves a row: outcomes, enqueue, retries, sweeps |
| `SetControls` | `set_queue_control` |

The point of the model is that the snapshot of a count is older than the claim
that uses it. `CapRespected` and `RateRespected` are checked at the admission
itself. A claim that an operator's change overlapped is excused (`excused`): the
code reads the control row once, before it waits for the lock.

## 4. Dependencies, DAG stamp, retention: `JobDependencies`

| `JobDependencies` | code |
|---|---|
| `state gone` | `jorb.state`, rows deleted by retention |
| `writing stamp completed` | an open transaction on a DAG member, what its trigger decided, `jorb_dag.completed` |
| `wakes` | wake statements a worker has still to send |
| `probed`, `retiring` | the row a sweep's first statement locked |
| `met`, `late` | history only |
| `EnqueueBatch`, `Claim`, `Finish`, `Crash`, `RetryAttempt`, `Cancel`, `Requeue` | client, worker and operator, an attempt being one state |
| `WakeDependents`, `LoseWake` | `_wake_dependents`, and the worker that died first |
| `ProbeWaiter`, `SweepWaiter` | the stranded-waiter sweep: probe under lock, then `WAKE_WAITERS_SQL` or `CANCEL_UNSATISFIABLE_WAITERS_SQL` |
| `ProbeExpired`, `DeleteExpired` | `sweep_expired_jobs` |
| `Trigger`, `CommitMember`, `Rollback` | `complete_jorb_dag()`: lock the DAG, count, stamp, commit |

Abstractions: sweeps take one row at a time; a wake statement is atomic (it is
one statement with `SKIP LOCKED`); the group wake follows the job wake as in
the code; a wake is sent before its group ages out of retention (`Expired`), a
matter of days against milliseconds.
`use_result_from` is a constant: who reads whose result is fixed when a job is
enqueued, and a reader need not be parked on what it reads (`Inputs`).

## 5. Wakeups: `IdleWakeup`

| `IdleWakeup` | code |
|---|---|
| `state wanted` | an enqueue: not there, its gate ran, visible, taken; whether the gate found demand |
| `registry idle` | `jorb_worker` row and its `idle` column |
| `pc _idle _wake full` | where `JobSystem.run` stands, its copy of the flag, its event, abandoned threads filling the pool |
| `inbox` | a notification the event loop has not handed to `_on_enqueue` |
| `barred` | queued jobs that `claim_jorb()` passes over: `run_after` is ahead, the queue is paused or at a limit, a lock is held that the claim does not wait for |
| `unseen`, `told` | history: what a worker's last look could not take (commit under way, or barred); what was announced to it since |
| `Gate`, `Appear` | the deferred trigger, then commit and delivery |
| `Bar`, `Unbar` | what stands in the way of a claim comes and goes; no trigger fires, as `jorb.state` is not written |
| `Claim`, `Publish`, `Reclaim`, `Refuse`, `Park`, `Woken`, `Poll`, `Work`, `Done` | the loop of `run()` |
| `Deliver`, `LoseInbox`, `Register`, `ThreadEnds`, `Retire`, `Deregister`, `Crash` | everything beside it |

## 6. Durable state machines: `StateMachine` implements `EventMachine`

`EventMachine` is what a sender of events is promised: they are taken oldest
first and one at a time, an edge's action takes effect once, the position moves
along the edge. `StateMachine` is how `StateMachineJob` keeps the promise on the
durable layer; `MachineTable` holds the declared edges both read.

| `StateMachine` | code |
|---|---|
| `state owner due` | the row; `owner` is the worker whose attempt carries `run_epoch`; the recorded wake time |
| `position` | the `machine.state` event `commit_position` publishes |
| `steps stream` | `jorb_step` and `jorb_stream`; three sequence numbers a turn |
| `sent mailbox adrift` | events sent, mailbox rows, the message an unfinished recv consumes |
| `pc replay here event` | an attempt: where it stands, the checkpoints it loaded, its state and event |
| `Claim`, `Load`, `Run`, `current_state`, `Publish` | claim, `LOAD_STEPS_SQL`, the entry of `task()` |
| `Recv...`, `Sleep...`, `Reschedule` | `recv` with its replay, its timeout and its checkpoint; the durable sleep |
| `Handle`, `Act...`, `StreamAppend`, `Commit`, `TransactionFails`, `ActionRaises`, `StepFails`, `RecordStep` | one transition: the step, the transaction inside it, the row held FOR SHARE meanwhile |
| `commit_position`, `PublishFinal`, `Return`, `Fail`, `Abandon` | the boundary of a turn and the ends of an attempt |
| `Crash`, `Supersede`, `Elapse`, the `...Lost` twins | faults and time |
| `Send`, `Cancel`, `Resume`, `Rerun` | clients and operators |
| `LoseRecv`, `EndLostRecv` | only in `OverlapSpec`: a recv that outlives its connection |

Abstractions: `commit_position` is one statement (publication and compaction
commit together, which is its point); a message is its number; the wake time of
a sleep is reached or not; one `stream_write` in an action stands for its effects.

## 7. Dedupe keys: `DedupeKeys`

| `DedupeKeys` | code |
|---|---|
| `kind job_class` | which of the three keys, and the classes its callers use |
| `state keyed claimed` | the row, as the three index predicates read it; `open` is inserted and not committed |
| `class kwargs parked cap` | what a bounce may rewrite, `run_after`, `debounce_deadline` |
| `pc seen tries` | a call: its snapshot, its attempts (`_SPECULATIVE_ATTEMPTS`) |
| `Look`, `Bounce`, `Refused`, `NoBounce`, `Insert`, `Answered`, `AskAgain`, `GiveUp` | the speculative loop of `enqueue`, `enqueue_identified`, `debounce` |
| `Commit`, `Rollback` | the caller's own transaction |
| `Claim`, `End`, `Requeue`, `Retire`, `Fires`, `CapPasses` | every statement that moves rows in or out of the indexes, `Requeue` a whole batch at once |

A statement reads the snapshot it began with, an index the present: that gap is
what the loop is for. `KeySlot.tla` is what a key is to those who use it: a slot
that one job at most is in, and that no job enters twice.

## 8. Scheduler: `Scheduler`

| `Scheduler` | code |
|---|---|
| `enabled cron next_run consecutive_failures` | the row of `jorb_schedule` |
| `log` | ticks `jorb_schedule_log` accounts for |
| `queued live revived finished` | the schedule's jobs; a queued one holds its tick's deadline key |
| `began txn` | a daemon's transaction time; the pass that holds the row lock, what it has to do and has done |
| `edit` | an `update_schedule` that has read the clock and not yet written |
| `Tick` | the database clock |
| `Begin`, `Skip`, `Lock`, `Unevaluatable`, `CircuitBreaker`, `SafetySkip`, `Enqueue`, `Duplicate`, `EnqueueFails`, `EnqueueRefused`, `Commit`, `Abort` | a pass |
| `EditBegins`, `EditWrites`, `HandEdit`, `disable_schedule`, `enable_schedule` | operators |
| `Claim`, `Finish`, `Rerun` | what becomes of the jobs |

Instants stand for minutes; a cron expression is the set of instants it names,
and an expression that names hours skips the repeated hour of a clock change.

## 9. Waiting for a job: `JobWaiting`

`AwaitedJob` is the job as a waiter sees it, `ClientWaits` and `Watches` the two
kinds of waiters, `JobWaiting` all of them on one job.

| module | variables | code |
|---|---|---|
| `AwaitedJob` | `state awaited stream event txn` | the row, its latch, its committed rows, the write in flight that holds it FOR SHARE |
| | `inbox` | what PostgreSQL has for a listening connection |
| | `BeginWrite CommitWrite RollBackWrite End Rerun Delete Break RaiseLatch` | the durable writes with their triggers' gate, the ends, retention, a lost connection, `UPDATE ... SET awaited` |
| `ClientWaits` | `pc woken next_seq taken final` | a call of `JobClient`, its `asyncio.Event`, a reader's position |
| | `Begin Register Attach Check Page Read CheckState Deliver WaitBeat GiveUp` | register, then look, then park |
| `Watches` | `asked channels subscriptions broadcast found heard` | the server's tables, running broadcasts and the beat |
| | `Watch Watching Unwatch Starting Notify DropNotification Send EndBroadcast Reopen Rearm...` | handlers and tasks of one event loop, split at their awaits |

`deaf` and `mixed` are history: the connection broke since a wait's look; the
stream was wiped under a reader.

## 10. Runs

| Run | Question | Bounds and why they are enough |
|---|---|---|
| `attempts` | Does the epoch fence keep every outcome, retry and cancellation with the latest claimant? Is every step a legal lifecycle edge? Does every attempt end, and every job settle? | 1 job, 2 workers, 2 attempts in the retry budget, epoch up to 3: a superseded attempt, its successor and one more; one of the two workers is always free to be the zombie |
| `attempts_drain` | Does a stopping worker keep its job? (violated) | 1 job, 2 workers |
| `claim_limits` | Are cap and rate exact under concurrent claims, and does a full lane hold up another? | 2 claimers (the race needs two), 3 jobs in 2 lanes of which one is NULL, 4 control rows, one change, one abort, a clock of 2 instants |
| `claim_admissions` | Is the rate limit a limit of admissions? (violated) | 2 jobs, 3 claims each |
| `job_dependencies` | Do waiters run when, and only when, they may? Is the DAG stamp true at every commit? | 3 jobs: an upstream and its waiter, both in one DAG and one group, and a waiter of that group whose result the upstream reads, being itself never parked |
| `idle_wakeup` | Is a parked worker told of every job, those aside that its last look could not take? Does the poll cover what is lost, and what falls due unannounced? | 1 enqueue, delayed or not, 2 workers: one that publishes and one that takes the job |
| `state_machine` | Is the durable machine an `EventMachine`? Can a replay meet a log of another position? Is every event dealt with? | 3 states, 2 events (one with an action, one back edge, one that no edge takes), 2 workers, `Budget` 4: two events and two faults, or one event and three |
| `recv_overlap` | Is a message never in neither place? (violated) | the same tables, and a recv that outlives its connection |
| `dedupe_keys` | Does a requeue never collide, a claimed job keep its arguments, a call never give up on a key that is held? | 2 callers and 2 rows (the one that holds the key and the next), 2 classes, `MaxTries` 2 |
| `scheduler` | Is a tick fired once, the cap on live jobs held, every tick accounted for, a failing schedule stopped? | 2 daemons, 3 instants of which one repeats an hour, one expression of each kind, backfill 1, 2 live jobs, threshold 1, `Budget` 2 edits, reruns and failures |
| `job_waiting` | Does a wait park over something it is never told of? Does a reader end with every row? Is everybody answered? | groups of waits that meet: a result and an event wait on one connection, a reader with and one without a listener, one watch, two watches; 2 rows, 2 values, pages of 2, two runs of the job (one where two watches meet) |
| `watch_hangs` | Is a watch the server took on always told of the end? (violated) | two watches, one run of the job |

Liveness runs use no symmetry. Bounds on epochs, retries, clock, changes,
faults, rows and runs sit in guards and are constants. Deadlock is not checked:
each bounded system may run out of epochs, claims, instants or jobs, and no
process of the code waits for another one without a timeout. Where a type
invariant is a theorem and the run is large (`idle_wakeup`, `state_machine`,
`dedupe_keys`, `scheduler`), TLC does not evaluate it again.

### Fairness

* `JobAttempts`: `Recovery` is what runs by itself: the event loop answers
  statements, the deadline scope of `_execute` fires, a dead or stopping process
  stops beating, the monitor loop sweeps. `Progress` adds workers that start,
  beat and claim, and abandoned code that ends; nothing can stop a Python thread,
  so only `EveryJobSettles` assumes it.
* `ClaimLimits`: a worker's loop goes on asking. Aborts are bounded in number.
  Jobs in flight are not assumed to end: that is what `LaneServed` is about.
* `JobDependencies`: strong fairness of the probe of each waiter, because a pass
  of the monitor takes up to 500 rows and comes round each cycle, while the row
  may be locked at one pass and free at the next; the open transactions end.
  Neither a worker nor a wake is fair: wakes may all be lost.
* `IdleWakeup`: the worker's loop, its threads and the monitor's retirement of
  dead workers. Nothing is assumed of notifications, nor that a bar ever goes:
  `EveryJobIsClaimed` says that no job stays claimable for ever.
* `StateMachine`: workers claim and go on, time passes, and the monitor supersedes
  an owner that is dead. Faults are bounded in number and never fair.
* `DedupeKeys`: a queued row that is due is claimed, and the debounce deadline
  comes. Callers are not fair.
* `Scheduler`: each daemon begins passes and ends them. The clock is not fair.
* `JobWaiting`: statements are answered, the event loops run, the poll
  (`_wait_beat`) and the beat come round, and a write in flight ends. The UPDATE
  that raises the latch is strongly fair: it queues for the row, and PostgreSQL
  serves that queue in order, so a stream of writers does not starve it. Nothing
  is assumed of notifications: they may all be lost.

## 11. What is proved

`JobAttemptsProofs` holds the proofs about `JobAttempts`, for any set of jobs and
workers, any number of retries, threads and epochs, from `AttemptsAssumption`
(`None` is not a worker, the bounds are naturals, the subsets of jobs are subsets).

* `TypeCorrect`: `TypeOK` is inductive by itself.
* `FencingToken` (`EpochIdentifiesAttempt`). By itself it is not inductive: a row
  that advances to an epoch some execution already "knows" would break it. The
  invariant `FenceInv` adds that no execution knows an epoch its row has yet to
  reach. One lemma says that every statement either advances a row's epoch or
  leaves its owner, its budget and its place alone (`RowStep`), another that
  executions only appear by a claim (`ExecutionsStep`); from those two the
  invariant follows without going through the actions again.
* `OutcomeIsTheOwners`: `LatestClaimDecides`, from `FenceInv`.
* `AttemptInvariant`, `RetriesStayInBudget`, `CancellationIsRequested`: as long as
  an execution holds the epoch, the `error_count` it copied is the row's, and a
  cancellation it heard of stands in the row; so decisions taken from the copy
  are right.
* `LifecycleImplemented`: `Spec => JobLifecycle!Spec`, each step being a legal
  edge of each row it moves or a stutter.
* `RowIsFenced`: each row, with `run_epoch` as the token, implements `FencedRow`.
  The holder is the worker of the executions that pass the row's fence, those
  abandoned in threads included (`TheHolder`); a step that advances the epoch
  leaves nobody who passes, but for the claim, which leaves its own worker
  (`HolderStep`). `RowIsALock` drops the tokens and is what `StateMachine` takes
  for granted when it keeps an owner and no epochs.
* `NothingOrphaned`: `NoOrphan`, with the fact that a worker that owns rows is
  either unregistered or has a registry row retention may not delete.

`ClaimLimitsProofs` is about `ClaimLimits`, for any number of workers, jobs, lanes
and control rows, from `LimitsAssumption` (jobs are a finite set, limits are
naturals or absent).

* `TypeCorrect`: `TypeOK` ties the lock to the claims that are past it, and is
  inductive with the conjunct that only a claim under a limit waits for the lock.
* `CountsStayValid`. `CapRespected` compares a count taken in one snapshot with an
  update that runs in a later one. `LimitsInv` says why that is sound: whatever a
  claim counted stays an upper bound of its scope until it commits
  (`CapKnown`, `RateKnown`). Three things could break it and do not: another
  admission of a limited claim (excluded by the lock, `LockExcludes`), an
  admission by a claim that read no limit (it excuses those it ran beside), and a
  scope that no row belongs to when it is counted, which `GROUP BY` does not
  return (`NotFull`: such a scope is empty). The last needs a limit other than 0
  where lanes are counted: `Enforced` says so in the properties, of the limit a
  claim reads and not of the control rows there may be (section 12 says what
  happens with 0).
* `CapHolds`, `RateHolds`: an admission is a commit of the claim itself, of a row
  it holds alone (`AdmissionIsCommit`); it adds one row to its scope
  (`OneMoreRow`). For the rate this holds although `claimed_at` is the start of a
  transaction and transactions commit in another order.
* `NoDoubleClaim`, `PauseHolds`: what an admission is, and that a pause stops it.
* `LimitsAreKept`, `LimitsHoldInEveryState`. The properties above speak of the
  moment of an admission; these say what an operator reads off the table. In a
  step that leaves the controls alone, with no claim left that a change overlapped,
  a queue within its cap stays within it, and one that keeps its rate over every
  window of a period goes on to. The cap is the bound at the commit, and nothing
  else adds to a scope (`CapIsKept`). A window that receives a new stamp began less
  than a period before it, and the claim counted everything stamped since then
  (`RateIsKept`). From the start to the first change, cap and rate therefore hold
  in every state (`WithinLimits`).

`IdleWakeupProofs` is about `IdleWakeup`, for any number of workers and jobs.

* `FlagAgrees`: `FlagMatchesRow` is inductive over `TypeOK`.
* `PublishBeforeLook`: `UnannouncedOnlyIfUnseen` speaks of parked workers and of
  claimable jobs. The invariant `GapKnown` speaks of a worker from its last look
  on, and of jobs whose commit is under way or that are barred too (`Accounted`).
  The look found nothing to take, so it could not take what there was
  (`LookStep`); a gate that runs later finds the subscriber, and its job is
  announced when it appears (`GapStep`). Bars come and go without a notice, which
  is why the theorem excuses the jobs that were barred at the look, and no others.
* `DemandIsGenuine` (`BusyAsksNothing`): no worker that is busy or refuses to claim
  is counted by the gate. What it remembers of its flag says so (`AsksInMemory`),
  and the row agrees with what it remembers (`FlagMatchesRow`).

`JobDependenciesProofs` is about `JobDependencies`, for any jobs, dependencies and
groups.

* `CompletedIsTruthful`. A transaction that takes a member across the boundary of
  the terminal states holds its row (`Writes`); of those only the one whose
  trigger has counted holds the DAG's row (`Stamped`); members are inserted
  together (`Whole`). So what was counted is still so at the commit.
* `DependencyIsHonoured`, `SweepsActOnTruth`, `InputsAvailable`: a row leaves
  `waiting` only by a statement that sees its dependency satisfied and is parked
  again by whatever takes it back to work (`Met`), rows locked by a sweep stay
  what the probe saw (`Swept`), and a dependent that became live behind the
  retention's back is known to be late (`Late`, `Available`). A reader that is not
  parked is watched from when it becomes live (`Readable`).
* `LifecycleImplemented`: `Spec => JobLifecycle!Spec`, as for the attempts. The
  statements here move rows in ways the attempts do not: batches, wakes, sweeps of
  waiters, reruns that park again.
* `DeletedForGood`: a row that retention deleted stays deleted and is written by
  nobody: every statement finds its row when it writes it, and a transaction that
  is open on a row keeps it from being deleted (`Writes`).

`StateMachineProofs` is about `StateMachine`, for any declaration, any number of
workers and of faults.

* `NeverPoisonedAlways`: a log has the shape of a turn at one position (`Shape`). What
  an attempt replays has the shape of the position it began from, also after it
  was superseded (`Known`); what the owner knows agrees with what is committed,
  also when an acknowledgement was lost (`Agrees`).
* `NeverNeitherAlways`: a message is in one place (`Places`), as long as no recv
  outlives its connection.
* `JobImplementsEventMachine`: each step is one of `EventMachine` or unseen there; the
  output is in the stream exactly when its checkpoint is in the log (`Traced`).
* `HandledInOrder`, `ActionsTakeEffectOnce`, `PositionFollowsEffects`: what a client
  gets from it. No event is taken while an older one is pending; an action's
  output is in the stream once, in the order of the events; the position moves only
  along the edge of the event in hand, closes it, and finds its effect committed.
  The first two follow from the steps of `EventMachine`, that is from the
  refinement, and not from the code again.
* `FenceHolds`: nobody but the owner writes a checkpoint or takes a message, a rerun
  of a row without one aside. `OwnerIsALock`: the owner implements `RowLock`, as the
  holder of a row of `JobAttempts` does by `RowIsALock`: both speak of one fence.

`DedupeKeysProofs` is about `DedupeKeys`, for any number of rows, callers, classes and
attempts. Only an insert brings a row into the index, and only into an empty one
(`Unique`); a row that is put back enters it only if it never left, so a batch
cannot collide (`RequeuesPass`). A row that left the index never comes back under
a call that had seen it (`Passed`: `ArgumentsFit`, `ClaimFixesArguments`); a key
taken by a row a call has not seen was news to it (`Fresh`: `ExhaustionIsTraffic`).
`KeyIsASlot` is the refinement of `KeySlot`, from `Unique` and from the fact that only
an insert enters the index: the key goes from one job to the next only through
being free, and no retry, sweep, rerun, commit or rollback hands it over.

`SchedulerProofs` is about `Scheduler`, for any number of daemons, instants,
expressions and edits. What a pass may fire lies between `next_run`, which only the
holder of the lock moves, and the `next_run` it will leave (`Window`:
`NoTickUnanswered`); a tick at or after `next_run` has been fired no more often
than edits went back to it (`OnceAhead`: `TicksFireOnce`); each tick of a pass leaves
less to do (`Room`: `ConcurrencyHolds`; `Patience`: `FailuresStop`). The pass holds
the schedule's row from its look to its commit (`Held`), so nothing fires of an
expression that is not in force or of a schedule that is disabled then
(`PassFiresInForce`), nothing fires before its time or without its line in the log
(`NothingFiresEarly`), and a pass leaves the schedule due after its own clock
(`PassesMoveOn`).

`JobWaitingProofs` is about `JobWaiting`, for any number of waits, watches, rows and
runs, from `AwaitedAssumption`, `WaitsAssumption`, `WatchesAssumption`.

* `NoNoticeMissed`. Who raises the latch waits for the write in flight, so a write
  that found the latch down has ended before the first look of the wait
  (`Pending`, `Latched`), and what is committed later is announced to a
  connection that was up (`Told`, by the lemma `News`).
* `WholeStreamDelivered`: a reader's position is the number of rows it took, and
  none of them closes the stream (`Position`); the closing row is the last, so
  what a last page leaves is that row or nothing (`TheRead`).
* `NewsIsTrue`: notifications carry no state and broadcasts run late, and yet no
  watcher is told that a job is over that never was: before the first end nothing
  queued, broadcast or found by the beat speaks of one (`NoNews`).
  `NoEntryLeftBehind`: whoever the server's table would tell is on the list a closing
  connection is taken off by, and a broadcast never finds an empty entry.

The properties that no run checks (those of `FencedRow`, `RowLock` and `KeySlot`,
`LimitsAreKept`, `DeletedForGood` and the consequences of `EventMachine` among them)
stand in the proof modules, before their theorems.

Only model-checked: everything under fairness (`InFlightEnds`, `EveryJobSettles`,
`LaneServed`, `NoStrandedWaiter`, `DemandExpires`, `EveryJobIsClaimed`,
`EveryEventHandled`, `CappedBurstRuns`, `NeverSpins`, `EveryWaitAnswered`,
`WatchDealtWith`): the prover has no `ENABLED`.

## 12. Where the code and its documents part

Runs that show it; `PROJECT.json` quotes the lines each of them contradicts:

* `attempts_drain`: a worker asked to stop finishes its job, but its heartbeat
  stops at once; a job longer than the grace is taken from it and run again.
* `claim_admissions`: the rate limit counts rows by their last `claimed_at`; a job
  claimed, requeued and claimed again inside a period is one admission.
* `recv_overlap`: a `recv` sent again on a new connection while the old backend
  still runs it takes a second message, and its checkpoint replaces the first.
* `watch_hangs`: a watch attached while the beat tells the others that the job is
  over is dropped with them, untold.

Seen while modelling, without a run of their own:

* A cap of 0 per lane admits one job per lane (`30_claim.sql:200`): full lanes come
  from `GROUP BY` over existing rows. `Enforced` leaves it out of the properties.
* A notification that arrives between a worker's last look and its sleep can be
  cleared unread (`pj.py:1124`, `pj.py:733`); the poll bounds the cost to
  `checkInterval`.
* `pj.py:731-733` says that there is no order in which a job is both unseen and
  unannounced, apart from the gap between an enqueue's flush and its visibility.
  That holds of enqueues that are due. A delayed, backed-off or sleeping job, or one
  behind a pause, a limit or a lock, is passed over by the last look and announced
  by nobody when it becomes claimable: its announcement, if there was one, came
  with its commit. `UnannouncedOnlyIfUnseen` names that exception beside the gap;
  here too the poll bounds the cost to `checkInterval` (`EveryJobIsClaimed`).
* `docs/RECURRING_SCHEDULER.md:292-303` says that two instances whose passes
  overlap, or one that retries a tick, can fire the same tick twice if a worker
  claimed the first job in between, since the claim frees the `deadline_key`. The
  code is stricter than its document. A pass locks the schedule's row, looks again
  whether it is due, and moves `next_run` in the transaction that makes the jobs
  (`scheduler.py:1078-1157`), so a second pass finds the tick gone and a retry
  finds the first attempt rolled back. `TickFiredOnce` holds for daemons that
  overlap, with claims in between, and is proved (`TicksFireOnce`); the only way
  back to a tick is the edit of `update_schedule` below.
* `scheduler.py:33-34` says that a schedule whose jobs always crash stops. The
  breaker counts `consecutive_failures`, which failures to enqueue raise and a
  successful enqueue resets; nothing a job does afterwards touches it.
  `FailuresBounded` is about the former.
* A fresh rerun keeps the `machine.state` event, so the rerun of a finished
  machine ends at once, which `docs/DXE.md:664-666` does not lead one to expect.
* `update_schedule` writes a `next_run` it computed from an earlier clock, so it can
  move back over a tick that was fired meanwhile (`rewound`), although
  `scheduler.py:10-13` says exactly one scheduler owns a tick.
* `client.py:2433` says that `compact()` clears `awaited`; `dxe.py:372` preserves it.
* `90_notify.sql:251` and `:269` allow for one missed notification; as writers hold
  the row FOR SHARE and the latch needs it, it cannot be missed (`NoNoticeMissed`).
* A reader that is alive across a fresh rerun enters the new stream at its old
  position (`mixed`).

## 13. Abstractions, and what is not modelled

* Time is an order of events: a timeout, a grace or a retention period is an
  action that may happen. The clocks are the rate window of `ClaimLimits` and the
  instants of `Scheduler`.
* A statement of PostgreSQL is atomic, and has the snapshot and the locks that
  READ COMMITTED gives it. Functions and transactions of several statements are
  several actions. PostgreSQL's own deadlock detection is left out: a transaction
  it would end is one that rolls back (`Abort`, `Rollback`).
* `ClaimLimits` leaves the order of claiming (`prio`, `run_after`) open: any
  claimable job may be picked. Capability, priority ceiling and version decide
  which jobs a worker may see; the model gives each worker a set of jobs (`Serves`).
* `IdleWakeup` is about the workers that may run the jobs of the queue: one whose
  capability, ceiling or version excludes a job may park beside it for ever. Why a
  job is barred is left open there, and so is when the bar goes.
* A limit of a schedule may be 0 or negative, the columns having no CHECK: `Allows`
  reads that as 0. Such a cap never fires, such a threshold always trips, and such
  a `backfill_limit` catches up on nothing.
* Job code is arbitrary: a task may return, raise, ignore its cancellation, or go
  on for ever in a thread.
* Payloads, results, log text, backtraces and backoff delays are left out.
* The map names the decisions of the program, which are a small part of its
  lines. Some 15,000 of its 32,000 lines are benchmarks (`bench.py`), the
  command line (`cli.py`), forms and read models (`web_admin.py`, most of
  `admin_api.py` and `websocket_server.py`): input, output and formatting over
  the verbs that are modelled. Of the rest, docstrings, logging, argument
  checking, row decoding and synchronous wrappers have no state to model.
* Not modelled, although a model could reach it: messages between jobs and their
  topics (the same statements as a client's), `fork`, `compact()` called alone,
  the timeout of a step, `wait_for_group`, the age-only retention sweeps, job
  statistics and the transition history (append-only), migrations under their
  advisory lock. The formulas of `retry_strategies.py` and the calendar
  arithmetic of `cron.py` are functions no modelled decision depends on beyond
  "later" and "the next instant of a set".

## 14. Plan

1. `compact()` and the timeout of a step in the durable layer, with a job that
   keeps its own loop instead of a state machine.
2. `fork` beside `Rerun`, and messages between jobs, whose sender is itself
   replayed: one `send` per checkpoint.
3. Strengthen `DependencyHonoured` to a refinement: waiting as an abstract
   partial order over job completions.
4. The connection of `JobAttempts` and `StateMachine` beyond the lock they share
   (`RowLock`): the latter's attempts as executions of the former.
