------------------------------ MODULE Scheduler ------------------------------
(***************************************************************************)
(* pj-scheduler: several daemons that turn one cron schedule into jobs.    *)
(* A pass is one transaction: it locks the schedule's row, fires the tick  *)
(* the schedule is due for, catches up on the newest of the ticks missed   *)
(* while nobody was firing, and moves next_run on.  Meanwhile workers run  *)
(* the jobs, operators edit, disable, enable and rerun, the clock moves on *)
(* and a daemon may die with its transaction open.                         *)
(*                                                                         *)
(* Time is counted in instants of the database clock.  One schedule is     *)
(* modelled: schedules share a queue, whose depth is nobody's promise.     *)
(***************************************************************************)
EXTENDS Integers, FiniteSets, FiniteSetsExt

CONSTANTS
    Scheduler, None,
    Cron,           \* the expressions that can be evaluated
    raw, anchored,  \* the instants croniter gives; names hours of the day
    replayed,       \* instants at which the local clock repeats an hour
    Horizon,        \* bound, on the clock
    Budget,         \* bound, on edits, reruns and transactions that fail
    backfill_limit, max_concurrent_jobs, circuit_breaker_threshold

Instant == 1..Horizon

ASSUME ScheduleAssumption ==
    /\ Horizon \in Nat /\ Budget \in Nat
    /\ raw \in [Cron -> SUBSET Instant] /\ anchored \subseteq Cron
    /\ replayed \subseteq Instant
    /\ {backfill_limit, max_concurrent_jobs, circuit_breaker_threshold} \subseteq Int
    /\ None \notin Scheduler \union Cron

VARIABLES
    now,
    enabled, cron, next_run, consecutive_failures,      \* the schedule's row
    log,            \* the ticks jorb_schedule_log accounts for
    queued,         \* ticks whose job is queued under its deadline_key
    live, revived,  \* other live jobs: claimed or put back; rerun by hand
    finished,       \* jobs that have ended
    began, txn,     \* a daemon's transaction time; the one with the row lock
    edit,           \* an update_schedule that has read the clock
    fired, rewound, \* history: jobs made of a tick; edits that went back to it
    failing,        \* history: enqueues that failed since a success or enable
    since,          \* history: where the present series of ticks begins
    trouble

schedule == <<enabled, cron, next_run, consecutive_failures>>
jobs == <<queued, live, revived, finished>>
history == <<fired, rewound, failing, since>>
vars == <<now, schedule, log, jobs, began, txn, edit, history, trouble>>

------------------------------------------------------------------------------
\* _fire_series: an expression that names hours skips the second pass through
\* the repeated hour, an interval keeps both.
Series(c) == IF c \in anchored THEN raw[c] \ replayed ELSE raw[c]

\* next_cron_run: the first instant of the series strictly after `after'.
Next_cron_run(c, after) == Min({t \in Series(c) : t > after} \union {Horizon + 1})

\* missed_cron_runs: what the series has in (after, until], and the newest of it.
Missed(c, after, until) == {t \in Series(c) : after < t /\ t <= until}
Kept(missed) == {t \in missed : Cardinality({u \in missed : u > t}) < backfill_limit}

Trouble == trouble < Budget /\ trouble' = trouble + 1

Init ==
    /\ now = 0
    /\ enabled = TRUE /\ cron \in Cron
    /\ next_run = Next_cron_run(cron, 0)
    /\ consecutive_failures = 0
    /\ log = {}
    /\ queued = {} /\ live = 0 /\ revived = 0 /\ finished = 0
    /\ began = [s \in Scheduler |-> None] /\ txn = None
    /\ edit = None
    /\ fired = [t \in Instant |-> 0] /\ rewound = [t \in Instant |-> 0]
    /\ failing = 0 /\ since = next_run /\ trouble = 0

Tick ==
    /\ now < Horizon /\ now' = now + 1
    /\ UNCHANGED <<schedule, log, jobs, began, txn, edit, history, trouble>>

------------------------------------------------------------------------------
(* A pass.  find_due_schedules() is a plain read; the transaction that     *)
(* follows fixes now() before it tries for the row.                        *)

Due(at) == enabled /\ next_run <= at

Begin(s) ==
    /\ began[s] = None /\ Due(now)
    /\ began' = [began EXCEPT ![s] = now]
    /\ UNCHANGED <<now, schedule, log, jobs, txn, edit, history, trouble>>

\* FOR UPDATE SKIP LOCKED, and due-ness again.
Skip(s) ==
    /\ began[s] # None
    /\ IF txn = None THEN ~Due(began[s]) ELSE txn.by # s
    /\ began' = [began EXCEPT ![s] = None]
    /\ UNCHANGED <<now, schedule, log, jobs, txn, edit, history, trouble>>

Locks(s) == began[s] # None /\ txn = None /\ Due(began[s])

\* Mutant: the schedule stays enabled.
Unevaluatable_Enabled(s) ==
    /\ Locks(s) /\ cron = None
    /\ consecutive_failures' = 1
    /\ log' = log \union {next_run}
    /\ began' = [began EXCEPT ![s] = None]
    /\ UNCHANGED <<now, enabled, cron, next_run, jobs, txn, edit, history, trouble>>

\* The expression cannot be evaluated: disable, or it stays due for ever.
Unevaluatable(s) ==
    /\ Locks(s) /\ cron = None
    /\ enabled' = FALSE
    /\ consecutive_failures' = consecutive_failures + 1
    /\ log' = log \union {next_run}
    /\ began' = [began EXCEPT ![s] = None]
    /\ UNCHANGED <<now, cron, next_run, jobs, txn, edit, history, trouble>>

\* Mutants: the window, or the advance, is measured on a later clock.
Until_OwnClock(s) == now
AdvanceFrom_OwnClock(s) == Max({now, next_run})

\* One clock, now() of the transaction, bounds the window and the advance.
Until(s) == began[s]
AdvanceFrom(s) == Max({began[s], next_run})

\* Everything the transaction writes is its own until it commits.
Lock(s) ==
    /\ Locks(s) /\ cron # None
    /\ LET missed == IF backfill_limit <= 0 THEN {}
                     ELSE Missed(cron, next_run, Until(s))
       IN  txn' = [by |-> s,
                   todo |-> {next_run} \union Kept(missed),
                   logged |-> {next_run} \union missed,
                   next |-> Next_cron_run(cron, AdvanceFrom(s)),
                   made |-> {}, disable |-> FALSE,
                   failures |-> consecutive_failures, failing |-> failing]
    /\ UNCHANGED <<now, schedule, log, jobs, began, edit, history, trouble>>

(* execute_schedule(), once for every tick of the pass.                    *)

Ready(s) == txn # None /\ txn.by = s /\ txn.todo # {}

\* The tick that is due, then the missed ones from the newest on.
This == IF next_run \in txn.todo THEN next_run ELSE Max(txn.todo)
Answered(change) == txn' = [change EXCEPT !.todo = @ \ {This}]
Private == UNCHANGED <<now, schedule, log, jobs, began, edit, history, trouble>>

\* Mutant: one failure too many.
Tripped_Late == consecutive_failures > circuit_breaker_threshold

\* The row as it was locked: a failure of this pass does not trip it.
Tripped == consecutive_failures >= circuit_breaker_threshold

\* Mutant: the count misses what the pass has made.
InFlight_Committed == Cardinality(queued) + live + revived

\* CONCURRENCY_COUNT_SQL sees the transaction's own rows too.
InFlight == Cardinality(queued) + live + revived + Cardinality(txn.made)
Full == InFlight >= max_concurrent_jobs

CircuitBreaker(s) ==
    /\ Ready(s) /\ Tripped
    /\ Answered([txn EXCEPT !.disable = TRUE])
    /\ Private

\* max_concurrent_jobs, or a queue that is too deep.
SafetySkip(s) ==
    /\ Ready(s) /\ ~Tripped
    /\ Answered(txn)
    /\ Private

Fires(s) == Ready(s) /\ ~Tripped /\ ~Full

Enqueue(s) ==
    /\ Fires(s) /\ This \notin queued
    /\ Answered([txn EXCEPT !.made = @ \union {This},
                                       !.failures = 0, !.failing = 0])
    /\ Private

\* The deadline_key is taken: UniqueViolationError, undone by the savepoint.
Duplicate(s) ==
    /\ Fires(s) /\ This \in queued
    /\ Answered(txn)
    /\ Private

EnqueueFails(s) ==
    /\ Fires(s)
    /\ Answered([txn EXCEPT !.failures = @ + 1, !.failing = @ + 1])
    /\ Private

\* The row builder refuses: counted by both record_execution_failure and
\* disable_unevaluatable.
EnqueueRefused(s) ==
    /\ Fires(s)
    /\ Answered([txn EXCEPT !.failures = @ + 2, !.failing = @ + 1,
                                       !.disable = TRUE])
    /\ Private

Made(t) == IF t \in txn.made THEN 1 ELSE 0

Commit(s) ==
    /\ txn # None /\ txn.by = s /\ txn.todo = {}
    /\ queued' = queued \union txn.made
    /\ fired' = [t \in Instant |-> fired[t] + Made(t)]
    /\ log' = log \union txn.logged
    /\ enabled' = (enabled /\ ~txn.disable)
    /\ consecutive_failures' = txn.failures /\ failing' = txn.failing
    /\ next_run' = txn.next
    /\ txn' = None /\ began' = [began EXCEPT ![s] = None]
    /\ UNCHANGED <<now, cron, live, revived, finished, edit, rewound, since, trouble>>

\* The daemon dies or loses its connection: all of the pass rolls back.
Abort(s) ==
    /\ txn # None /\ txn.by = s /\ Trouble
    /\ txn' = None /\ began' = [began EXCEPT ![s] = None]
    /\ UNCHANGED <<now, schedule, log, jobs, edit, history>>

------------------------------------------------------------------------------
(* The jobs.  A claim releases the deadline_key, and a requeue clears it.  *)

Claim(t) ==
    /\ t \in queued
    /\ queued' = queued \ {t} /\ live' = live + 1
    /\ UNCHANGED <<now, schedule, log, revived, finished, began, txn, edit, history,
                   trouble>>

Finish ==
    /\ \/ live > 0 /\ live' = live - 1 /\ UNCHANGED revived
       \/ revived > 0 /\ revived' = revived - 1 /\ UNCHANGED live
    /\ finished' = finished + 1
    /\ UNCHANGED <<now, schedule, log, queued, began, txn, edit, history, trouble>>

Rerun ==
    /\ finished > 0 /\ finished' = finished - 1 /\ Trouble
    /\ revived' = revived + 1
    /\ UNCHANGED <<now, schedule, log, queued, live, began, txn, edit, history>>

(* Operators.  An update of the row waits for the pass that has its lock.  *)

\* update_schedule reads the clock in a statement of its own.
EditBegins(c) ==
    /\ edit = None /\ Trouble
    /\ edit' = [cron |-> c, next |-> Next_cron_run(c, now)]
    /\ UNCHANGED <<now, schedule, log, jobs, began, txn, history>>

EditWrites ==
    /\ edit # None /\ txn = None
    /\ cron' = edit.cron /\ next_run' = edit.next
    /\ edit' = None
    /\ since' = edit.next
    /\ rewound' = [t \in Instant |->
                      rewound[t] + IF t >= edit.next /\ fired[t] > 0 THEN 1 ELSE 0]
    /\ UNCHANGED <<now, enabled, consecutive_failures, log, jobs, began, txn, fired,
                   failing, trouble>>

\* A row edited by hand, or an expression a newer croniter no longer accepts.
HandEdit ==
    /\ txn = None /\ cron # None /\ Trouble
    /\ cron' = None
    /\ UNCHANGED <<now, enabled, next_run, consecutive_failures, log, jobs, began, txn,
                   edit, history>>

disable_schedule ==
    /\ txn = None /\ enabled
    /\ enabled' = FALSE
    /\ UNCHANGED <<now, cron, next_run, consecutive_failures, log, jobs, began, txn,
                   edit, history, trouble>>

enable_schedule ==
    /\ txn = None /\ ~enabled
    /\ enabled' = TRUE /\ consecutive_failures' = 0 /\ failing' = 0
    /\ UNCHANGED <<now, cron, next_run, log, jobs, began, txn, edit, fired, rewound,
                   since, trouble>>

------------------------------------------------------------------------------
Pass(s) ==
    \/ Skip(s) \/ Unevaluatable(s) \/ Lock(s)
    \/ CircuitBreaker(s) \/ SafetySkip(s) \/ Enqueue(s) \/ Duplicate(s)
    \/ EnqueueFails(s) \/ EnqueueRefused(s)
    \/ Commit(s)

Next ==
    \/ Tick
    \/ \E s \in Scheduler : Begin(s) \/ Pass(s) \/ Abort(s)
    \/ \E t \in Instant : Claim(t)
    \/ Finish \/ Rerun
    \/ \E c \in Cron : EditBegins(c)
    \/ EditWrites \/ HandEdit \/ disable_schedule \/ enable_schedule

Spec == Init /\ [][Next]_vars

\* Daemons poll and finish their passes, and the bounded clock stands still.
Fairness == \A s \in Scheduler : WF_vars(Begin(s)) /\ WF_vars(Pass(s))
FairSpec == Spec /\ Fairness

------------------------------------------------------------------------------
\* The columns carry no CHECK: a limit of 0 or less allows nothing.
Allows(limit) == IF limit > 0 THEN limit ELSE 0

TypeOK ==
    /\ now \in 0..Horizon
    /\ enabled \in BOOLEAN /\ cron \in Cron \union {None}
    /\ next_run \in 1..(Horizon + 1)
    /\ consecutive_failures \in Nat /\ failing \in Nat
    /\ log \subseteq Instant
    /\ queued \subseteq Instant
    /\ live \in Nat /\ revived \in Nat /\ finished \in Nat
    /\ began \in [Scheduler -> 0..Horizon \union {None}]
    /\ txn \in {None} \union
          [by : Scheduler, todo : SUBSET Instant, logged : SUBSET Instant,
           next : 1..(Horizon + 1), made : SUBSET Instant, disable : BOOLEAN,
           failures : Nat, failing : Nat]
    /\ edit \in {None} \union [cron : Cron, next : 1..(Horizon + 1)]
    /\ fired \in [Instant -> Nat] /\ rewound \in [Instant -> Nat]
    /\ since \in 1..(Horizon + 1)
    /\ trouble \in 0..Budget

\* scheduler.py:10: "exactly one scheduler owns a tick".  Jobs of one tick are
\* never made twice, except where an edit that read the clock before the tick
\* was fired wrote next_run back to it afterwards.  Daemons that overlap are no
\* exception once a worker has claimed the job and released its deadline_key,
\* although docs/RECURRING_SCHEDULER.md:292-303 says so: the row lock and the
\* second look at next_run decide, not the key.
TickFiredOnce == \A t \in Instant : fired[t] <= 1 + rewound[t]

\* A schedule never runs ahead of its jobs: whatever fires at once, late or
\* again, no more of them are live than it allows and operators revived.
ConcurrencyRespected == Cardinality(queued) + live <= Allows(max_concurrent_jobs)

\* A schedule that catches up accounts for every tick it passes, fired, refused
\* or dropped: no gap between the missed window and the next tick.
EveryTickAnswered ==
    backfill_limit > 0 /\ cron # None =>
        \A t \in Series(cron) : since <= t /\ t < next_run => t \in log

\* A schedule whose enqueues always fail stops; one recovery may overshoot.
FailuresBounded == failing <= Allows(circuit_breaker_threshold) + Allows(backfill_limit)

\* No schedule is due on every poll for ever.
NeverSpins == Due(now) ~> ~Due(now)

==============================================================================
