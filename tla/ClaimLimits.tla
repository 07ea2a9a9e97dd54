----------------------------- MODULE ClaimLimits ------------------------------
(***************************************************************************)
(* Admission to one controlled queue: claim_jorb() under a pause, a        *)
(* concurrency cap and a rate limit, counted per queue or per lane.        *)
(*                                                                         *)
(* The function runs in one transaction but under READ COMMITTED each of   *)
(* its statements takes a snapshot of its own, so an action here is one    *)
(* statement: read the control row, take the queue's advisory lock, count  *)
(* the rows in flight, count the rows admitted in the window, lock a row   *)
(* and stamp it, commit.  What a claimer counted is a set of scopes it may *)
(* not admit from, and it is out of date by the time it commits: only the  *)
(* advisory lock keeps the limits.                                         *)
(*                                                                         *)
(* The other writers of a row are one action each here; JobAttempts is the *)
(* model of what they do.  Claim order (prio, run_after) is left open.     *)
(***************************************************************************)
EXTENDS Naturals, FiniteSets

CONSTANTS
    Job, Worker,
    None,           \* NULL
    partition_key,  \* column of jorb: each job's lane, None for the NULL lane
    Serves,         \* the jobs a worker's capabilities, priority and version admit
    Controls,       \* the jorb_queue rows an operator may leave behind
    Period,         \* rate_period_seconds
    MaxTime,        \* bound on the clock
    MaxChanges,     \* bound on the changes of the controls
    MaxAborts,      \* bound on the claims that die half way
    MaxRuns         \* bound on the claims of one job

ASSUME LimitsAssumption ==
    /\ None \notin Worker \union Job
    /\ IsFiniteSet(Job)
    /\ DOMAIN partition_key = Job
    /\ Serves \in [Worker -> SUBSET Job]
    /\ \A c \in Controls : /\ {c.paused, c.partition_limits} \subseteq BOOLEAN
                           /\ {c.max_concurrency, c.rate_limit} \subseteq Nat \union {None}
    /\ Period \in Nat \ {0} /\ {MaxTime, MaxChanges, MaxAborts, MaxRuns} \subseteq Nat

VARIABLES
    controls,       \* the queue's jorb_queue row, always the committed one
    \* columns of jorb; "claimed" stands for claimed and running, "out" for a
    \* row that is terminal or not there yet
    state, claimed_at, run_count,
    lock,           \* who holds the queue's advisory lock
    now,
    changes,        \* how often the controls changed so far
    aborts,         \* claims that died so far
    \* a claim transaction
    pc,
    q,              \* the control row it read
    start,          \* its now(): when the transaction began
    blocked,        \* scopes it found at a limit
    picked,         \* the row it locked and stamped, uncommitted
    excused         \* history: claims a change of controls overlapped

control == <<controls, changes>>
jorb == <<state, claimed_at, run_count>>
claim == <<q, start, blocked, picked>>
vars == <<control, jorb, lock, now, aborts, pc, claim, excused>>

------------------------------------------------------------------------------
Limited(c) == c.max_concurrency # None \/ c.rate_limit # None

\* What a limit is counted over: a lane, or the queue.
Scope(c, j) == IF c.partition_limits THEN <<"lane", partition_key[j]>> ELSE <<"queue">>

\* The groups a count ranges over: GROUP BY yields only lanes that have rows.
Scopes(c, rows) == IF c.partition_limits THEN {Scope(c, j) : j \in rows} ELSE {<<"queue">>}

\* Mutant: an array of keys cannot hold NULL, so the NULL lane is never in it.
Full_NoNullLane(c, rows, limit) ==
    {s \in Scopes(c, rows) :
        /\ s # <<"lane", None>>
        /\ Cardinality({j \in rows : Scope(c, j) = s}) >= limit}

\* Mutant: a limit that admits one more.
Full_OneMore(c, rows, limit) ==
    {s \in Scopes(c, rows) : Cardinality({j \in rows : Scope(c, j) = s}) > limit}

\* Mutant: one lane at its limit closes the queue.
Full_AnyLane(c, rows, limit) ==
    IF \E s \in Scopes(c, rows) : Cardinality({j \in rows : Scope(c, j) = s}) >= limit
    THEN {Scope(c, j) : j \in Job} ELSE {}

\* The scopes that may not be admitted from.
Full(c, rows, limit) ==
    {s \in Scopes(c, rows) : Cardinality({j \in rows : Scope(c, j) = s}) >= limit}

InFlight == {j \in Job : state[j] = "claimed"}
InWindow(stamps, t) == {j \in Job : stamps[j] # None /\ stamps[j] + Period > t}
AdmittedSince(t) == InWindow(claimed_at, t)

Claiming == {w \in Worker : pc[w] # "out"}
RowLocked(j) == \E w \in Worker : picked[w] = j

TypeOK ==
    /\ controls \in Controls
    /\ state \in [Job -> {"out", "queued", "claimed"}]
    /\ claimed_at \in [Job -> 0..MaxTime \union {None}]
    /\ run_count \in [Job -> Nat]
    /\ lock \in Worker \union {None}
    /\ now \in 0..MaxTime
    /\ changes \in 0..MaxChanges
    /\ aborts \in 0..MaxAborts
    /\ pc \in [Worker -> {"out", "locking", "concurrency", "rate", "picking", "picked"}]
    /\ q \in [Worker -> Controls]
    /\ start \in [Worker -> 0..MaxTime]
    /\ blocked \in [Worker -> SUBSET ({<<"queue">>} \union
                                      {<<"lane", partition_key[j]>> : j \in Job})]
    /\ picked \in [Worker -> Job \union {None}]
    /\ excused \subseteq Worker
    /\ \A w \in Worker : (pc[w] = "picked") <=> (picked[w] # None)
    /\ \A w \in Worker : (lock = w) <=> (pc[w] \notin {"out", "locking"} /\ Limited(q[w]))
    /\ \A w \in Worker : pc[w] = "locking" => Limited(q[w])

Init ==
    /\ controls \in Controls
    /\ state = [j \in Job |-> "out"]
    /\ claimed_at = [j \in Job |-> None]
    /\ run_count = [j \in Job |-> 0]
    /\ lock = None
    /\ now = 0
    /\ changes = 0
    /\ aborts = 0
    /\ pc = [w \in Worker |-> "out"]
    /\ q = [w \in Worker |-> controls]
    /\ start = [w \in Worker |-> 0]
    /\ blocked = [w \in Worker |-> {}]
    /\ picked = [w \in Worker |-> None]
    /\ excused = {}

------------------------------------------------------------------------------
(* claim_jorb()                                                            *)

\* Mutant: a session lock, which outlives the transaction.
EndTransaction_SessionLock(w) ==
    /\ pc' = [pc EXCEPT ![w] = "out"]
    /\ q' = [q EXCEPT ![w] = controls]
    /\ start' = [start EXCEPT ![w] = 0]
    /\ blocked' = [blocked EXCEPT ![w] = {}]
    /\ picked' = [picked EXCEPT ![w] = None]
    /\ UNCHANGED lock

\* Transaction end: the advisory lock and the row lock go with it, and what
\* the transaction knew is gone.
EndTransaction(w) ==
    /\ pc' = [pc EXCEPT ![w] = "out"]
    /\ q' = [q EXCEPT ![w] = controls]
    /\ start' = [start EXCEPT ![w] = 0]
    /\ blocked' = [blocked EXCEPT ![w] = {}]
    /\ picked' = [picked EXCEPT ![w] = None]
    /\ lock' = IF lock = w THEN None ELSE lock

\* Mutant: the counts are taken without the queue's lock.
Begin_NoLock(w) ==
    /\ pc[w] = "out"
    /\ ~controls.paused
    /\ q' = [q EXCEPT ![w] = controls]
    /\ start' = [start EXCEPT ![w] = now]
    /\ pc' = [pc EXCEPT ![w] = IF Limited(controls) THEN "concurrency" ELSE "picking"]
    /\ UNCHANGED <<control, jorb, lock, now, aborts, blocked, picked, excused>>

\* Reads the control row, once.  A paused queue returns at once; a queue
\* without limits goes straight to the claiming UPDATE.
Begin(w) ==
    /\ pc[w] = "out"
    /\ ~controls.paused
    /\ q' = [q EXCEPT ![w] = controls]
    /\ start' = [start EXCEPT ![w] = now]
    /\ pc' = [pc EXCEPT ![w] = IF Limited(controls) THEN "locking" ELSE "picking"]
    /\ UNCHANGED <<control, jorb, lock, now, aborts, blocked, picked, excused>>

AcquireLock(w) ==
    /\ pc[w] = "locking" /\ lock = None
    /\ lock' = w
    /\ pc' = [pc EXCEPT ![w] = "concurrency"]
    /\ UNCHANGED <<control, jorb, now, aborts, claim, excused>>

\* claim_queue_lock() gave up after lock_timeout.
LockTimeout(w) ==
    /\ pc[w] = "locking" /\ lock # None
    /\ EndTransaction(w)
    /\ excused' = excused \ {w}
    /\ UNCHANGED <<control, jorb, now, aborts>>

CountInFlight(w) ==
    /\ pc[w] = "concurrency"
    /\ blocked' = [blocked EXCEPT ![w] =
           IF q[w].max_concurrency = None THEN {}
           ELSE Full(q[w], InFlight, q[w].max_concurrency)]
    /\ pc' = [pc EXCEPT ![w] = "rate"]
    /\ UNCHANGED <<control, jorb, lock, now, aborts, q, start, picked, excused>>

CountAdmitted(w) ==
    /\ pc[w] = "rate"
    /\ blocked' = [blocked EXCEPT ![w] = @ \union
           IF q[w].rate_limit = None THEN {}
           ELSE Full(q[w], AdmittedSince(start[w]), q[w].rate_limit)]
    /\ pc' = [pc EXCEPT ![w] = "picking"]
    /\ UNCHANGED <<control, jorb, lock, now, aborts, q, start, picked, excused>>

Claimable(w) == {j \in Serves[w] : /\ state[j] = "queued" /\ ~RowLocked(j)
                                   /\ run_count[j] < MaxRuns
                                   /\ Scope(q[w], j) \notin blocked[w]}

\* The UPDATE, FOR UPDATE SKIP LOCKED.
Pick(w) ==
    /\ pc[w] = "picking"
    /\ \E j \in Claimable(w) : picked' = [picked EXCEPT ![w] = j]
    /\ pc' = [pc EXCEPT ![w] = "picked"]
    /\ UNCHANGED <<control, jorb, lock, now, aborts, q, start, blocked, excused>>

\* No row, or a limit reached: an empty answer.
ClaimNothing(w) ==
    /\ pc[w] = "picking" /\ Claimable(w) = {}
    /\ EndTransaction(w)
    /\ excused' = excused \ {w}
    /\ UNCHANGED <<control, jorb, now, aborts>>

\* claimed_at is now(), the moment the transaction BEGAN.  A claim that read
\* other controls than the present ones excuses those it ran beside.
Commit(w) ==
    /\ pc[w] = "picked"
    /\ LET j == picked[w] IN
           /\ state' = [state EXCEPT ![j] = "claimed"]
           /\ claimed_at' = [claimed_at EXCEPT ![j] = start[w]]
           /\ run_count' = [run_count EXCEPT ![j] = @ + 1]
    /\ EndTransaction(w)
    /\ excused' = (IF q[w] # controls THEN Claiming ELSE excused) \ {w}
    /\ UNCHANGED <<control, now, aborts>>

\* The worker or its connection dies and PostgreSQL rolls back.
Abort(w) ==
    /\ pc[w] # "out" /\ aborts < MaxAborts
    /\ EndTransaction(w)
    /\ aborts' = aborts + 1
    /\ excused' = excused \ {w}
    /\ UNCHANGED <<control, jorb, now>>

------------------------------------------------------------------------------
(* Everybody else                                                          *)

SetRow(j, from, to) ==
    /\ state[j] \in from /\ ~RowLocked(j)
    /\ state' = [state EXCEPT ![j] = to]
    /\ UNCHANGED <<control, claimed_at, run_count, lock, now, aborts, pc, claim, excused>>

\* An outcome, or a cancel of a queued job.
Leave(j) == SetRow(j, {"queued", "claimed"}, "out")

\* An enqueue, a retry, a reschedule, a sweep or an operator's requeue:
\* claimed_at stays as it is.
Queue(j) == SetRow(j, {"claimed", "out"}, "queued")

\* set_queue_control(): an upsert takes effect when it commits.
SetControls(c) ==
    /\ controls # c /\ changes < MaxChanges
    /\ controls' = c
    /\ changes' = changes + 1
    /\ excused' = Claiming
    /\ q' = [w \in Worker |-> IF pc[w] = "out" THEN c ELSE q[w]]
    /\ UNCHANGED <<jorb, lock, now, aborts, pc, start, blocked, picked>>

Tick ==
    /\ now < MaxTime
    /\ now' = now + 1
    /\ UNCHANGED <<control, jorb, lock, aborts, pc, claim, excused>>

ClaimStep(w) ==
    \/ Begin(w) \/ AcquireLock(w) \/ LockTimeout(w)
    \/ CountInFlight(w) \/ CountAdmitted(w)
    \/ Pick(w) \/ ClaimNothing(w) \/ Commit(w)

Next ==
    \/ \E w \in Worker : ClaimStep(w) \/ Abort(w)
    \/ \E j \in Job : Leave(j) \/ Queue(j)
    \/ \E c \in Controls : SetControls(c)
    \/ Tick

Spec == Init /\ [][Next]_vars

\* A worker's loop goes on asking, and each statement of a claim returns.
FairSpec == Spec /\ \A w \in Worker : WF_vars(ClaimStep(w))

------------------------------------------------------------------------------
Admits(w) == pc[w] = "picked" /\ state[picked[w]] # "claimed"
                              /\ state'[picked[w]] = "claimed"

SameScope(w, rows) ==
    Cardinality({j \in rows : Scope(q[w], j) = Scope(q[w], picked[w])})

\* A limit that claim_jorb() holds: with 0 per lane, a lane without rows has no
\* group that GROUP BY could return, and nothing is blocked.
Enforced(c, limit) == limit # None /\ (c.partition_limits => limit # 0)

\* claim_jorb() holds max_concurrency exactly, per queue or per lane, however
\* claims interleave: no admission takes a scope over the cap, unless an
\* operator changed the controls while the claim was open.
CapRespected ==
    [][\A w \in Worker :
           Admits(w) /\ w \notin excused /\ Enforced(q[w], q[w].max_concurrency)
               => SameScope(w, InFlight') <= q[w].max_concurrency]_vars

\* claim_jorb() holds rate_limit exactly over the rows' claimed_at stamps,
\* although stamps are the transactions' starts and commit in another order.
RateRespected ==
    [][\A w \in Worker :
           Admits(w) /\ w \notin excused /\ Enforced(q[w], q[w].rate_limit)
               => SameScope(w, InWindow(claimed_at', start[w])) <= q[w].rate_limit]_vars

HasHeadroom(j) ==
    /\ ~controls.paused
    /\ controls.max_concurrency # None =>
           Cardinality({i \in InFlight : Scope(controls, i) = Scope(controls, j)})
               < controls.max_concurrency
    /\ controls.rate_limit # None =>
           Cardinality({i \in AdmittedSince(now) : Scope(controls, i) = Scope(controls, j)})
               < controls.rate_limit

\* A lane at its limit never holds up another: the claiming UPDATE walks past
\* saturated lanes, so a queued job whose own lane keeps headroom does not wait
\* for ever behind jobs that may never end.
LaneServed ==
    \A j \in Job : ~<>[](state[j] = "queued" /\ run_count[j] < MaxRuns /\ HasHeadroom(j))
==============================================================================
