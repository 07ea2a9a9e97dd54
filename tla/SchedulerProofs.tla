--------------------------- MODULE SchedulerProofs ---------------------------
(***************************************************************************)
(* What a schedule promises for any number of daemons, ticks and edits.    *)
(*                                                                         *)
(* The argument.  What a pass may fire lies between next_run, which only   *)
(* the holder of the row lock moves, and the next_run it will leave        *)
(* (Window); no instant of the series lies between the end of the window   *)
(* and that next_run, because both are measured on one clock.  A tick at   *)
(* or after next_run has been fired no more often than edits went back to  *)
(* it (OnceAhead), and each tick of a pass leaves less to do, so live jobs *)
(* and failures are bounded by what was counted under the lock (Room,      *)
(* Patience).                                                              *)
(***************************************************************************)
EXTENDS Scheduler, FiniteSetTheorems, TLAPS

Window ==
    txn # None =>
        /\ cron # None /\ next_run < txn.next
        /\ \A t \in txn.todo \union txn.made : next_run <= t /\ t < txn.next
        /\ backfill_limit > 0 =>
              \A t \in Series(cron) : next_run <= t /\ t < txn.next => t \in txn.logged

OnceAhead ==
    \A t \in Instant :
        /\ fired[t] <= 1 + rewound[t]
        /\ next_run <= t => fired[t] <= rewound[t]

Room ==
    Cardinality(queued) + live + (IF txn = None THEN 0 ELSE Cardinality(txn.made))
        <= Allows(max_concurrent_jobs)

Patience ==
    /\ failing <= consecutive_failures
    /\ failing <= Allows(circuit_breaker_threshold) + Allows(backfill_limit)
    /\ txn # None =>
          /\ txn.failing <= txn.failures
          /\ txn.failing <= Allows(circuit_breaker_threshold) + Allows(backfill_limit)
          /\ ~Tripped => txn.failing + Cardinality(txn.todo)
                           <= Allows(circuit_breaker_threshold) + Allows(backfill_limit)

Once == TypeOK /\ Window /\ OnceAhead
Inv == Once /\ Room /\ Patience /\ EveryTickAnswered

------------------------------------------------------------------------------
(* Least and greatest elements.                                            *)

\* Of nested intervals, one is the smallest.
LEMMA ExtremesExist ==
    ASSUME NEW N \in Nat, NEW T \in SUBSET (0..N), T # {}
    PROVE  /\ \E x \in T : \A y \in T : x <= y
           /\ \E x \in T : \A y \in T : x >= y
<1> DEFINE S == 0..N
<1>1. IsFiniteSet(S)
  BY FS_Interval
<1>2. IsWellFoundedOn(StrictSubsetOrdering(S), SUBSET S)
  BY <1>1, FS_StrictSubsetOrderingWellFounded, FS_FiniteSubsetsOfFinite
<1> HIDE DEF S
<1>3. ASSUME NEW F \in SUBSET (SUBSET S), F # {}
      PROVE  \E A \in F : \A B \in F : ~(B \subseteq A /\ B # A)
  <2>1. \E A \in F : \A B \in F : ~(<<B, A>> \in StrictSubsetOrdering(S))
    BY <1>2, <1>3, WFMin
  <2> QED
    BY <2>1 DEF StrictSubsetOrdering
<1>4. \E x \in T : \A y \in T : x <= y
  <2> DEFINE F == {0..x : x \in T}
  <2>1. F \in SUBSET (SUBSET S) /\ F # {}
    <3>1. ASSUME NEW x \in T PROVE (0..x) \subseteq S
      BY <3>1 DEF S
    <3> QED
      BY <3>1
  <2>2. PICK A \in F : \A B \in F : ~(B \subseteq A /\ B # A)
    BY <1>3, <2>1
  <2>3. PICK x \in T : A = 0..x
    OBVIOUS
  <2>4. ASSUME NEW y \in T, ~(x <= y) PROVE FALSE
    <3>1. 0..y \subseteq 0..x /\ x \in 0..x /\ x \notin 0..y
      BY <2>4
    <3> QED
      BY <2>2, <2>3, <3>1
  <2> QED
    BY <2>4
<1>5. \E x \in T : \A y \in T : x >= y
  <2> DEFINE F == {x..N : x \in T}
  <2>1. F \in SUBSET (SUBSET S) /\ F # {}
    <3>1. ASSUME NEW x \in T PROVE (x..N) \subseteq S
      BY <3>1 DEF S
    <3> QED
      BY <3>1
  <2>2. PICK A \in F : \A B \in F : ~(B \subseteq A /\ B # A)
    BY <1>3, <2>1
  <2>3. PICK x \in T : A = x..N
    OBVIOUS
  <2>4. ASSUME NEW y \in T, ~(x >= y) PROVE FALSE
    <3>1. y..N \subseteq x..N /\ x \in x..N /\ x \notin y..N
      BY <2>4
    <3> QED
      BY <2>2, <2>3, <3>1
  <2> QED
    BY <2>4
<1> QED
  BY <1>4, <1>5

\* next_cron_run: nothing of the series lies before it.
LEMMA NextRun ==
    ASSUME NEW c \in Cron, NEW after \in 0..(Horizon + 1)
    PROVE  /\ Next_cron_run(c, after) \in 1..(Horizon + 1)
           /\ after <= Horizon => after < Next_cron_run(c, after)
           /\ \A t \in Series(c) : after < t => Next_cron_run(c, after) <= t
<1> DEFINE later == {t \in Series(c) : t > after} \union {Horizon + 1}
<1>1. later \in SUBSET (0..(Horizon + 1)) /\ later # {} /\ Horizon + 1 \in Nat
  BY ScheduleAssumption DEF Series, Instant
<1>2. \E x \in later : \A y \in later : x <= y
  BY <1>1, ExtremesExist
<1>3. Min(later) \in later /\ \A y \in later : Min(later) <= y
  BY <1>2 DEF Min
<1>4. Next_cron_run(c, after) = Min(later)
  BY DEF Next_cron_run
<1>5. \A t \in later : t \in 1..(Horizon + 1) /\ (after <= Horizon => after < t)
  BY ScheduleAssumption DEF Series, Instant
<1> QED
  BY <1>3, <1>4, <1>5

LEMMA LaterOf ==
    ASSUME NEW a \in Int, NEW b \in Int
    PROVE  Max({a, b}) = IF a >= b THEN a ELSE b
<1>1. \E x \in {a, b} : \A y \in {a, b} : x >= y
  OBVIOUS
<1>2. Max({a, b}) \in {a, b} /\ \A y \in {a, b} : Max({a, b}) >= y
  BY <1>1 DEF Max
<1> QED
  BY <1>2

LEMMA LimitsAllow ==
    /\ Allows(backfill_limit) \in Nat /\ Allows(max_concurrent_jobs) \in Nat
    /\ Allows(circuit_breaker_threshold) \in Nat
BY ScheduleAssumption DEF Allows

LEMMA Finite ==
    ASSUME NEW T \in SUBSET Instant
    PROVE  IsFiniteSet(T) /\ Cardinality(T) \in Nat
<1>1. IsFiniteSet(Instant)
  BY ScheduleAssumption, FS_Interval DEF Instant
<1> QED
  BY <1>1, FS_Subset, FS_CardinalityType

\* backfill_limit keeps that many, the newest.
LEMMA KeptIsBounded ==
    ASSUME NEW missed \in SUBSET Instant, backfill_limit > 0
    PROVE  Cardinality(Kept(missed)) <= backfill_limit
<1>1. CASE Kept(missed) = {}
  BY <1>1, FS_EmptySet, ScheduleAssumption
<1>2. CASE Kept(missed) # {}
  <2>1. PICK m \in Kept(missed) : \A t \in Kept(missed) : m <= t
    <3>1. Kept(missed) \in SUBSET (0..Horizon)
      <4>1. Kept(missed) \subseteq missed
        BY DEF Kept
      <4>2. missed \subseteq 0..Horizon
        BY ScheduleAssumption DEF Instant
      <4> QED
        BY <4>1, <4>2
    <3> HIDE DEF Kept
    <3> QED
      BY <1>2, <3>1, ExtremesExist, ScheduleAssumption
  <2> DEFINE newer == {u \in missed : u > m}
             rest == Kept(missed) \ {m}
  <2>2. /\ rest \subseteq newer /\ newer \subseteq Instant /\ Kept(missed) \subseteq Instant
        /\ Cardinality(newer) < backfill_limit
    <3>1. m \in Int /\ \A t \in missed : t \in Int
      BY <2>1, ScheduleAssumption DEF Kept, Instant
    <3>2. \A t \in rest : t > m
      BY <2>1, <3>1 DEF Kept
    <3> QED
      BY <2>1, <3>2 DEF Kept
  <2>3. Cardinality(rest) <= Cardinality(newer)
    BY <2>2, Finite, FS_Subset
  <2>4. Cardinality(rest) = Cardinality(Kept(missed)) - 1
    BY <2>2, Finite, FS_RemoveElement
  <2>5. Cardinality(rest) \in Nat /\ Cardinality(newer) \in Nat
        /\ Cardinality(Kept(missed)) \in Nat
    BY <2>2, Finite
  <2> HIDE DEF rest, newer
  <2> QED
    BY <2>2, <2>3, <2>4, <2>5, ScheduleAssumption
<1> QED
  BY <1>1, <1>2

------------------------------------------------------------------------------
(* Types.                                                                  *)

Txn == [by : Scheduler, todo : SUBSET Instant, logged : SUBSET Instant,
        next : 1..(Horizon + 1), made : SUBSET Instant, disable : BOOLEAN,
        failures : Nat, failing : Nat]

\* What execute_schedule does to the pass it belongs to.
Executes(s) ==
    CircuitBreaker(s) \/ SafetySkip(s) \/ Enqueue(s) \/ Duplicate(s) \/ EnqueueFails(s)
      \/ EnqueueRefused(s)

LEMMA ThisIsReady ==
    ASSUME TypeOK, NEW s \in Scheduler, Ready(s)
    PROVE  This \in txn.todo /\ This \in Instant
<1>1. txn \in Txn
  BY DEF TypeOK, Ready, Txn
<1>2. txn.todo \in SUBSET (0..Horizon) /\ txn.todo # {} /\ txn.todo \subseteq Instant
  <2>1. Instant \subseteq 0..Horizon
    BY ScheduleAssumption DEF Instant
  <2> QED
    BY <1>1, <2>1 DEF Ready, Txn
<1>3. \E x \in txn.todo : \A y \in txn.todo : x >= y
  BY <1>2, ExtremesExist, ScheduleAssumption
<1>4. Max(txn.todo) \in txn.todo
  BY <1>3 DEF Max
<1> QED
  BY <1>2, <1>4 DEF This

\* A tick of a pass: it is taken off the list, fired or not, and counted.
LEMMA ExecutesOne ==
    ASSUME TypeOK, NEW s \in Scheduler, Executes(s)
    PROVE  /\ Private
           /\ txn # None /\ txn \in Txn /\ txn' \in Txn
           /\ This \in txn.todo /\ This \in Instant
           /\ txn'.todo = txn.todo \ {This}
           /\ txn'.next = txn.next /\ txn'.logged = txn.logged /\ txn'.by = txn.by
           /\ \/ /\ txn'.made = txn.made
                 /\ txn'.failing = txn.failing /\ txn'.failures = txn.failures
              \/ /\ txn'.made = txn.made /\ ~Tripped
                 /\ txn'.failing = txn.failing + 1
                 /\ txn'.failures >= txn.failures + 1
              \/ /\ txn'.made = txn.made \union {This} /\ ~Full
                 /\ txn'.failing = 0 /\ txn'.failures = 0
<1>1. Ready(s) /\ Private
  BY DEF Executes, CircuitBreaker, SafetySkip, Enqueue, Duplicate, EnqueueFails,
         EnqueueRefused, Fires
<1>2. txn # None /\ txn \in Txn /\ This \in txn.todo /\ This \in Instant
  BY <1>1, ThisIsReady DEF Ready, TypeOK, Txn
<1> HIDE DEF This
<1>3. CASE CircuitBreaker(s) \/ SafetySkip(s) \/ Duplicate(s)
  BY <1>1, <1>2, <1>3 DEF CircuitBreaker, SafetySkip, Duplicate, Answered, Txn
<1>4. CASE EnqueueFails(s)
  <2>1. /\ ~Tripped
        /\ txn' = [txn EXCEPT !.failures = txn.failures + 1, !.failing = txn.failing + 1,
                              !.todo = txn.todo \ {This}]
    BY <1>2, <1>4 DEF EnqueueFails, Fires, Answered, Txn
  <2>2. /\ txn.failures \in Nat /\ txn.failing \in Nat
        /\ txn.failures + 1 \in Nat /\ txn.failing + 1 \in Nat
        /\ txn.failures + 1 >= txn.failures + 1
    BY <1>2 DEF Txn
  <2> QED
    BY <1>1, <1>2, <2>1, <2>2 DEF Txn
<1>5. CASE EnqueueRefused(s)
  <2>1. /\ ~Tripped
        /\ txn' = [txn EXCEPT !.failures = txn.failures + 2, !.failing = txn.failing + 1,
                              !.todo = txn.todo \ {This}, !.disable = TRUE]
    BY <1>2, <1>5 DEF EnqueueRefused, Fires, Answered, Txn
  <2>2. /\ txn.failures \in Nat /\ txn.failing \in Nat
        /\ txn.failures + 2 \in Nat /\ txn.failing + 1 \in Nat
        /\ txn.failures + 2 >= txn.failures + 1
    BY <1>2 DEF Txn
  <2> QED
    BY <1>1, <1>2, <2>1, <2>2 DEF Txn
<1>6. CASE Enqueue(s)
  BY <1>1, <1>2, <1>6 DEF Enqueue, Fires, Answered, Txn
<1> QED
  BY <1>3, <1>4, <1>5, <1>6 DEF Executes

\* The pass begins with what the schedule is due for.
LEMMA LockOpens ==
    ASSUME TypeOK, NEW s \in Scheduler, Lock(s)
    PROVE  /\ UNCHANGED <<now, schedule, log, jobs, began, edit, history, trouble>>
           /\ txn = None /\ cron \in Cron /\ txn' \in Txn
           /\ next_run < txn'.next /\ next_run \in txn'.todo /\ txn'.made = {}
           /\ \A t \in txn'.todo : next_run <= t /\ t < txn'.next
           /\ backfill_limit > 0 =>
                 \A t \in Series(cron) : next_run <= t /\ t < txn'.next => t \in txn'.logged
           /\ Cardinality(txn'.todo) <= 1 + Allows(backfill_limit)
           /\ txn'.failing = failing /\ txn'.failures = consecutive_failures
<1> DEFINE missed == IF backfill_limit <= 0 THEN {} ELSE Missed(cron, next_run, began[s])
           from == Max({began[s], next_run})
           next == Next_cron_run(cron, from)
<1>1. /\ txn = None /\ cron \in Cron /\ began[s] \in 0..Horizon /\ next_run <= began[s]
      /\ next_run \in 1..Horizon
  BY ScheduleAssumption DEF Lock, Locks, Due, TypeOK
<1>2. /\ UNCHANGED <<now, schedule, log, jobs, began, edit, history, trouble>>
      /\ txn' = [by |-> s, todo |-> {next_run} \union Kept(missed),
                 logged |-> {next_run} \union missed, next |-> next, made |-> {},
                 disable |-> FALSE, failures |-> consecutive_failures, failing |-> failing]
  BY DEF Lock, Until, AdvanceFrom
<1>3. from = began[s]
  BY <1>1, LaterOf
<1>4. Series(cron) \subseteq Instant
  BY <1>1, ScheduleAssumption DEF Series
<1>5. /\ missed \subseteq Instant /\ Kept(missed) \subseteq missed
      /\ \A t \in missed : next_run < t /\ t <= began[s]
  BY <1>4 DEF Missed, Kept
<1>6. /\ next \in 1..(Horizon + 1) /\ began[s] < next
      /\ \A t \in Series(cron) : began[s] < t => next <= t
  <2>1. from \in 0..(Horizon + 1) /\ from <= Horizon
    BY <1>1, <1>3, ScheduleAssumption
  <2> HIDE DEF from
  <2> QED
    BY <1>1, <1>3, <2>1, NextRun
<1>7. Cardinality({next_run} \union Kept(missed)) <= 1 + Allows(backfill_limit)
  <2>1. Cardinality(Kept(missed)) <= Allows(backfill_limit)
    <3>1. CASE backfill_limit <= 0
      BY <1>5, <3>1, FS_EmptySet, ScheduleAssumption DEF Allows
    <3>2. CASE backfill_limit > 0
      BY <1>5, <3>2, KeptIsBounded DEF Allows
    <3> QED
      BY <3>1, <3>2, ScheduleAssumption
  <2>2. Kept(missed) \in SUBSET Instant
    BY <1>5
  <2> HIDE DEF missed
  <2>3. /\ Cardinality(Kept(missed)) \in Nat
        /\ Cardinality(Kept(missed) \union {next_run}) =
             IF next_run \in Kept(missed) THEN Cardinality(Kept(missed))
             ELSE Cardinality(Kept(missed)) + 1
    BY <2>2, Finite, FS_AddElement
  <2>4. Cardinality(Kept(missed) \union {next_run}) <= 1 + Allows(backfill_limit)
    <3> DEFINE k == Cardinality(Kept(missed))
    <3>1. k \in Nat /\ k <= Allows(backfill_limit) /\ Allows(backfill_limit) \in Nat
      BY <2>1, <2>3, LimitsAllow
    <3>2. Cardinality(Kept(missed) \union {next_run}) \in {k, k + 1}
      BY <2>3
    <3> HIDE DEF k
    <3> QED
      BY <3>1, <3>2
  <2>5. {next_run} \union Kept(missed) = Kept(missed) \union {next_run}
    OBVIOUS
  <2> QED
    BY <2>4, <2>5
<1>8. next_run \in Instant
  BY <1>1 DEF Instant
<1> HIDE DEF from, next
<1>9. /\ next_run < next
      /\ \A t \in {next_run} \union Kept(missed) : next_run <= t /\ t < next
  <2>1. \A t \in missed : t \in Int /\ next_run < t /\ t <= began[s]
    BY <1>5, ScheduleAssumption DEF Instant
  <2> HIDE DEF missed
  <2> QED
    BY <1>1, <1>5, <1>6, <2>1, ScheduleAssumption
<1>10. ASSUME backfill_limit > 0, NEW t \in Series(cron), next_run <= t, t < next
       PROVE  t \in {next_run} \union missed
  <2>1. t \in Int /\ t <= began[s]
    BY <1>1, <1>4, <1>6, <1>10, ScheduleAssumption DEF Instant
  <2> QED
    BY <1>1, <1>10, <2>1, ScheduleAssumption DEF Missed
<1> HIDE DEF missed
<1>11. txn' \in Txn
  BY <1>2, <1>5, <1>6, <1>8 DEF Txn, TypeOK
<1> QED
  BY <1>1, <1>2, <1>7, <1>9, <1>10, <1>11

LEMMA TypesKept ==
    ASSUME TypeOK, Next
    PROVE  TypeOK'
<1>1. ASSUME NEW s \in Scheduler, Begin(s) \/ Skip(s) PROVE TypeOK'
  BY <1>1 DEF Begin, Skip, TypeOK, schedule, jobs, history
<1>2. ASSUME NEW s \in Scheduler, Unevaluatable(s) PROVE TypeOK'
  <2>1. next_run \in Instant
    BY <1>2, ScheduleAssumption DEF Unevaluatable, Locks, Due, TypeOK, Instant
  <2>2. /\ consecutive_failures' \in Nat /\ enabled' \in BOOLEAN /\ log' \subseteq Instant
        /\ began' \in [Scheduler -> 0..Horizon \union {None}]
        /\ UNCHANGED <<now, cron, next_run, jobs, txn, edit, history, trouble>>
    <3>1. enabled' \in BOOLEAN
      BY <1>2 DEF Unevaluatable
    <3>2. consecutive_failures' \in Nat
      BY <1>2 DEF Unevaluatable, TypeOK
    <3>3. log' \subseteq Instant
      BY <1>2, <2>1 DEF Unevaluatable, TypeOK
    <3>4. began' \in [Scheduler -> 0..Horizon \union {None}]
      BY <1>2 DEF Unevaluatable, TypeOK
    <3>5. UNCHANGED <<now, cron, next_run, jobs, txn, edit, history, trouble>>
      BY <1>2 DEF Unevaluatable
    <3> QED
      BY <3>1, <3>2, <3>3, <3>4, <3>5
  <2> QED
    BY <2>2 DEF TypeOK, jobs, history
<1>3. ASSUME NEW s \in Scheduler, Lock(s) PROVE TypeOK'
  BY <1>3, LockOpens DEF TypeOK, Txn, schedule, jobs, history
<1>4. ASSUME NEW s \in Scheduler, Executes(s) PROVE TypeOK'
  BY <1>4, ExecutesOne DEF Private, TypeOK, Txn, schedule, jobs, history
<1>5. ASSUME NEW s \in Scheduler, Commit(s) PROVE TypeOK'
  <2>1. txn \in Txn
    BY <1>5 DEF Commit, TypeOK, Txn
  <2>2. fired' \in [Instant -> Nat]
    <3>1. \A t \in Instant : fired[t] + Made(t) \in Nat
      BY DEF Made, TypeOK
    <3> QED
      BY <1>5, <3>1 DEF Commit
  <2>3. enabled' \in BOOLEAN
    BY <1>5 DEF Commit
  <2>4. /\ queued' \subseteq Instant /\ log' \subseteq Instant
        /\ next_run' \in 1..(Horizon + 1) /\ consecutive_failures' \in Nat /\ failing' \in Nat
    BY <1>5, <2>1 DEF Commit, TypeOK, Txn
  <2> QED
    BY <1>5, <2>2, <2>3, <2>4 DEF Commit, TypeOK
<1>6. ASSUME NEW s \in Scheduler, Abort(s) PROVE TypeOK'
  BY <1>6, ScheduleAssumption DEF Abort, Trouble, TypeOK, schedule, jobs, history
<1>7. CASE Tick \/ Finish \/ \E t \in Instant : Claim(t)
  BY <1>7, ScheduleAssumption DEF Tick, Finish, Claim, TypeOK, schedule, jobs, history
<1>8. CASE Rerun \/ HandEdit
  BY <1>8, ScheduleAssumption DEF Rerun, HandEdit, Trouble, TypeOK, schedule, jobs, history
<1>9. ASSUME NEW c \in Cron, EditBegins(c) PROVE TypeOK'
  <2>1. now \in 0..(Horizon + 1)
    BY ScheduleAssumption DEF TypeOK
  <2>2. Next_cron_run(c, now) \in 1..(Horizon + 1)
    BY <2>1, NextRun
  <2> QED
    BY <1>9, <2>2, ScheduleAssumption
    DEF EditBegins, Trouble, TypeOK, schedule, jobs, history
<1>10. CASE EditWrites
  <2>1. edit \in [cron : Cron, next : 1..(Horizon + 1)]
    BY <1>10 DEF EditWrites, TypeOK
  <2>2. rewound' \in [Instant -> Nat]
    BY <1>10 DEF EditWrites, TypeOK
  <2> QED
    BY <1>10, <2>1, <2>2 DEF EditWrites, TypeOK, jobs
<1>11. CASE disable_schedule \/ enable_schedule
  <2>1. /\ enabled' \in BOOLEAN /\ consecutive_failures' \in Nat /\ failing' \in Nat
        /\ UNCHANGED <<now, cron, next_run, log, jobs, began, txn, edit, fired, rewound,
                       since, trouble>>
    <3>1. enabled' \in BOOLEAN
      BY <1>11 DEF disable_schedule, enable_schedule
    <3>2. consecutive_failures' \in Nat /\ failing' \in Nat
      BY <1>11 DEF disable_schedule, enable_schedule, history, TypeOK
    <3>3. UNCHANGED <<now, cron, next_run, log, jobs, began, txn, edit, fired, rewound,
                      since, trouble>>
      BY <1>11 DEF disable_schedule, enable_schedule, history
    <3> QED
      BY <3>1, <3>2, <3>3
  <2> QED
    BY <2>1 DEF TypeOK, jobs
<1> QED
  BY <1>1, <1>2, <1>3, <1>4, <1>5, <1>6, <1>7, <1>8, <1>9, <1>10, <1>11
  DEF Next, Pass, Executes

------------------------------------------------------------------------------
(* The invariant.                                                          *)

LEMMA WindowKept ==
    ASSUME TypeOK, Window, Next
    PROVE  Window'
<1>1. ASSUME UNCHANGED <<txn, cron, next_run>> PROVE Window'
  BY <1>1 DEF Window, Series
<1>2. ASSUME NEW s \in Scheduler, Lock(s) PROVE Window'
  <2>1. UNCHANGED <<cron, next_run>> /\ cron # None
    BY <1>2 DEF Lock, Locks, schedule
  <2> QED
    BY <1>2, <2>1, LockOpens DEF Window, Series
<1>3. ASSUME NEW s \in Scheduler, Executes(s) PROVE Window'
  <2>1. UNCHANGED <<cron, next_run>>
    BY <1>3, ExecutesOne DEF Private, schedule
  <2>2. txn'.todo \union txn'.made \subseteq txn.todo \union txn.made
    BY <1>3, ExecutesOne
  <2> QED
    BY <1>3, <2>1, <2>2, ExecutesOne DEF Window, Series
<1>4. ASSUME txn' = None PROVE Window'
  BY <1>4 DEF Window
<1> QED
  BY <1>1, <1>2, <1>3, <1>4
  DEF Next, Pass, Executes, Begin, Skip, Unevaluatable, Commit, Abort, Tick, Claim, Finish,
      Rerun, EditBegins, EditWrites, HandEdit, disable_schedule, enable_schedule, schedule

LEMMA OnceAheadKept ==
    ASSUME TypeOK, Window, OnceAhead, Next
    PROVE  OnceAhead'
<1>1. ASSUME UNCHANGED <<fired, rewound, next_run>> PROVE OnceAhead'
  BY <1>1 DEF OnceAhead
<1>2. ASSUME NEW s \in Scheduler, Commit(s) PROVE OnceAhead'
  <2> SUFFICES ASSUME NEW t \in Instant
               PROVE  /\ fired'[t] <= 1 + rewound'[t]
                      /\ next_run' <= t => fired'[t] <= rewound'[t]
    BY DEF OnceAhead
  <2>1. /\ fired'[t] = fired[t] + Made(t) /\ rewound' = rewound /\ next_run' = txn.next
        /\ txn # None /\ txn \in Txn
    BY <1>2 DEF Commit, TypeOK, Txn
  <2>2. /\ fired[t] \in Nat /\ rewound[t] \in Nat /\ t \in Int /\ next_run \in Int
        /\ txn.next \in Int /\ next_run < txn.next
    BY <2>1, ScheduleAssumption DEF TypeOK, Txn, Window, Instant
  <2>3. CASE t \in txn.made
    <3>1. next_run <= t /\ t < txn.next /\ Made(t) = 1
      BY <2>1, <2>3 DEF Window, Made
    <3> QED
      BY <2>1, <2>2, <3>1 DEF OnceAhead
  <2>4. CASE t \notin txn.made
    BY <2>1, <2>2, <2>4 DEF OnceAhead, Made
  <2> QED
    BY <2>3, <2>4
<1>3. CASE EditWrites
  <2> SUFFICES ASSUME NEW t \in Instant
               PROVE  /\ fired'[t] <= 1 + rewound'[t]
                      /\ next_run' <= t => fired'[t] <= rewound'[t]
    BY DEF OnceAhead
  <2>1. /\ fired' = fired /\ next_run' = edit.next
        /\ rewound'[t] = rewound[t] + (IF t >= edit.next /\ fired[t] > 0 THEN 1 ELSE 0)
    BY <1>3 DEF EditWrites
  <2>2. fired[t] \in Nat /\ rewound[t] \in Nat /\ t \in Int /\ edit.next \in Int
    BY <1>3, ScheduleAssumption DEF EditWrites, TypeOK, Instant
  <2> QED
    BY <2>1, <2>2 DEF OnceAhead
<1> QED
  BY <1>1, <1>2, <1>3, ExecutesOne
  DEF Next, Pass, Executes, Private, Begin, Skip, Unevaluatable, Lock, Abort, Tick, Claim,
      Finish, Rerun, EditBegins, HandEdit, disable_schedule, enable_schedule, schedule, history

LEMMA AnsweredKept ==
    ASSUME TypeOK, Window, EveryTickAnswered, Next
    PROVE  EveryTickAnswered'
<1>1. ASSUME UNCHANGED <<cron, since, next_run>>, log \subseteq log' PROVE EveryTickAnswered'
  BY <1>1 DEF EveryTickAnswered, Series
<1>2. ASSUME NEW s \in Scheduler, Commit(s) PROVE EveryTickAnswered'
  <2> SUFFICES ASSUME backfill_limit > 0, cron # None, NEW t \in Series(cron),
                      since <= t, t < txn.next
               PROVE  t \in log \union txn.logged
    BY <1>2 DEF Commit, EveryTickAnswered, Series
  <2>1. txn # None
    BY <1>2 DEF Commit
  <2>2. t \in Int /\ next_run \in Int
    BY ScheduleAssumption DEF Series, Instant, TypeOK
  <2>3. CASE t < next_run
    BY <2>3 DEF EveryTickAnswered
  <2>4. CASE next_run <= t
    BY <2>1, <2>4 DEF Window
  <2> QED
    BY <2>2, <2>3, <2>4
<1>3. CASE EditWrites
  <2>1. /\ since' = edit.next /\ next_run' = edit.next /\ cron' \in Cron
        /\ edit.next \in Int
    BY <1>3, ScheduleAssumption DEF EditWrites, TypeOK
  <2>2. \A t \in Series(cron') : t \in Int
    BY <2>1, ScheduleAssumption DEF Series, Instant
  <2> QED
    BY <2>1, <2>2 DEF EveryTickAnswered, Series
<1>4. CASE HandEdit
  BY <1>4 DEF HandEdit, EveryTickAnswered
<1> QED
  BY <1>1, <1>2, <1>3, <1>4, ExecutesOne
  DEF Next, Pass, Executes, Private, Begin, Skip, Unevaluatable, Lock, Abort, Tick, Claim,
      Finish, Rerun, EditBegins, disable_schedule, enable_schedule, schedule, history

LEMMA RoomKept ==
    ASSUME TypeOK, Room, Next
    PROVE  Room'
<1> DEFINE q == Cardinality(queued)
           m == Cardinality(txn.made)
           cap == Allows(max_concurrent_jobs)
<1>1. q \in Nat /\ live \in Nat /\ revived \in Nat /\ cap \in Nat
  BY Finite, LimitsAllow DEF TypeOK
<1>2. txn # None => txn \in Txn /\ txn.made \in SUBSET Instant /\ m \in Nat
  BY Finite DEF TypeOK, Txn
<1>3. q + live <= cap
  BY <1>1, <1>2 DEF Room
<1>4. ASSUME UNCHANGED <<queued, live, txn>> PROVE Room'
  BY <1>4 DEF Room
<1>5. ASSUME NEW s \in Scheduler, Lock(s) PROVE Room'
  <2>1. queued' = queued /\ live' = live /\ Cardinality(txn'.made) = 0
    BY <1>5, LockOpens, FS_EmptySet DEF jobs
  <2> QED
    BY <1>1, <1>3, <2>1 DEF Room
<1>6. ASSUME NEW s \in Scheduler, Executes(s) PROVE Room'
  <2>1. queued' = queued /\ live' = live /\ txn # None /\ This \in Instant
    BY <1>6, ExecutesOne DEF Private, jobs
  <2>2. CASE txn'.made = txn.made
    BY <1>1, <1>2, <2>1, <2>2 DEF Room
  <2>3. CASE txn'.made = txn.made \union {This} /\ ~Full
    <3>1. Cardinality(txn'.made) \in {m, m + 1}
      BY <1>2, <2>1, <2>3, Finite, FS_AddElement
    <3>2. q + live + revived + m < cap
      BY <1>1, <1>2, <2>1, <2>3, ScheduleAssumption DEF Full, InFlight, Allows
    <3> HIDE DEF m, q
    <3>3. q + live + Cardinality(txn'.made) <= cap
      BY <1>1, <1>2, <2>1, <3>1, <3>2
    <3> QED
      BY <1>1, <1>3, <2>1, <3>3 DEF Room, q
  <2> QED
    BY <1>6, <2>2, <2>3, ExecutesOne
<1>7. ASSUME NEW s \in Scheduler, Commit(s) PROVE Room'
  <2>1. queued' = queued \union txn.made /\ live' = live /\ txn' = None /\ txn # None
    BY <1>7 DEF Commit
  <2>2. /\ Cardinality(queued') = q + m - Cardinality(queued \intersect txn.made)
        /\ Cardinality(queued \intersect txn.made) \in Nat
    <3>1. queued \in SUBSET Instant /\ queued \intersect txn.made \in SUBSET Instant
      BY <1>2, <2>1 DEF TypeOK
    <3> QED
      BY <1>2, <2>1, <3>1, Finite, FS_Union
  <2>3. q + live + m <= cap
    BY <2>1 DEF Room
  <2> HIDE DEF q, m
  <2>4. Cardinality(queued') + live <= cap
    BY <1>1, <1>2, <2>1, <2>2, <2>3
  <2>5. Cardinality(queued') \in Nat
    BY <1>1, <1>2, <2>1, <2>2, TypesKept, Finite DEF TypeOK
  <2> QED
    BY <1>1, <2>1, <2>4, <2>5 DEF Room
<1>8. ASSUME NEW s \in Scheduler, Abort(s) PROVE Room'
  BY <1>1, <1>3, <1>8 DEF Abort, Room, jobs
<1>9. ASSUME NEW t \in Instant, Claim(t) PROVE Room'
  <2>1. Cardinality(queued') = q - 1 /\ live' = live + 1 /\ txn' = txn
    BY <1>9, Finite, FS_RemoveElement DEF Claim, TypeOK
  <2> HIDE DEF q
  <2>2. Cardinality(queued') + live' = q + live
    BY <1>1, <2>1
  <2> QED
    BY <2>1, <2>2 DEF Room, q
<1>10. CASE Finish
  <2>1. queued' = queued /\ txn' = txn /\ live' \in Nat /\ live' <= live
    BY <1>1, <1>10 DEF Finish
  <2> QED
    BY <1>1, <1>2, <2>1 DEF Room
<1> QED
  BY <1>4, <1>5, <1>6, <1>7, <1>8, <1>9, <1>10
  DEF Next, Pass, Executes, Begin, Skip, Unevaluatable, Tick, Rerun, EditBegins, EditWrites,
      HandEdit, disable_schedule, enable_schedule, schedule, jobs

LEMMA PatienceKept ==
    ASSUME TypeOK, Patience, Next
    PROVE  Patience'
<1> DEFINE bound == Allows(circuit_breaker_threshold) + Allows(backfill_limit)
<1>1. /\ bound \in Nat /\ Allows(backfill_limit) \in Nat
      /\ failing \in Nat /\ consecutive_failures \in Nat
  BY LimitsAllow DEF TypeOK
<1>2. ASSUME UNCHANGED <<failing, consecutive_failures, txn>> PROVE Patience'
  BY <1>2 DEF Patience, Tripped
<1>3. ASSUME txn' = None, failing' = failing, consecutive_failures' \in Nat,
             consecutive_failures' >= consecutive_failures
      PROVE  Patience'
  BY <1>1, <1>3 DEF Patience
<1>4. ASSUME NEW s \in Scheduler, Lock(s) PROVE Patience'
  <2>1. /\ failing' = failing /\ consecutive_failures' = consecutive_failures
        /\ txn'.failing = failing /\ txn'.failures = consecutive_failures
        /\ Cardinality(txn'.todo) <= 1 + Allows(backfill_limit)
    BY <1>4, LockOpens DEF schedule, history
  <2>2. Cardinality(txn'.todo) \in Nat
    BY <1>4, LockOpens, Finite DEF Txn
  <2>3. ~Tripped' => failing + Cardinality(txn'.todo) <= bound
    <3>1. ~Tripped' => consecutive_failures + 1 <= Allows(circuit_breaker_threshold)
      BY <1>1, <2>1, ScheduleAssumption DEF Tripped, Allows
    <3> QED
      BY <1>1, <2>1, <2>2, <3>1, LimitsAllow DEF Patience
  <2> QED
    BY <1>1, <2>1, <2>3 DEF Patience
<1>5. ASSUME NEW s \in Scheduler, Executes(s) PROVE Patience'
  <2> DEFINE k == Cardinality(txn.todo)
  <2>1. /\ failing' = failing /\ consecutive_failures' = consecutive_failures
        /\ txn # None /\ txn \in Txn /\ txn' \in Txn
    BY <1>5, ExecutesOne DEF Private, schedule, history
  <2>2. Cardinality(txn'.todo) = k - 1 /\ k \in Nat /\ Cardinality(txn'.todo) \in Nat
    BY <1>5, <2>1, ExecutesOne, Finite, FS_RemoveElement DEF Txn
  <2>3. /\ txn.failing \in Nat /\ txn.failures \in Nat
        /\ txn'.failing \in Nat /\ txn'.failures \in Nat
    BY <2>1 DEF Txn
  <2>4. /\ txn.failing <= txn.failures /\ txn.failing <= bound
        /\ ~Tripped => txn.failing + k <= bound
    BY <2>1 DEF Patience
  <2>5. Tripped' <=> Tripped
    BY <2>1 DEF Tripped
  <2> HIDE DEF k
  <2>6. /\ txn'.failing <= txn'.failures /\ txn'.failing <= bound
        /\ ~Tripped => txn'.failing + Cardinality(txn'.todo) <= bound
    <3>1. CASE txn'.failing = txn.failing /\ txn'.failures = txn.failures
      BY <1>1, <2>2, <2>3, <2>4, <3>1
    <3>2. CASE /\ ~Tripped /\ txn'.failing = txn.failing + 1
               /\ txn'.failures >= txn.failures + 1
      BY <1>1, <2>2, <2>3, <2>4, <3>2
    <3>3. CASE txn'.failing = 0 /\ txn'.failures = 0
      BY <1>1, <2>2, <2>3, <2>4, <3>3
    <3> QED
      BY <1>5, <3>1, <3>2, <3>3, ExecutesOne
  <2> QED
    BY <2>1, <2>5, <2>6 DEF Patience
<1>6. ASSUME NEW s \in Scheduler, Commit(s) PROVE Patience'
  BY <1>6 DEF Commit, Patience
<1>7. ASSUME NEW s \in Scheduler, Unevaluatable(s) PROVE Patience'
  BY <1>1, <1>3, <1>7 DEF Unevaluatable, Locks, history
<1>8. ASSUME NEW s \in Scheduler, Abort(s) PROVE Patience'
  BY <1>1, <1>3, <1>8 DEF Abort, schedule, history
<1>9. CASE enable_schedule
  BY <1>1, <1>9 DEF enable_schedule, Patience
<1> QED
  BY <1>2, <1>4, <1>5, <1>6, <1>7, <1>8, <1>9
  DEF Next, Pass, Executes, Begin, Skip, Tick, Claim, Finish, Rerun, EditBegins, EditWrites,
      HandEdit, disable_schedule, schedule, history

LEMMA InvInitial == Init => Inv
<1> SUFFICES ASSUME Init PROVE Inv
  OBVIOUS
<1>1. cron \in Cron /\ next_run \in 1..(Horizon + 1)
  <2>1. 0 \in 0..(Horizon + 1)
    BY ScheduleAssumption
  <2> QED
    BY <2>1, NextRun DEF Init
<1>2. TypeOK
  BY <1>1, ScheduleAssumption DEF Init, TypeOK
<1>3. Window /\ OnceAhead
  BY DEF Init, Window, OnceAhead
<1>4. Room /\ Patience
  BY LimitsAllow, FS_EmptySet DEF Init, Room, Patience
<1>5. EveryTickAnswered
  <2>1. since = next_run /\ next_run \in Int
    BY <1>1, ScheduleAssumption DEF Init
  <2>2. \A t \in Series(cron) : t \in Int
    BY <1>1, ScheduleAssumption DEF Series, Instant
  <2> QED
    BY <2>1, <2>2 DEF EveryTickAnswered
<1> QED
  BY <1>2, <1>3, <1>4, <1>5 DEF Inv, Once

LEMMA InvInductive == Inv /\ [Next]_vars => Inv'
<1> SUFFICES ASSUME Inv, [Next]_vars PROVE Inv'
  OBVIOUS
<1>1. CASE Next
  BY <1>1, TypesKept, WindowKept, OnceAheadKept, RoomKept, PatienceKept, AnsweredKept
  DEF Inv, Once
<1>2. CASE UNCHANGED vars
  BY <1>2
  DEF vars, schedule, jobs, history, Inv, Once, TypeOK, Window, OnceAhead, Room, Patience,
      Tripped, EveryTickAnswered, Series
<1> QED
  BY <1>1, <1>2

LEMMA InvAlways == Spec => []Inv
BY InvInitial, InvInductive, PTL DEF Spec

\* Every variable has its type for any number of daemons, instants and edits.
THEOREM TypeCorrect == Spec => []TypeOK
<1>1. Inv => TypeOK
  BY DEF Inv, Once
<1> QED
  BY InvAlways, <1>1, PTL

\* However many daemons race, die and overlap with edits, jobs of one tick are
\* made once, and once more for each edit that went back to it.
THEOREM TicksFireOnce == Spec => []TickFiredOnce
<1>1. Inv => TickFiredOnce
  BY DEF Inv, Once, OnceAhead, TickFiredOnce
<1> QED
  BY InvAlways, <1>1, PTL

\* max_concurrent_jobs bounds the live jobs of a schedule through a backfill.
THEOREM ConcurrencyHolds == Spec => []ConcurrencyRespected
<1>1. Inv => ConcurrencyRespected
  <2> SUFFICES ASSUME Inv PROVE ConcurrencyRespected
    OBVIOUS
  <2>1. /\ Cardinality(queued) \in Nat /\ live \in Nat
        /\ Allows(max_concurrent_jobs) \in Nat
        /\ txn # None => Cardinality(txn.made) \in Nat
    BY Finite, LimitsAllow DEF Inv, Once, TypeOK
  <2> QED
    BY <2>1 DEF Inv, Room, ConcurrencyRespected
<1> QED
  BY InvAlways, <1>1, PTL

\* A schedule that catches up accounts for every tick between the start of its
\* series and its next run: the window and the advance share one clock.
THEOREM NoTickUnanswered == Spec => []EveryTickAnswered
<1>1. Inv => EveryTickAnswered
  BY DEF Inv
<1> QED
  BY InvAlways, <1>1, PTL

\* A schedule whose enqueues fail one after the other is stopped.
THEOREM FailuresStop == Spec => []FailuresBounded
<1>1. Inv => FailuresBounded
  BY DEF Inv, Patience, FailuresBounded
<1> QED
  BY InvAlways, <1>1, PTL

------------------------------------------------------------------------------
(* What a pass fires, and where it leaves the schedule.                    *)

\* The transaction that has the row's lock works on a schedule that is enabled
\* and due, up to its own clock: whoever would change that waits for the lock.
Held ==
    /\ \A s \in Scheduler : began[s] # None => began[s] <= now
    /\ txn # None =>
          /\ enabled /\ began[txn.by] # None
          /\ next_run <= began[txn.by] /\ began[txn.by] < txn.next
          /\ \A t \in txn.todo \union txn.made :
                /\ t <= began[txn.by] /\ t \in txn.logged
                /\ t = next_run \/ t \in Series(cron)

\* No job is made of a tick before its time, and each tick a job was made of is
\* accounted for in jorb_schedule_log, however passes abort and edits rewind.
FiredTicksWereDue == \A t \in Instant : fired[t] > 0 => t <= now /\ t \in log

\* A pass fires the tick the schedule is due for, and ticks of the expression in
\* force at its commit, of a schedule that is enabled then: a job is never made
\* for a schedule that was disabled, or edited, while the pass was on its way.
FiresInForce ==
    [][\A t \in Instant : fired'[t] # fired[t] =>
          /\ enabled
          /\ t = next_run \/ t \in Series(cron)
          /\ next_run <= t /\ t < next_run']_vars

\* A pass leaves the schedule with a next run that its clock has not reached, so
\* the same pass is not due again.
PassMovesOn ==
    [][txn # None /\ next_run' # next_run => began[txn.by] < next_run']_vars

LEMMA LockIsDue ==
    ASSUME TypeOK, NEW s \in Scheduler, Lock(s)
    PROVE  /\ enabled /\ began[s] # None /\ txn'.by = s
           /\ next_run <= began[s] /\ began[s] < txn'.next
           /\ \A t \in txn'.todo \union txn'.made :
                 /\ t <= began[s] /\ t \in txn'.logged
                 /\ t = next_run \/ t \in Series(cron)
<1> DEFINE missed == IF backfill_limit <= 0 THEN {} ELSE Missed(cron, next_run, began[s])
           next == Next_cron_run(cron, Max({began[s], next_run}))
<1>1. /\ enabled /\ began[s] # None /\ next_run <= began[s] /\ cron \in Cron
      /\ began[s] \in 0..Horizon /\ next_run \in 1..(Horizon + 1)
  BY DEF Lock, Locks, Due, TypeOK
<1>2. txn' = [by |-> s, todo |-> {next_run} \union Kept(missed),
              logged |-> {next_run} \union missed, next |-> next, made |-> {},
              disable |-> FALSE, failures |-> consecutive_failures, failing |-> failing]
  BY DEF Lock, Until, AdvanceFrom
<1>3. /\ Kept(missed) \subseteq missed
      /\ \A t \in missed : t <= began[s] /\ t \in Series(cron)
  BY DEF Kept, Missed
<1>4. began[s] < next
  <2>1. Max({began[s], next_run}) = began[s]
    BY <1>1, LaterOf, ScheduleAssumption
  <2>2. began[s] \in 0..(Horizon + 1) /\ began[s] <= Horizon
    BY <1>1, ScheduleAssumption
  <2> QED
    BY <1>1, <2>1, <2>2, NextRun
<1> HIDE DEF missed, next
<1> QED
  BY <1>1, <1>2, <1>3, <1>4

LEMMA HeldKept ==
    ASSUME TypeOK, Held, Next
    PROVE  Held'
<1>1. now' = now \/ now' = now + 1
  BY ExecutesOne
  DEF Next, Pass, Executes, Begin, Skip, Unevaluatable, Lock, Private, Commit, Abort, Tick,
      Claim, Finish, Rerun, EditBegins, EditWrites, HandEdit, disable_schedule,
      enable_schedule
<1>2. /\ now \in Nat /\ now' \in Nat /\ now <= now'
      /\ \A s \in Scheduler : began[s] \in Nat \union {None}
  BY <1>1, ScheduleAssumption DEF TypeOK
<1>3. ASSUME UNCHANGED <<began, txn, enabled, next_run, cron>> PROVE Held'
  BY <1>2, <1>3 DEF Held, Series
<1>4. ASSUME NEW s \in Scheduler, began' = [began EXCEPT ![s] = None],
             \/ txn' = None
             \/ /\ UNCHANGED <<txn, enabled, next_run, cron>>
                /\ txn # None => txn.by # s
      PROVE  Held'
  <2>1. \A r \in Scheduler : began'[r] = IF r = s THEN None ELSE began[r]
    BY <1>4 DEF TypeOK
  <2>2. \A r \in Scheduler : began'[r] # None => began'[r] <= now'
    BY <1>2, <2>1 DEF Held
  <2>3. CASE txn' = None
    BY <2>2, <2>3 DEF Held
  <2>4. CASE /\ UNCHANGED <<txn, enabled, next_run, cron>> /\ txn # None
             /\ txn # None => txn.by # s
    <3>1. txn.by \in Scheduler /\ began'[txn.by] = began[txn.by]
      BY <2>1, <2>4 DEF TypeOK
    <3> QED
      BY <2>2, <2>4, <3>1 DEF Held, Series
  <2> QED
    BY <1>4, <2>3, <2>4
<1>5. ASSUME NEW s \in Scheduler, Begin(s) PROVE Held'
  <2>1. /\ began[s] = None /\ began' = [began EXCEPT ![s] = now]
        /\ UNCHANGED <<now, txn, enabled, next_run, cron>>
    BY <1>5 DEF Begin, schedule
  <2>2. \A r \in Scheduler : began'[r] = IF r = s THEN now ELSE began[r]
    BY <2>1 DEF TypeOK
  <2>3. txn # None => txn.by \in Scheduler /\ began'[txn.by] = began[txn.by]
    BY <2>1, <2>2 DEF Held, TypeOK
  <2> QED
    BY <1>2, <2>1, <2>2, <2>3 DEF Held, Series
<1>6. ASSUME NEW s \in Scheduler, Lock(s) PROVE Held'
  <2>1. UNCHANGED <<now, enabled, next_run, cron, began>>
    BY <1>6 DEF Lock, schedule
  <2> QED
    BY <1>6, <2>1, LockIsDue DEF Held, Series
<1>7. ASSUME NEW s \in Scheduler, Executes(s) PROVE Held'
  <2>1. UNCHANGED <<now, enabled, next_run, cron, began>>
    BY <1>7, ExecutesOne DEF Private, schedule
  <2>2. /\ txn # None /\ txn'.by = txn.by /\ txn'.next = txn.next
        /\ txn'.logged = txn.logged
        /\ txn'.todo \union txn'.made \subseteq txn.todo \union txn.made
    BY <1>7, ExecutesOne
  <2> QED
    BY <2>1, <2>2 DEF Held, Series
<1>8. ASSUME NEW s \in Scheduler, Skip(s) \/ Unevaluatable(s) \/ Commit(s) \/ Abort(s)
      PROVE  Held'
  BY <1>4, <1>8 DEF Skip, Unevaluatable, Locks, Commit, Abort, schedule
<1>9. CASE EditWrites \/ HandEdit \/ disable_schedule \/ enable_schedule
  <2>1. txn = None /\ txn' = None /\ began' = began
    BY <1>9 DEF EditWrites, HandEdit, disable_schedule, enable_schedule
  <2> QED
    BY <1>2, <2>1 DEF Held
<1> QED
  BY <1>3, <1>5, <1>6, <1>7, <1>8, <1>9
  DEF Next, Pass, Executes, Tick, Claim, Finish, Rerun, EditBegins, schedule

LEMMA HeldAlways == Spec => []Held
<1>1. Init => Held
  BY DEF Init, Held
<1>2. Inv /\ Held /\ [Next]_vars => Held'
  <2>1. UNCHANGED vars /\ Held => Held'
    BY DEF vars, schedule, Held, Series
  <2> QED
    BY <2>1, HeldKept DEF Inv, Once
<1> QED
  BY InvAlways, <1>1, <1>2, PTL DEF Spec

\* Only the commit of a pass makes jobs of ticks, or moves the row it has locked.
LEMMA OnlyCommitFires ==
    ASSUME TypeOK, Next, fired' # fired \/ (txn # None /\ next_run' # next_run)
    PROVE  Commit(txn.by) /\ txn # None /\ txn.by \in Scheduler
BY ExecutesOne
DEF Next, Pass, Executes, Begin, Skip, Unevaluatable, Lock, Private, Commit, Abort, Tick,
    Claim, Finish, Rerun, EditBegins, EditWrites, HandEdit, disable_schedule,
    enable_schedule, schedule, history, TypeOK

\* No tick is fired before its time or without its line in the log.
THEOREM NothingFiresEarly == Spec => []FiredTicksWereDue
<1>1. Init => FiredTicksWereDue
  BY DEF Init, FiredTicksWereDue
<1>2. Inv /\ Held /\ FiredTicksWereDue /\ [Next]_vars => FiredTicksWereDue'
  <2> SUFFICES ASSUME Inv, Held, FiredTicksWereDue, [Next]_vars PROVE FiredTicksWereDue'
    OBVIOUS
  <2> USE DEF Inv, Once
  <2>1. CASE fired' = fired
    <3>1. /\ now' = now \/ now' = now + 1
          /\ log \subseteq log'
      BY ExecutesOne
      DEF Next, Pass, Executes, Begin, Skip, Unevaluatable, Lock, Private, Commit, Abort,
          Tick, Claim, Finish, Rerun, EditBegins, EditWrites, HandEdit, disable_schedule,
          enable_schedule, vars
    <3>2. /\ now \in Int /\ now <= now'
          /\ \A t \in Instant : t \in Int
      BY <3>1, ScheduleAssumption DEF TypeOK, Instant
    <3> QED
      BY <2>1, <3>1, <3>2 DEF FiredTicksWereDue
  <2>2. CASE fired' # fired
    <3>1. Commit(txn.by) /\ txn # None /\ txn.by \in Scheduler
      BY <2>2, OnlyCommitFires DEF vars, history
    <3>2. /\ now' = now /\ log' = log \union txn.logged
          /\ fired' = [t \in Instant |-> fired[t] + Made(t)]
      BY <3>1 DEF Commit
    <3> SUFFICES ASSUME NEW t \in Instant, fired'[t] > 0 PROVE t <= now /\ t \in log'
      BY <3>2 DEF FiredTicksWereDue
    <3>3. CASE t \in txn.made
      <4>1. t <= began[txn.by] /\ began[txn.by] <= now /\ t \in txn.logged
        BY <3>1, <3>3 DEF Held
      <4>2. t \in Int /\ now \in Int /\ began[txn.by] \in Int
        BY <3>1, ScheduleAssumption DEF Held, TypeOK, Instant
      <4> QED
        BY <3>2, <4>1, <4>2
    <3>4. CASE t \notin txn.made
      BY <3>2, <3>4 DEF Made, FiredTicksWereDue, TypeOK
    <3> QED
      BY <3>3, <3>4
  <2> QED
    BY <2>1, <2>2
<1> QED
  BY InvAlways, HeldAlways, <1>1, <1>2, PTL DEF Spec

\* A pass fires what the schedule says when the pass commits.
THEOREM PassFiresInForce == Spec => FiresInForce
<1>1. Inv /\ Held /\ [Next]_vars =>
        [\A t \in Instant : fired'[t] # fired[t] =>
          /\ enabled
          /\ t = next_run \/ t \in Series(cron)
          /\ next_run <= t /\ t < next_run']_vars
  <2> SUFFICES ASSUME Inv, Held, Next, NEW t \in Instant, fired'[t] # fired[t]
               PROVE  /\ enabled
                      /\ t = next_run \/ t \in Series(cron)
                      /\ next_run <= t /\ t < next_run'
    OBVIOUS
  <2> USE DEF Inv, Once
  <2>1. Commit(txn.by) /\ txn # None /\ txn.by \in Scheduler
    BY OnlyCommitFires
  <2>2. next_run' = txn.next /\ fired'[t] = fired[t] + Made(t) /\ fired[t] \in Nat
    BY <2>1 DEF Commit, TypeOK
  <2>3. t \in txn.made
    BY <2>2 DEF Made
  <2> QED
    BY <2>1, <2>2, <2>3 DEF Held, Window
<1> QED
  BY InvAlways, HeldAlways, <1>1, PTL DEF Spec, FiresInForce

\* A pass that commits is not due again at its own clock.
THEOREM PassesMoveOn == Spec => PassMovesOn
<1>1. Inv /\ Held /\ [Next]_vars =>
        [txn # None /\ next_run' # next_run => began[txn.by] < next_run']_vars
  <2> SUFFICES ASSUME Inv, Held, Next, txn # None, next_run' # next_run
               PROVE  began[txn.by] < next_run'
    OBVIOUS
  <2>1. Commit(txn.by)
    BY OnlyCommitFires DEF Inv, Once
  <2> QED
    BY <2>1 DEF Held, Commit
<1> QED
  BY InvAlways, HeldAlways, <1>1, PTL DEF Spec, PassMovesOn

==============================================================================
