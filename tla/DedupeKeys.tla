----------------------------- MODULE DedupeKeys -----------------------------
(***************************************************************************)
(* The caller-chosen keys that make duplicate enqueues one job.  A         *)
(* deadline_key refuses a duplicate while the first row is queued, an      *)
(* identity_key answers with the row that holds it in whatever state, a    *)
(* debounce_key moves the row that is queued and was never claimed.  Each  *)
(* is a partial unique index over jorb, and each meets the statements that *)
(* move rows: claims, outcomes, retries, sweeps over whole batches,        *)
(* reruns, cancellation, retention, and enqueues in a caller's open        *)
(* transaction, which may still roll back.                                 *)
(*                                                                         *)
(* One key is modelled, of any kind: keys are independent, and one enqueue *)
(* carries at most one (enqueue_rules refuses the combinations).  A        *)
(* statement reads the snapshot it began with, and an index the present.   *)
(***************************************************************************)
EXTENDS Integers, FiniteSets

CONSTANTS
    Job, Caller, Class, None,
    MaxTries        \* _SPECULATIVE_ATTEMPTS

ASSUME KeysAssumption == None \notin Job \union Caller /\ MaxTries \in Nat \ {0}

VARIABLES
    kind,           \* what the key is: deadline, identity or debounce
    job_class,      \* the class each caller enqueues
    state,          \* "open" is inserted and not committed
    keyed,          \* the row still carries the key
    claimed,        \* run_count > 0
    class, kwargs,  \* the row's class, and the caller its arguments are from
    parked,         \* run_after is in the future
    cap,            \* debounce_deadline: none, ahead, passed
    pc, seen, tries,\* a call: the row its snapshot has, the attempts made
    news,           \* history: the key was taken since the call's snapshot
    raised          \* history: a requeue failed on a unique index

fixed == <<kind, job_class>>
content == <<class, kwargs>>
timer == <<parked, cap>>
rows == <<state, keyed, claimed, content, timer>>
calls == <<pc, seen, tries, news>>
vars == <<fixed, rows, calls, raised>>

------------------------------------------------------------------------------
\* The three index predicates; an uncommitted row is in its index already.
InIndex(s, key, ran) ==
    /\ key
    /\ \/ kind = "deadline" /\ s \in {"open", "queued"}
       \/ kind = "identity" /\ s \in {"open", "queued", "running", "done"}
       \/ kind = "debounce" /\ s \in {"open", "queued"} /\ ~ran
Holds(j) == InIndex(state[j], keyed[j], claimed[j])
Visible == {j \in Job : Holds(j) /\ state[j] # "open"}

Init ==
    /\ kind \in {"deadline", "identity", "debounce"}
    /\ job_class \in [Caller -> Class]
    /\ state = [j \in Job |-> "none"]
    /\ keyed = [j \in Job |-> FALSE] /\ claimed = [j \in Job |-> FALSE]
    /\ class = [j \in Job |-> None] /\ kwargs = [j \in Job |-> None]
    /\ parked = [j \in Job |-> FALSE] /\ cap = [j \in Job |-> "none"]
    /\ pc = [c \in Caller |-> "idle"]
    /\ seen = [c \in Caller |-> None]
    /\ tries = [c \in Caller |-> 0]
    /\ news = [c \in Caller |-> FALSE] /\ raised = FALSE

(* A call.  Every attempt begins with a snapshot; a debounce bounces the   *)
(* row that holds the key, or else inserts one.                            *)

Look(c) ==
    /\ pc[c] \in {"idle", "again"}
    /\ seen' = [seen EXCEPT ![c] = IF Visible = {} THEN None
                                   ELSE CHOOSE j \in Visible : TRUE]
    /\ pc' = [pc EXCEPT ![c] = IF kind = "debounce" THEN "bounce" ELSE "insert"]
    /\ UNCHANGED <<fixed, rows, tries, news, raised>>

Return(c) ==
    /\ pc' = [pc EXCEPT ![c] = "idle"]
    /\ seen' = [seen EXCEPT ![c] = None]
    /\ tries' = [tries EXCEPT ![c] = 0]
Told(c) == news' = [d \in Caller |-> d # c /\ pc[d] \in {"bounce", "insert"}]
Quiet(c) == news' = [news EXCEPT ![c] = FALSE]

\* Mutants: the update joins the row on its id alone; the class is checked on
\* the returned row and not by the update.
Bounceable_ById(c) ==
    /\ seen[c] # None /\ state[seen[c]] # "gone"
    /\ class[seen[c]] = job_class[c]
Bounceable_AnyClass(c) == seen[c] # None /\ Holds(seen[c])

\* The row the snapshot has, if it still meets the whole predicate.
Bounceable(c) ==
    /\ seen[c] # None /\ Holds(seen[c])
    /\ class[seen[c]] = job_class[c]

\* Mutant: the cap of the window is forgotten.
Clamped_Not(j) == TRUE
\* run_after is clamped to the cap, which may have passed.
Clamped(j) == cap[j] # "passed"

Bounce(c) ==
    /\ pc[c] = "bounce" /\ Bounceable(c)
    /\ kwargs' = [kwargs EXCEPT ![seen[c]] = c]
    /\ parked' = [parked EXCEPT ![seen[c]] = Clamped(seen[c])]
    /\ Return(c) /\ Quiet(c)
    /\ UNCHANGED <<fixed, state, keyed, claimed, class, cap, raised>>

\* The class is the snapshot's; a row's class never changes.
OtherClass(c) == seen[c] # None /\ class[seen[c]] # job_class[c]

\* Another class holds the key: ValueError.
Refused(c) ==
    /\ pc[c] = "bounce" /\ ~Bounceable(c) /\ OtherClass(c)
    /\ Return(c) /\ Quiet(c)
    /\ UNCHANGED <<fixed, rows, raised>>

\* Nobody holds it, or the row was claimed under the update: open a window.
NoBounce(c) ==
    /\ pc[c] = "bounce" /\ ~Bounceable(c) /\ ~OtherClass(c)
    /\ pc' = [pc EXCEPT ![c] = "insert"]
    /\ UNCHANGED <<fixed, rows, seen, tries, news, raised>>

\* The insert succeeds when nobody is in the index, and waits for a row that
\* is not committed.  A plain or an identified enqueue may be part of the
\* caller's transaction.
Insert(c, j) ==
    /\ pc[c] = "insert"
    /\ \A i \in Job : ~Holds(i)
    /\ state[j] = "none"
    /\ keyed' = [keyed EXCEPT ![j] = TRUE]
    /\ class' = [class EXCEPT ![j] = job_class[c]]
    /\ kwargs' = [kwargs EXCEPT ![j] = c]
    /\ \/ /\ state' = [state EXCEPT ![j] = "queued"]
          /\ Return(c) /\ Told(c)
       \/ /\ kind # "debounce"
          /\ state' = [state EXCEPT ![j] = "open"]
          /\ pc' = [pc EXCEPT ![c] = "open"]
          /\ UNCHANGED <<seen, tries, news>>
    /\ parked' = [parked EXCEPT ![j] = kind = "debounce"]
    /\ \E limit \in {"none", "ahead"} :
          /\ limit = "ahead" => kind = "debounce"
          /\ cap' = [cap EXCEPT ![j] = limit]
    /\ UNCHANGED <<fixed, claimed, raised>>

\* A committed row is in the way.  A deadline_key raises, an identity_key
\* answers with the row of its snapshot.
Answered(c) ==
    /\ pc[c] = "insert" /\ Visible # {}
    /\ kind = "deadline" \/ (kind = "identity" /\ seen[c] # None)
    /\ Return(c) /\ Quiet(c)
    /\ UNCHANGED <<fixed, rows, raised>>

\* Mutant: the next attempt keeps the snapshot of the first.
Retry_SameSnapshot(c) ==
    /\ pc' = [pc EXCEPT ![c] = "insert"]
    /\ UNCHANGED seen
    /\ Quiet(c)

\* Or the row is newer than the snapshot, and the call asks again.
Retry(c) ==
    /\ pc' = [pc EXCEPT ![c] = "again"]
    /\ seen' = [seen EXCEPT ![c] = None]
    /\ Quiet(c)

LostRace(c) ==
    /\ pc[c] = "insert" /\ Visible # {}
    /\ kind = "debounce" \/ (kind = "identity" /\ seen[c] = None)

AskAgain(c) ==
    /\ LostRace(c) /\ tries[c] + 1 < MaxTries
    /\ tries' = [tries EXCEPT ![c] = @ + 1]
    /\ Retry(c)
    /\ UNCHANGED <<fixed, rows, raised>>

\* SpeculativeEnqueueExhausted
GiveUp(c) ==
    /\ LostRace(c) /\ tries[c] + 1 = MaxTries
    /\ Return(c) /\ Quiet(c)
    /\ UNCHANGED <<fixed, rows, raised>>

Commit(c, j) ==
    /\ pc[c] = "open" /\ state[j] = "open"
    /\ state' = [state EXCEPT ![j] = "queued"]
    /\ Return(c) /\ Told(c)
    /\ UNCHANGED <<fixed, keyed, claimed, content, timer, raised>>

Gone(j) ==
    /\ state' = [state EXCEPT ![j] = "gone"]
    /\ keyed' = [keyed EXCEPT ![j] = FALSE]
    /\ claimed' = [claimed EXCEPT ![j] = FALSE]
    /\ kwargs' = [kwargs EXCEPT ![j] = None]
    /\ parked' = [parked EXCEPT ![j] = FALSE]
    /\ cap' = [cap EXCEPT ![j] = "none"]

Rollback(c, j) ==
    /\ pc[c] = "open" /\ state[j] = "open"
    /\ Gone(j)
    /\ Return(c) /\ Quiet(c)
    /\ UNCHANGED <<fixed, class, raised>>

(* The rows move.                                                          *)

Claim(j) ==
    /\ state[j] = "queued" /\ ~parked[j]
    /\ state' = [state EXCEPT ![j] = "running"]
    /\ claimed' = [claimed EXCEPT ![j] = TRUE]
    /\ UNCHANGED <<fixed, keyed, content, timer, calls, raised>>

\* An outcome; or cancel_job, of a row nobody has claimed too.
End(j) ==
    /\ state[j] \in {"running", "queued"}
    /\ state' = [state EXCEPT ![j] = "done"]
    /\ UNCHANGED <<fixed, keyed, claimed, content, timer, calls, raised>>

\* Mutant: the keys stay on a row that is put back.
KeyAfterRequeue_Kept(j) == keyed[j]
\* REQUEUE_CLEARS_KEYS: a row holds its identity_key for life, and no other.
KeyAfterRequeue(j) == keyed[j] /\ kind = "identity"

\* Every statement that puts rows back: the worker's retry and reschedule, the
\* monitor's sweeps, retry and rerun, each of one row or of a batch.  A row
\* that would enter an index somebody else is in fails the whole statement.
Requeue(batch) ==
    LET after(j) == IF j \in batch THEN "queued" ELSE state[j]
        key(j) == IF j \in batch THEN KeyAfterRequeue(j) ELSE keyed[j]
        held == {j \in Job : InIndex(after(j), key(j), claimed[j])}
    IN
    /\ batch # {}
    /\ \E from \in {"running", "done"} : \A j \in batch : state[j] = from
    /\ IF Cardinality(held) > 1
       THEN raised' = TRUE /\ UNCHANGED <<state, keyed, timer>>
       ELSE /\ state' = [j \in Job |-> after(j)]
            /\ keyed' = [j \in Job |-> key(j)]
            /\ parked' = [j \in Job |-> parked[j] /\ j \notin batch]
            /\ cap' = [j \in Job |-> IF j \in batch THEN "none" ELSE cap[j]]
            /\ UNCHANGED raised
    /\ UNCHANGED <<fixed, claimed, content, calls>>

\* Retention deletes the row, and its key with it.
Retire(j) ==
    /\ state[j] = "done"
    /\ Gone(j)
    /\ UNCHANGED <<fixed, class, calls, raised>>

Fires(j) ==
    /\ state[j] = "queued" /\ parked[j]
    /\ parked' = [parked EXCEPT ![j] = FALSE]
    /\ UNCHANGED <<fixed, state, keyed, claimed, content, cap, calls, raised>>

CapPasses(j) ==
    /\ state[j] = "queued" /\ cap[j] = "ahead"
    /\ cap' = [cap EXCEPT ![j] = "passed"]
    /\ parked' = [parked EXCEPT ![j] = FALSE]
    /\ UNCHANGED <<fixed, state, keyed, claimed, content, calls, raised>>

------------------------------------------------------------------------------
Call(c) ==
    \/ Look(c) \/ Bounce(c) \/ Refused(c) \/ NoBounce(c)
    \/ Answered(c) \/ AskAgain(c) \/ GiveUp(c)
    \/ \E j \in Job : Insert(c, j) \/ Commit(c, j) \/ Rollback(c, j)

Next ==
    \/ \E c \in Caller : Call(c)
    \/ \E j \in Job : Claim(j) \/ End(j) \/ Retire(j) \/ Fires(j) \/ CapPasses(j)
    \/ \E batch \in SUBSET Job : Requeue(batch)

Spec == Init /\ [][Next]_vars

\* Time passes, and a job that may run is claimed.
Fairness == \A j \in Job : WF_vars(Claim(j)) /\ WF_vars(CapPasses(j))

FairSpec == Spec /\ Fairness

------------------------------------------------------------------------------
TypeOK ==
    /\ kind \in {"deadline", "identity", "debounce"}
    /\ job_class \in [Caller -> Class]
    /\ state \in [Job -> {"none", "open", "queued", "running", "done", "gone"}]
    /\ keyed \in [Job -> BOOLEAN] /\ claimed \in [Job -> BOOLEAN]
    /\ class \in [Job -> Class \union {None}]
    /\ kwargs \in [Job -> Caller \union {None}]
    /\ parked \in [Job -> BOOLEAN] /\ cap \in [Job -> {"none", "ahead", "passed"}]
    /\ pc \in [Caller -> {"idle", "again", "bounce", "insert", "open"}]
    /\ seen \in [Caller -> Job \union {None}]
    /\ tries \in [Caller -> 0..(MaxTries - 1)]
    /\ news \in [Caller -> BOOLEAN] /\ raised \in BOOLEAN

\* db.py:168, 10_jobs.sql:392: a key's duty ends when its row leaves 'queued',
\* and nothing puts it back.  So no statement that requeues rows fails on the
\* row of a later window, and takes the rest of its batch down with it.
RequeueNeverRaises == ~raised

\* client.py:210: a bounce that raced the claim never rewrites the arguments
\* of a job that has been claimed.
ArgumentsFixedAtClaim ==
    [][\A j \in Job : claimed[j] /\ state'[j] # "gone" => kwargs'[j] = kwargs[j]]_vars

\* A key used for two classes never leaves one with the arguments of the other.
ArgumentsOfItsClass ==
    \A j \in Job : kwargs[j] # None => job_class[kwargs[j]] = class[j]

\* client.py:1366: the loop converges.  A call gives up only if in its last
\* attempt, too, somebody took the key under its snapshot; a key that is
\* simply held is reported or bounced.
GivesUpOnlyToTraffic == [][\A c \in Caller : GiveUp(c) => news[c]]_vars

\* A burst with a cap is run, however fast it is bounced.
CappedBurstRuns ==
    \A j \in Job : state[j] = "queued" /\ cap[j] # "none" ~> state[j] # "queued"

==============================================================================
