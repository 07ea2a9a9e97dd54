------------------------------ MODULE IdleWakeup ------------------------------
(***************************************************************************)
(* How a parked worker learns of new work on its queue.  An enqueue sends  *)
(* jorb_enqueued only if some worker has published idle = TRUE, and a      *)
(* worker publishes it before its last look at the queue, so that a job is *)
(* either announced to the worker or within reach of that look.            *)
(*                                                                         *)
(* A queued job may be barred from being claimed for a while: it is not    *)
(* due yet (delayed, backed off, asleep), its queue is paused or at a      *)
(* limit, or a lock is held that the claim does not wait for.  No look     *)
(* takes it then, and nothing is sent when the bar goes: only the poll     *)
(* finds it.                                                               *)
(*                                                                         *)
(* An enqueue commits in two steps: the deferred gate decides whether to   *)
(* notify, then the row becomes visible and the notification goes out.     *)
(* A notification waits in a worker's connection (inbox) until the event   *)
(* loop hands it to _on_enqueue, which sets the event _wake; the run loop  *)
(* clears that event just before it sleeps on it.                          *)
(*                                                                         *)
(* The enqueue stands for every statement that moves a row to 'queued':    *)
(* the trigger is the same.  One queue; what a worker does with a job is   *)
(* JobAttempts.                                                            *)
(***************************************************************************)
EXTENDS FiniteSets

CONSTANTS
    Job, Worker,
    Faults      \* TRUE: connections and processes fail, heartbeats are late

ASSUME WakeupAssumption == Faults \in BOOLEAN

VARIABLES
    state,      \* a job: "none", "gated" (its gate ran, the commit goes on),
                \* "queued" (visible), "taken"
    wanted,     \* the jobs whose gate found an idle worker
    barred,     \* the jobs that claim_jorb() passes over for the time being
    registry,   \* jorb_worker: "none", "live", "retired" (shutdown_at is set)
    idle,       \* jorb_worker.idle
    pc,         \* where JobSystem.run stands
    _idle,      \* the worker's own copy of the flag
    _wake,      \* its asyncio event
    inbox,      \* a notification the event loop has not handed over yet
    full,       \* too many abandoned job threads to claim
    unseen,     \* history: what a worker's last look could not take, for its
                \* commit was under way or it was barred
    told        \* history: what was announced to a worker since that look

jobs == <<state, wanted, barred>>
rows == <<registry, idle>>
history == <<unseen, told>>
process == <<pc, _idle, _wake, inbox, full, history>>
vars == <<jobs, rows, process>>

Phases == {"top", "publish", "reclaim", "empty", "parked", "got", "busy", "dead"}

\* Mutant: the flag alone, whatever shutdown_at says.
Subscribed_AnyRow(w) == idle[w]

\* What the gate of jorb_notify() asks, with demand 'idle_worker'.
Subscribed(w) == registry[w] = "live" /\ idle[w]
Demand == \E w \in Worker : Subscribed(w)
Claimable == {j \in Job : state[j] = "queued"} \ barred
Set(f, w, v) == [f EXCEPT ![w] = v]

TypeOK ==
    /\ state \in [Job -> {"none", "gated", "queued", "taken"}]
    /\ wanted \subseteq Job /\ barred \subseteq Job
    /\ registry \in [Worker -> {"none", "live", "retired"}]
    /\ idle \in [Worker -> BOOLEAN]
    /\ \A w \in Worker : idle[w] => registry[w] # "none"
    /\ pc \in [Worker -> Phases]
    /\ _idle \in [Worker -> BOOLEAN] /\ _wake \in [Worker -> BOOLEAN]
    /\ inbox \in [Worker -> BOOLEAN] /\ full \in [Worker -> BOOLEAN]
    /\ unseen \in [Worker -> SUBSET Job] /\ told \in [Worker -> SUBSET Job]

Init ==
    /\ state = [j \in Job |-> "none"]
    /\ wanted = {}
    /\ barred = {}
    /\ registry \in [Worker -> IF Faults THEN {"none", "live"} ELSE {"live"}]
    /\ idle = [w \in Worker |-> FALSE]
    /\ pc = [w \in Worker |-> "top"]
    /\ _idle = [w \in Worker |-> FALSE]
    /\ _wake = [w \in Worker |-> FALSE]
    /\ inbox = [w \in Worker |-> FALSE]
    /\ full = [w \in Worker |-> FALSE]
    /\ unseen = [w \in Worker |-> {}]
    /\ told = [w \in Worker |-> {}]

------------------------------------------------------------------------------
(* Enqueue                                                                 *)

Gate(j) ==
    /\ state[j] = "none"
    /\ state' = Set(state, j, "gated")
    /\ wanted' = IF Demand THEN wanted \union {j} ELSE wanted
    /\ barred' \in {barred, barred \union {j}}
    /\ UNCHANGED <<rows, process>>

\* Visible, and announced to every worker that listens.
Appear(j) ==
    /\ state[j] = "gated"
    /\ state' = Set(state, j, "queued")
    /\ IF j \in wanted
       THEN /\ inbox' = [w \in Worker |-> pc[w] # "dead"]
            /\ told' = [w \in Worker |-> IF pc[w] # "dead" THEN told[w] \union {j}
                                          ELSE told[w]]
       ELSE UNCHANGED <<inbox, told>>
    /\ UNCHANGED <<wanted, barred, rows, pc, _idle, _wake, full, unseen>>

\* The queue is paused or reaches a limit, the job is put off, the lock of its
\* row or of its queue is taken.
Bar(j) ==
    /\ state[j] \in {"gated", "queued"} /\ j \notin barred
    /\ barred' = barred \union {j}
    /\ UNCHANGED <<state, wanted, rows, process>>

\* It falls due, or what stood in its way goes.  The state of the row is not
\* written, so the trigger does not fire.
Unbar(j) ==
    /\ j \in barred
    /\ barred' = barred \ {j}
    /\ UNCHANGED <<state, wanted, rows, process>>

------------------------------------------------------------------------------
(* JobSystem.run                                                           *)

\* STMTS["worker-idle"]: a worker without a registry row publishes nothing.
SetIdle(w, value) ==
    /\ _idle' = Set(_idle, w, value)
    /\ idle' = IF registry[w] = "none" THEN idle ELSE Set(idle, w, value)

\* The claim: a row, or an empty answer.  It takes some other snapshot than
\* the gate of an enqueue that is still committing.
Look(w, onEmpty) ==
    \/ \E j \in Claimable : /\ state' = Set(state, j, "taken")
                            /\ pc' = Set(pc, w, "got")
                            /\ UNCHANGED history
    \/ /\ Claimable = {}
       /\ pc' = Set(pc, w, onEmpty)
       /\ unseen' = Set(unseen, w, {j \in Job : state[j] \in {"gated", "queued"}})
       /\ told' = Set(told, w, {})
       /\ UNCHANGED state

Claim(w) ==
    /\ pc[w] = "top" /\ ~full[w]
    /\ Look(w, IF _idle[w] THEN "empty" ELSE "publish")
    /\ UNCHANGED <<wanted, barred, rows, _idle, _wake, inbox, full>>

\* Mutant: the demand is published after the last look, not before it.
Publish_Last(w) ==
    /\ pc[w] = "publish"
    /\ SetIdle(w, TRUE)
    /\ pc' = Set(pc, w, "empty")
    /\ UNCHANGED <<jobs, registry, _wake, inbox, full, history>>

Publish(w) ==
    /\ pc[w] = "publish"
    /\ SetIdle(w, TRUE)
    /\ pc' = Set(pc, w, "reclaim")
    /\ UNCHANGED <<jobs, registry, _wake, inbox, full, history>>

Reclaim(w) ==
    /\ pc[w] = "reclaim"
    /\ Look(w, "empty")
    /\ UNCHANGED <<wanted, barred, rows, _idle, _wake, inbox, full>>

\* Refuses to claim, and withdraws its demand.
Refuse(w) ==
    /\ pc[w] = "top" /\ full[w]
    /\ SetIdle(w, FALSE)
    /\ pc' = Set(pc, w, "empty")
    /\ UNCHANGED <<jobs, registry, _wake, inbox, full, history>>

\* _report_hidden_work() was awaited in between; now _wake.clear() and wait.
Park(w) ==
    /\ pc[w] = "empty"
    /\ _wake' = Set(_wake, w, FALSE)
    /\ pc' = Set(pc, w, "parked")
    /\ UNCHANGED <<jobs, rows, _idle, inbox, full, history>>

Woken(w) ==
    /\ pc[w] = "parked" /\ _wake[w]
    /\ pc' = Set(pc, w, "top")
    /\ UNCHANGED <<jobs, rows, _idle, _wake, inbox, full, history>>

\* Mutant: the wait has no timeout.
Poll_OnlyIfWoken(w) ==
    /\ pc[w] = "parked" /\ _wake[w]
    /\ pc' = Set(pc, w, "top")
    /\ UNCHANGED <<jobs, rows, _idle, _wake, inbox, full, history>>

\* checkInterval has passed, in the wait or before it.
Poll(w) ==
    /\ pc[w] \in {"parked", "empty"}
    /\ pc' = Set(pc, w, "top")
    /\ UNCHANGED <<jobs, rows, _idle, _wake, inbox, full, history>>

Work(w) ==
    /\ pc[w] = "got"
    /\ IF _idle[w] THEN SetIdle(w, FALSE) ELSE UNCHANGED <<idle, _idle>>
    /\ pc' = Set(pc, w, "busy")
    /\ UNCHANGED <<jobs, registry, _wake, inbox, full, history>>

Done(w) ==
    /\ pc[w] = "busy"
    /\ pc' = Set(pc, w, "top")
    /\ \E f \in BOOLEAN : full' = Set(full, w, f)
    /\ UNCHANGED <<jobs, rows, _idle, _wake, inbox, history>>

------------------------------------------------------------------------------
(* What happens beside it                                                  *)

\* _on_enqueue, called by the event loop.
Deliver(w) ==
    /\ inbox[w] /\ pc[w] # "dead"
    /\ inbox' = Set(inbox, w, FALSE)
    /\ _wake' = Set(_wake, w, TRUE)
    /\ UNCHANGED <<jobs, rows, pc, _idle, full, history>>

ThreadEnds(w) ==
    /\ full[w]
    /\ full' = Set(full, w, FALSE)
    /\ UNCHANGED <<jobs, rows, pc, _idle, _wake, inbox, history>>

\* Mutant: the flag in memory is left as it was.
Register_KeepsFlag(w) ==
    /\ Faults /\ registry[w] = "none" /\ pc[w] # "dead"
    /\ registry' = Set(registry, w, "live")
    /\ UNCHANGED <<jobs, idle, pc, _idle, _wake, inbox, full, history>>

\* _try_register() from the heartbeat loop, at any moment of the run loop.
Register(w) ==
    /\ Faults /\ registry[w] = "none" /\ pc[w] # "dead"
    /\ registry' = Set(registry, w, "live")
    /\ _idle' = Set(_idle, w, FALSE)
    /\ UNCHANGED <<jobs, idle, pc, _wake, inbox, full, history>>

\* The connection drops, with what was in it; _reconnect() listens again.
LoseInbox(w) ==
    /\ Faults /\ inbox[w]
    /\ inbox' = Set(inbox, w, FALSE)
    /\ UNCHANGED <<jobs, rows, pc, _idle, _wake, full, history>>

Gone(w) ==
    /\ pc' = Set(pc, w, "dead")
    /\ _idle' = Set(_idle, w, FALSE)
    /\ _wake' = Set(_wake, w, FALSE)
    /\ inbox' = Set(inbox, w, FALSE)
    /\ full' = Set(full, w, FALSE)
    /\ unseen' = Set(unseen, w, {})
    /\ told' = Set(told, w, {})

Crash(w) ==
    /\ Faults /\ pc[w] # "dead"
    /\ Gone(w)
    /\ UNCHANGED <<jobs, rows>>

\* _deregister_worker(), when the loop sees the stop flag.
Deregister(w) ==
    /\ pc[w] \in {"top", "parked"}
    /\ Gone(w)
    /\ registry' = IF registry[w] = "none" THEN registry ELSE Set(registry, w, "retired")
    /\ idle' = Set(idle, w, FALSE)
    /\ UNCHANGED jobs

\* RETIRE_DEAD_WORKERS_SQL: a dead worker, or one whose heartbeats are late.
Retire(w) ==
    /\ Faults /\ registry[w] = "live"
    /\ registry' = Set(registry, w, "retired")
    /\ idle' = Set(idle, w, FALSE)
    /\ UNCHANGED <<jobs, process>>

Run(w) ==
    \/ Claim(w) \/ Publish(w) \/ Reclaim(w) \/ Refuse(w) \/ Park(w)
    \/ Woken(w) \/ Poll(w) \/ Work(w) \/ Done(w)

Next ==
    \/ \E j \in Job : Gate(j) \/ Appear(j) \/ Bar(j) \/ Unbar(j)
    \/ \E w \in Worker : \/ Run(w) \/ Deliver(w) \/ ThreadEnds(w) \/ Register(w)
                         \/ LoseInbox(w) \/ Crash(w) \/ Deregister(w)
                         \/ Retire(w)

Spec == Init /\ [][Next]_vars

\* A worker's loop runs and its job threads end; the monitor's sweep retires
\* what is dead.  Nothing is assumed of notifications, or of bars.
FairSpec ==
    /\ Spec
    /\ \A j \in Job : WF_vars(Appear(j))
    /\ \A w \in Worker : WF_vars(Run(w)) /\ WF_vars(ThreadEnds(w))
    /\ \A w \in Worker : WF_vars(pc[w] = "dead" /\ Retire(w))

------------------------------------------------------------------------------
\* The order in _set_idle(): publish, then look.  A job that a parked subscriber
\* could claim was announced to it since its last look, or that look could not
\* take it: its commit was under way, or it was barred.  No claimable job is
\* missed in any other way.
UnannouncedOnlyIfUnseen ==
    \A w \in Worker :
        pc[w] = "parked" /\ Subscribed(w) => Claimable \subseteq unseen[w] \union told[w]

\* The worker's copy of its flag and the column never part while the row is
\* live: not when the row appears under a parked worker, not when a job comes.
FlagMatchesRow ==
    \A w \in Worker : registry[w] = "live" /\ pc[w] # "dead" => idle[w] = _idle[w]

\* Demand does not outlive its worker: one that died parked does not keep the
\* queue's enqueues paying for notifications for ever, not even one that was
\* retired alive, published idle on its retired row, and then died.
DemandExpires ==
    \A w \in Worker : pc[w] = "dead" ~> ~Subscribed(w)

\* Whatever is lost, and whatever falls due unannounced, no job stays claimable
\* for ever while a worker lives: the poll.
EveryJobIsClaimed ==
    \A j \in Job : []<>(j \notin Claimable \/ \A w \in Worker : pc[w] = "dead")

==============================================================================
