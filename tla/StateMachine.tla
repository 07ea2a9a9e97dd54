---------------------------- MODULE StateMachine ----------------------------
(***************************************************************************)
(* A state machine job on the durable execution layer: StateMachineJob's   *)
(* loop, the checkpointed primitives it is made of (recv, sleep, step, a   *)
(* stream_write inside the step, commit_position, set_event), the worker   *)
(* that loads the checkpoints and runs it, and everything that goes wrong: *)
(* workers die, live ones are superseded, connections drop before or after *)
(* a commit, actions raise, operators cancel, resume and rerun.            *)
(*                                                                         *)
(* `owner' is the worker whose attempt carries the row's run_epoch.  Every *)
(* statement that ends an attempt bumps the epoch (JobAttempts), so the    *)
(* fence `run_epoch = $n' is owner = w, and it is a lock: an open stream   *)
(* transaction holds the row FOR SHARE, and whoever would bump waits.      *)
(***************************************************************************)
EXTENDS MachineTable

CONSTANTS
    Worker, None,
    Budget          \* bound, on events clients send and faults together:
                    \* crashes, supersessions of live workers, lost
                    \* acknowledgements, actions that raise

ASSUME WorkerAssumption == None \notin State \union Worker

VARIABLES
    state, owner, due,      \* the row; due: the recorded wake time has passed
    position,               \* the job's machine.state event
    steps, stream,          \* its checkpoints and its stream
    sent, mailbox, adrift,  \* events sent, those pending, and the one an
                            \* unfinished recv of a lost connection consumes
    pc, replay, here, event,\* an attempt: the checkpoints it loaded, the
                            \* state it is in, the event it handles
    closed, faults          \* history: events dealt with; the fault count

row == <<state, owner>>
log == <<position, steps, stream>>
mail == <<sent, mailbox, adrift>>
attempt == <<pc, replay, here, event>>
vars == <<row, due, log, mail, attempt, closed, faults>>

------------------------------------------------------------------------------
(* The checkpoint log.  A turn has three sequence numbers: the recv, then  *)
(* the sleep or the action's step, and the stream_write nested in it.      *)

Seqs == 1..3
Name == {"recv", "sleep", "stream", "step"}
            \X (State \union {None}) \X (Event \union {None})
Absent == [name |-> <<"recv", None, None>>, output |-> 0, kind |-> "absent"]
Entry == [name : Name, output : Nat, kind : {"success", "error"}]
EmptyLog == [i \in Seqs |-> Absent]

Call(primitive) == <<primitive, None, None>>
Success(name, output) == [name |-> name, output |-> output, kind |-> "success"]
Failure(name) == [name |-> name, output |-> 0, kind |-> "error"]

\* RECORD_STEP_SQL: a committed success is never overwritten by an error.
Recorded(old, new) ==
    IF old.kind = "success" /\ new.kind = "error" THEN old ELSE new
Write(seq, entry) == steps' = [steps EXCEPT ![seq] = Recorded(@, entry)]

\* The decision a primitive makes on the log its attempt loaded.
Mismatch(w, seq, name) == replay[w][seq].kind # "absent" /\ replay[w][seq].name # name
Replays(w, seq) == replay[w][seq].kind = "success"

Location ==
    {"idle", "load", "run", "enter", "publish", "recv", "timedout", "sleep",
     "reschedule", "handle", "act", "commit", "txnfailed", "stepfailed",
     "record", "boundary", "return", "fail", "nondet"}

\* The message the log holds: consumed, and not dealt with yet.
InHand == IF position \in final THEN 0 ELSE steps[1].output

Goto(w, l) == pc' = [pc EXCEPT ![w] = l]
Unwind(w) ==
    /\ Goto(w, "idle")
    /\ replay' = [replay EXCEPT ![w] = EmptyLog]
    /\ here' = [here EXCEPT ![w] = initial]
    /\ event' = [event EXCEPT ![w] = 0]
WithinBudget == faults + Len(sent) < Budget
Fault == WithinBudget /\ faults' = faults + 1

\* JobSystem.ex: a statement whose acknowledgement is lost is sent again.
Answered(w, next) == \/ next /\ UNCHANGED faults
                     \/ Fault /\ UNCHANGED attempt
Then(w, l) == Goto(w, l) /\ UNCHANGED <<replay, here, event>>

Owns(w) == owner = w
Leave(s) == state' = s /\ owner' = None

\* Mutant: the statements that end an attempt do not wait for the lock of an
\* append in flight.
Unlocked_NoWait == adrift = 0
\* No share lock on the row: what an update of the row waits for.
Unlocked == adrift = 0 /\ (owner # None => pc[owner] # "commit")

------------------------------------------------------------------------------
Init ==
    /\ state = "queued" /\ owner = None /\ due = TRUE
    /\ position = None /\ steps = EmptyLog /\ stream = <<>>
    /\ sent = <<>> /\ mailbox = {} /\ adrift = 0
    /\ pc = [w \in Worker |-> "idle"]
    /\ replay = [w \in Worker |-> EmptyLog]
    /\ here = [w \in Worker |-> initial]
    /\ event = [w \in Worker |-> 0]
    /\ closed = {} /\ faults = 0

(* An attempt begins: claim, load the checkpoints, then the fenced `run',  *)
(* and the machine reads its position and publishes it.                    *)

Claim(w) ==
    /\ pc[w] = "idle" /\ state = "queued"
    /\ state' = "running" /\ owner' = w
    /\ Goto(w, "load")
    /\ UNCHANGED <<due, log, mail, replay, here, event, closed, faults>>

Load(w) ==
    /\ pc[w] = "load"
    /\ replay' = [replay EXCEPT ![w] = steps]
    /\ Goto(w, "run")
    /\ UNCHANGED <<row, due, log, mail, here, event, closed, faults>>

Run(w) ==
    /\ pc[w] = "run" /\ Owns(w)
    /\ Goto(w, "enter")
    /\ UNCHANGED <<row, due, log, mail, replay, here, event, closed, faults>>

current_state(w) ==
    /\ pc[w] = "enter"
    /\ here' = [here EXCEPT ![w] = IF position = None THEN initial ELSE position]
    /\ Goto(w, "publish")
    /\ UNCHANGED <<row, due, log, mail, replay, event, closed, faults>>

Publish(w) ==
    /\ pc[w] = "publish" /\ Owns(w)
    /\ position' = here[w]
    /\ Answered(w, Then(w, IF here[w] \in final THEN "return" ELSE "recv"))
    /\ UNCHANGED <<row, due, steps, stream, mail, closed>>

(* recv(): the consumed message and its checkpoint are one statement.      *)

Received(w, m) ==
    /\ event' = [event EXCEPT ![w] = m]
    /\ Goto(w, IF m = 0 THEN "sleep" ELSE "handle")
    /\ UNCHANGED <<replay, here>>

RecvReplayed(w) ==
    /\ pc[w] = "recv" /\ Replays(w, 1)
    /\ IF Mismatch(w, 1, Call("recv"))
       THEN Then(w, "nondet")
       ELSE Received(w, replay[w][1].output)
    /\ UNCHANGED <<row, due, log, mail, closed, faults>>

Receiving(w) == pc[w] = "recv" /\ ~Replays(w, 1) /\ Owns(w)
Prior == steps[1].kind = "success"
Oldest(m, box) == m \in box /\ \A n \in box : m <= n

\* What is pending once the statement adrift has committed or aborted.
Settled == {mailbox, mailbox \ {adrift}}

RecvPrior(w) ==
    /\ Receiving(w) /\ Prior
    /\ Answered(w, Received(w, steps[1].output))
    /\ UNCHANGED <<row, due, log, mail, closed>>

\* SKIP LOCKED passes over a message an unfinished recv holds; recording the
\* answer waits for that recv to end, and then replaces what it recorded.
RecvConsume(w, m) ==
    /\ Receiving(w) /\ ~Prior
    /\ Oldest(m, mailbox \ {adrift})
    /\ \E box \in Settled : mailbox' = box \ {m}
    /\ Write(1, Success(Call("recv"), m))
    /\ adrift' = 0
    /\ Answered(w, Received(w, m))
    /\ UNCHANGED <<row, due, position, stream, sent, closed>>

RecvEmpty(w) ==
    /\ Receiving(w) /\ ~Prior
    /\ mailbox \ {adrift} = {}
    /\ Then(w, "timedout")
    /\ UNCHANGED <<row, due, log, mail, closed, faults>>

RecvTimedOut(w) ==
    /\ pc[w] = "timedout" /\ Owns(w)
    /\ \E box \in Settled : mailbox' = box
    /\ adrift' = 0
    /\ Write(1, Success(Call("recv"), 0))
    /\ Answered(w, Received(w, 0))
    /\ UNCHANGED <<row, due, position, stream, sent, closed>>

\* The connection is lost under a recv whose backend works on, uncommitted.
LoseRecv(w, m) ==
    /\ adrift = 0
    /\ Receiving(w) /\ ~Prior
    /\ Oldest(m, mailbox)
    /\ adrift' = m /\ Fault
    /\ UNCHANGED <<row, due, log, sent, mailbox, attempt, closed>>

EndLostRecv ==
    /\ adrift # 0 /\ adrift' = 0
    /\ \/ UNCHANGED <<mailbox, steps>>
       \/ /\ mailbox' = mailbox \ {adrift}
          /\ Write(1, Success(Call("recv"), adrift))
    /\ UNCHANGED <<row, due, position, stream, sent, attempt, closed, faults>>

(* sleep(): record the wake time, requeue the row for it, unwind.          *)

Sleep(w) ==
    /\ pc[w] = "sleep" /\ replay[w][2].kind = "absent" /\ Owns(w)
    /\ Write(2, Success(Call("sleep"), 0))
    /\ due' = FALSE
    /\ Answered(w, Then(w, "reschedule"))
    /\ UNCHANGED <<row, position, stream, mail, closed>>

\* Mutant: a replayed sleep always goes back to sleep.
SleepReplayed_Again(w) ==
    /\ pc[w] = "sleep" /\ replay[w][2].kind # "absent"
    /\ Then(w, IF Mismatch(w, 2, Call("sleep")) THEN "nondet" ELSE "reschedule")
    /\ UNCHANGED <<row, due, log, mail, closed, faults>>

SleepReplayed(w) ==
    /\ pc[w] = "sleep" /\ replay[w][2].kind # "absent"
    /\ Then(w, IF Mismatch(w, 2, Call("sleep")) THEN "nondet"
               ELSE IF due THEN "boundary" ELSE "reschedule")
    /\ UNCHANGED <<row, due, log, mail, closed, faults>>

Reschedule(w) ==
    /\ pc[w] = "reschedule" /\ Owns(w) /\ Unlocked
    /\ Leave(IF due THEN "queued" ELSE "asleep")
    /\ Answered(w, Unwind(w))
    /\ UNCHANGED <<due, log, mail, closed>>

Elapse ==
    /\ ~due /\ due' = TRUE
    /\ state' = IF state = "asleep" THEN "queued" ELSE state
    /\ UNCHANGED <<owner, log, mail, attempt, closed, faults>>

(* An event in hand: its edge, and the action of the edge as a step.       *)

Taken(w) == <<here[w], sent[event[w]]>>
StepName(w) == <<"step", here[w], sent[event[w]]>>
Target(w) == IF event[w] # 0 /\ Taken(w) \in Edge
             THEN edges[Taken(w)].target ELSE here[w]

Handle(w) ==
    /\ pc[w] = "handle"
    /\ Then(w, IF ~(Taken(w) \in Edge /\ edges[Taken(w)].action) THEN "boundary"
               ELSE IF Mismatch(w, 2, StepName(w)) THEN "nondet"
               ELSE IF Replays(w, 2) THEN "boundary" ELSE "act")
    /\ UNCHANGED <<row, due, log, mail, closed, faults>>

ActReplayed(w) ==
    /\ pc[w] = "act" /\ replay[w][3].kind # "absent"
    /\ Mismatch(w, 3, Call("stream")) \/ Replays(w, 3)
    /\ Then(w, IF Mismatch(w, 3, Call("stream")) THEN "nondet" ELSE "record")
    /\ UNCHANGED <<row, due, log, mail, closed, faults>>

\* stream_write: the append takes the row's lock and stays open ...
StreamAppend(w) ==
    /\ pc[w] = "act" /\ Owns(w)
    /\ ~Mismatch(w, 3, Call("stream")) /\ ~Replays(w, 3)
    /\ Then(w, "commit")
    /\ UNCHANGED <<row, due, log, mail, closed, faults>>

\* ... until the row and its checkpoint commit together.
Committed(w) ==
    /\ stream' = Append(stream, event[w])
    /\ Write(3, Success(Call("stream"), Len(stream)))

Commit(w) ==
    /\ pc[w] = "commit"
    /\ Committed(w)
    /\ Then(w, "record")
    /\ UNCHANGED <<row, due, position, mail, closed, faults>>

CommitLost(w) ==
    /\ pc[w] = "commit" /\ Fault
    /\ Committed(w) \/ UNCHANGED <<steps, stream>>
    /\ Then(w, "txnfailed")
    /\ UNCHANGED <<row, due, position, mail, closed>>

TransactionFails(w) ==
    /\ pc[w] = "txnfailed" /\ Owns(w)
    /\ Write(3, Failure(Call("stream")))
    /\ Answered(w, Then(w, "stepfailed"))
    /\ UNCHANGED <<row, due, position, stream, mail, closed>>

ActionRaises(w) ==
    /\ pc[w] \in {"act", "record"} /\ Fault
    /\ Then(w, "stepfailed")
    /\ UNCHANGED <<row, due, log, mail, closed>>

StepFails(w) ==
    /\ pc[w] = "stepfailed" /\ Owns(w)
    /\ Write(2, Failure(StepName(w)))
    /\ Answered(w, Then(w, "fail"))
    /\ UNCHANGED <<row, due, position, stream, mail, closed>>

RecordStep(w) ==
    /\ pc[w] = "record" /\ Owns(w)
    /\ Write(2, Success(StepName(w), 0))
    /\ Answered(w, Then(w, "boundary"))
    /\ UNCHANGED <<row, due, position, stream, mail, closed>>

(* The turn ends in one commit: the new position and the empty log.        *)

Closed(w) == closed' = closed \union ({event[w]} \ {0})

\* Mutant: the position is published and the log wiped in two commits, and
\* only the first one is here.
PositionCommitted_NoWipe(w) ==
    /\ position' = Target(w)
    /\ UNCHANGED steps
    /\ Closed(w)

PositionCommitted(w) ==
    /\ position' = Target(w)
    /\ steps' = EmptyLog
    /\ Closed(w)

AtBoundary(w) == pc[w] = "boundary" /\ Owns(w)

commit_position(w) ==
    /\ AtBoundary(w) /\ Target(w) \notin final /\ Unlocked
    /\ PositionCommitted(w)
    /\ replay' = [replay EXCEPT ![w] = EmptyLog]
    /\ here' = [here EXCEPT ![w] = Target(w)]
    /\ event' = [event EXCEPT ![w] = 0]
    /\ Goto(w, "recv")
    /\ UNCHANGED <<row, due, stream, mail, faults>>

CommitPositionLost(w) ==
    /\ AtBoundary(w) /\ Target(w) \notin final /\ Unlocked
    /\ PositionCommitted(w) \/ UNCHANGED <<position, steps, closed>>
    /\ Then(w, "fail") /\ Fault
    /\ UNCHANGED <<row, due, stream, mail>>

\* A final state is published and the log of its turn is kept.
PublishFinal(w) ==
    /\ AtBoundary(w) /\ Target(w) \in final
    /\ position' = Target(w)
    /\ Closed(w)
    /\ Answered(w, Then(w, "return"))
    /\ UNCHANGED <<row, due, steps, stream, mail>>

(* An attempt ends.                                                        *)

Return(w) ==
    /\ pc[w] = "return" /\ Owns(w) /\ Unlocked
    /\ Leave("finished")
    /\ Answered(w, Unwind(w))
    /\ UNCHANGED <<due, log, mail, closed>>

Fail(w) ==
    /\ pc[w] \in {"fail", "nondet"} /\ Owns(w) /\ Unlocked
    /\ \E s \in {"queued", "stopped"} : Leave(s)
    /\ Answered(w, Unwind(w))
    /\ UNCHANGED <<due, log, mail, closed>>

\* StaleExecutionError, or a terminal statement that matches no row.
Fenced(w) ==
    \/ pc[w] \in {"run", "publish", "timedout", "reschedule", "txnfailed", "record",
                  "stepfailed", "boundary", "return", "fail", "nondet"}
    \/ pc[w] = "recv" /\ ~Replays(w, 1)
    \/ pc[w] = "sleep" /\ replay[w][2].kind = "absent"
    \/ pc[w] = "act" /\ ~Replays(w, 3)

Abandon(w) ==
    /\ Fenced(w) /\ ~Owns(w)
    /\ Unwind(w)
    /\ UNCHANGED <<row, due, log, mail, closed, faults>>

Crash(w) ==
    /\ pc[w] # "idle" /\ Fault
    /\ Unwind(w)
    /\ UNCHANGED <<row, due, log, mail, closed>>

\* A sweep requeues or dead-letters the attempt of a worker that is gone, or
\* of a live one that is late.
Supersede ==
    /\ state = "running" /\ Unlocked
    /\ \E s \in {"queued", "stopped"} : Leave(s)
    /\ IF pc[owner] = "idle" THEN UNCHANGED faults ELSE Fault
    /\ UNCHANGED <<due, log, mail, attempt, closed>>

(* Clients and operators.                                                  *)

Send(e) ==
    /\ WithinBudget
    /\ sent' = Append(sent, e)
    /\ mailbox' = mailbox \union {Len(sent) + 1}
    /\ UNCHANGED <<row, due, log, adrift, attempt, closed, faults>>

Cancel ==
    /\ state \in {"queued", "asleep"} /\ state' = "stopped"
    /\ UNCHANGED <<owner, due, log, mail, attempt, closed, faults>>

\* Retry, or rerun --resume.
Resume ==
    /\ state \in {"stopped", "finished"} /\ state' = "queued"
    /\ UNCHANGED <<owner, due, log, mail, attempt, closed, faults>>

\* Rerun: WIPE_DURABLE_STATE_SQL discards the checkpoints and the streams.
Rerun ==
    /\ state \in {"stopped", "finished"} /\ state' = "queued"
    /\ steps' = EmptyLog /\ stream' = <<>>
    /\ closed' = closed \union ({InHand} \ {0})
    /\ UNCHANGED <<owner, due, position, mail, attempt, faults>>

------------------------------------------------------------------------------
Step(w) ==
    \/ Load(w) \/ Run(w) \/ current_state(w) \/ Publish(w)
    \/ RecvReplayed(w) \/ RecvPrior(w) \/ RecvEmpty(w) \/ RecvTimedOut(w)
    \/ \E m \in mailbox : RecvConsume(w, m)
    \/ Sleep(w) \/ SleepReplayed(w) \/ Reschedule(w)
    \/ Handle(w) \/ ActReplayed(w) \/ StreamAppend(w) \/ Commit(w) \/ CommitLost(w)
    \/ TransactionFails(w) \/ ActionRaises(w) \/ StepFails(w) \/ RecordStep(w)
    \/ commit_position(w) \/ CommitPositionLost(w) \/ PublishFinal(w)
    \/ Return(w) \/ Fail(w) \/ Abandon(w)

Next ==
    \/ \E w \in Worker : Claim(w) \/ Step(w) \/ Crash(w)
    \/ Elapse \/ Supersede
    \/ \E e \in Event : Send(e)
    \/ Cancel \/ Resume \/ Rerun

Spec == Init /\ [][Next]_vars

\* The same, when a recv may outlive the connection it was sent on.
LostRecv == EndLostRecv \/ \E w \in Worker, m \in mailbox : LoseRecv(w, m)
OverlapSpec == Init /\ [][Next \/ LostRecv]_vars

\* Workers claim and go on, time passes, and the monitor's sweeps run.
Fairness ==
    /\ WF_vars(\E w \in Worker : Claim(w))
    /\ WF_vars(\E w \in Worker : Step(w))
    /\ WF_vars(Elapse)
    /\ WF_vars(state = "running" /\ pc[owner] = "idle" /\ Supersede)

FairSpec == Spec /\ Fairness

------------------------------------------------------------------------------
TypeOK ==
    /\ state \in {"queued", "asleep", "running", "stopped", "finished"}
    /\ owner \in Worker \union {None}
    /\ due \in BOOLEAN
    /\ position \in State \union {None}
    /\ steps \in [Seqs -> Entry \union {Absent}]
    /\ stream \in Seq(Nat \ {0})
    /\ sent \in Seq(Event)
    /\ mailbox \subseteq 1..Len(sent) /\ closed \subseteq 1..Len(sent)
    /\ adrift \in mailbox \union {0}
    /\ pc \in [Worker -> Location]
    /\ replay \in [Worker -> [Seqs -> Entry \union {Absent}]]
    /\ here \in [Worker -> State]
    /\ event \in [Worker -> 0..Len(sent)]
    /\ faults \in Nat

\* No attempt replays a log that does not belong to the position it started
\* from: a NondeterminismError of the machine's own making would repeat on
\* every retry.
NeverPoisoned == \A w \in Worker : pc[w] # "nondet"

\* pj.py:2328: "there is no crash window in which a message was consumed but
\* not recorded: a retry of this job either replays the recorded message or
\* finds it still pending -- never neither".
NeverNeither ==
    \A m \in 1..Len(sent) : m \in mailbox \union closed \union {steps[1].output}

\* Every event is taken once, in order, acts once and moves the machine along
\* its edge, across crashes, supersessions, lost acknowledgements and reruns.
Promise == INSTANCE EventMachine WITH
    position <- IF position = None THEN initial ELSE position,
    inbox <- mailbox, taken <- InHand, done <- closed, out <- stream
ImplementsEventMachine == Promise!Spec

\* Once clients stop sending, every event is dealt with, unless the machine
\* reached a final state or the job was stopped: sleeps end, and no sequence of
\* replays goes round in a circle.
EveryEventHandled ==
    mailbox # {} ~> \/ closed = 1..Len(sent)
                    \/ position \in final \/ state = "stopped"

==============================================================================
