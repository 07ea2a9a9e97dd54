----------------------------- MODULE AwaitedJob -----------------------------
(***************************************************************************)
(* A job as those who wait for it see it: whether it is over, the rows of  *)
(* one of its streams, the value of one of its events, and the latch       *)
(* jorb.awaited that turns its notifications on.  Writers of all processes *)
(* meet at the job's row: an append or a published value holds it FOR      *)
(* SHARE until it commits, everything that moves the job or raises the     *)
(* latch needs it for itself.                                              *)
(***************************************************************************)
EXTENDS Naturals, Sequences

CONSTANTS
    None,
    Connection,   \* the listening connections
    Listens,      \* Listens[c]: the channels connection c LISTENs on
    MaxRows,      \* bound: rows in the stream, the closing one included
    MaxValues     \* bound: values of the event, 1 being the first

Channel == {"jorb_done", "jorb_event", "jorb_stream"}

Write == [what : {"row", "close", "value"}, wanted : BOOLEAN]

ASSUME AwaitedAssumption ==
    /\ \A c \in Connection : Listens[c] \subseteq Channel
    /\ MaxRows \in Nat /\ MaxValues \in Nat
    /\ None \notin {"live", "over"} /\ None \notin Write
    /\ \A pending \in SUBSET Channel : pending # None

VARIABLES
    state,     \* "live", "over" (any terminal state), None once deleted
    awaited,
    stream,    \* the committed rows: TRUE is the closing marker
    event,     \* the value last published, 0 if none was
    txn,       \* the durable write in flight, None if there is none
    run,       \* history: how many times the job has run
    inbox      \* inbox[c]: what is on its way to c, None while it is down

jobVars == <<state, awaited, stream, event, txn, run, inbox>>

JobTypeOK ==
    /\ state \in {"live", "over", None}
    /\ awaited \in BOOLEAN
    /\ stream \in Seq(BOOLEAN) /\ Len(stream) <= MaxRows
    /\ \A i \in 1..Len(stream) : stream[i] => i = Len(stream)
    /\ event \in 0..MaxValues
    /\ txn \in Write \union {None}
    /\ run \in Nat
    /\ inbox \in [Connection -> (SUBSET Channel) \union {None}]

JobInit ==
    /\ state = "live" /\ awaited = FALSE
    /\ stream = <<>> /\ event = 0 /\ txn = None /\ run = 1
    /\ inbox = [c \in Connection |-> None]

\* pg_notify at COMMIT: it reaches the connections that LISTEN now.
Notified(channel) ==
    [c \in Connection |-> IF inbox[c] # None /\ channel \in Listens[c]
                          THEN inbox[c] \union {channel} ELSE inbox[c]]

Closed == \E i \in 1..Len(stream) : stream[i]

\* The row is free for an UPDATE: no write in flight holds it FOR SHARE.
Free == txn = None

------------------------------------------------------------------------------
(* The execution's durable writes.                                          *)

Channelled(what) == IF what = "value" THEN "jorb_event" ELSE "jorb_stream"

\* Mutant: STREAM_APPEND_SQL does not ask for a closing marker.
BeginWrite_Reopened(what) ==
    /\ state = "live" /\ Free
    /\ IF what = "value" THEN event < MaxValues ELSE Len(stream) < MaxRows
    /\ txn' = [what |-> what, wanted |-> awaited]
    /\ UNCHANGED <<state, awaited, stream, event, run, inbox>>

\* STREAM_APPEND_SQL, SET_EVENT_SQL and their trigger, whose gate is asked
\* while the row is held.  A closed stream takes no more rows.
BeginWrite(what) ==
    /\ state = "live" /\ Free
    /\ IF what = "value" THEN event < MaxValues
                         ELSE ~Closed /\ Len(stream) < MaxRows
    /\ txn' = [what |-> what, wanted |-> awaited]
    /\ UNCHANGED <<state, awaited, stream, event, run, inbox>>

CommitWrite ==
    /\ ~Free
    /\ stream' = IF txn.what = "value" THEN stream
                 ELSE Append(stream, txn.what = "close")
    /\ event' = IF txn.what = "value" THEN event + 1 ELSE event
    /\ inbox' = IF txn.wanted THEN Notified(Channelled(txn.what)) ELSE inbox
    /\ txn' = None
    /\ UNCHANGED <<state, awaited, run>>

RollBackWrite == /\ ~Free
                 /\ txn' = None
                 /\ UNCHANGED <<state, awaited, stream, event, run, inbox>>

------------------------------------------------------------------------------
(* What moves the job.                                                      *)

\* A terminal state, whoever writes it.  The latch is on the row it updates.
End ==
    /\ state = "live" /\ Free
    /\ state' = "over"
    /\ inbox' = IF awaited THEN Notified("jorb_done") ELSE inbox
    /\ UNCHANGED <<awaited, stream, event, txn, run>>

\* retry and rerun; a fresh one discards the stream, none of them the events
\* or the latch.
Rerun(fresh) ==
    /\ state = "over" /\ Free
    /\ state' = "live"
    /\ stream' = IF fresh THEN <<>> ELSE stream
    /\ run' = run + 1
    /\ UNCHANGED <<awaited, event, txn, inbox>>

\* Retention.  No trigger tells of it.
Delete ==
    /\ state = "over" /\ Free
    /\ state' = None /\ awaited' = FALSE /\ stream' = <<>> /\ event' = 0
    /\ UNCHANGED <<txn, run, inbox>>

\* A listening connection breaks, with what was on its way.
Break(c) == /\ inbox[c] # None
            /\ inbox' = [inbox EXCEPT ![c] = None]
            /\ UNCHANGED <<state, awaited, stream, event, txn, run>>

------------------------------------------------------------------------------
\* Mutant: a writer does not hold the row (its fence is a mere read).
RaiseLatch_NoWait == awaited' = (awaited \/ state # None)

\* UPDATE jorb SET awaited = TRUE WHERE id = $1 AND NOT awaited: it waits for
\* the row unless the latch is up, and finds no row once it is deleted.
RaiseLatch ==
    /\ state # None /\ ~awaited => Free
    /\ awaited' = (awaited \/ state # None)

==============================================================================
