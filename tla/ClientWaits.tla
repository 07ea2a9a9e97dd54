----------------------------- MODULE ClientWaits -----------------------------
(***************************************************************************)
(* JobClient's waits: wait_for_result, get_event / wait_for_event and      *)
(* read_stream.  They share one listening connection.  A wait raises the   *)
(* latch, hangs its asyncio.Event into the dispatch table, and only then   *)
(* looks; it parks until a notification or the fallback poll.              *)
(***************************************************************************)
EXTENDS AwaitedJob

CONSTANTS
    Wait,        \* the waits
    channel,     \* channel[w]: what wait w is woken by
    accepts,     \* accepts[w]: the least event value wait w takes
    PoolOnly,    \* waits of a client built without db_params
    listener,    \* the client's connection
    Batch        \* _STREAM_READ_BATCH

ASSUME WaitsAssumption ==
    /\ channel \in [Wait -> Channel] /\ accepts \in [Wait -> Nat]
    /\ PoolOnly \subseteq Wait
    /\ listener \in Connection /\ Listens[listener] = Channel
    /\ Batch \in Nat \ {0}

VARIABLES
    pc,         \* pc[w]: where the call stands
    woken,      \* woken[w]: its asyncio.Event is set
    next_seq, taken,   \* a reader's position, and how many rows it yielded
    final,      \* final[w]: the reader has seen the job over
    deaf,       \* history: the connection was down since w's last look
    mixed       \* history: the stream was wiped under a reader

waitVars == <<pc, woken, next_seq, taken, final, deaf, mixed>>

Waiting == {"registering", "registered", "looking", "checking", "parked"}

WaitTypeOK ==
    /\ pc \in [Wait -> Waiting \union {"idle", "answered", "raised"}]
    /\ woken \in [Wait -> BOOLEAN]
    /\ next_seq \in [Wait -> Nat] /\ taken \in [Wait -> Nat]
    /\ final \in [Wait -> BOOLEAN]
    /\ deaf \in [Wait -> BOOLEAN] /\ mixed \in [Wait -> BOOLEAN]

WaitInit ==
    /\ pc = [w \in Wait |-> "idle"]
    /\ woken = [w \in Wait |-> FALSE]
    /\ next_seq = [w \in Wait |-> 0] /\ taken = [w \in Wait |-> 0]
    /\ final = [w \in Wait |-> FALSE]
    /\ deaf = [w \in Wait |-> FALSE] /\ mixed = [w \in Wait |-> FALSE]

Goto(w, place) == pc' = [pc EXCEPT ![w] = place]

\* The waits whose Event is in the dispatch table.
Wired(w) == w \notin PoolOnly /\ pc[w] \in {"looking", "checking", "parked"}

------------------------------------------------------------------------------
(* Asking to be told.                                                       *)

\* _ensure_listener: opened by the first wait, and by the next one after it
\* broke; a wait that is parked does not look after it.
Begin(w) ==
    /\ pc[w] = "idle"
    /\ IF w \in PoolOnly
       THEN Goto(w, "looking") /\ UNCHANGED inbox
       ELSE /\ Goto(w, "registering")
            /\ inbox' = [inbox EXCEPT ![listener] = IF @ = None THEN {} ELSE @]
    /\ UNCHANGED <<state, awaited, stream, event, txn, run,
                   woken, next_seq, taken, final, deaf, mixed>>

Register(w) ==
    /\ pc[w] = "registering"
    /\ RaiseLatch
    /\ Goto(w, "registered")
    /\ UNCHANGED <<state, stream, event, txn, run, inbox,
                   woken, next_seq, taken, final, deaf, mixed>>

\* The answer arrives: a fresh Event goes into the table.
Attach(w) ==
    /\ pc[w] = "registered"
    /\ woken' = [woken EXCEPT ![w] = FALSE]
    /\ Goto(w, "looking")
    /\ UNCHANGED <<jobVars, next_seq, taken, final, deaf, mixed>>

------------------------------------------------------------------------------
(* Looking.                                                                 *)

\* From here on w is told of what it has not seen, if the connection is up.
Looks(w) == deaf' = [deaf EXCEPT ![w] = Wired(w) /\ inbox[listener] = None]

\* One statement reads the state and the value.
Check(w) ==
    /\ pc[w] = "looking" /\ channel[w] # "jorb_stream"
    /\ Looks(w)
    /\ LET published == channel[w] = "jorb_event" /\ event > 0
                        /\ event >= accepts[w]
       IN Goto(w, IF published THEN "answered"
                  ELSE IF state = "live" THEN "parked"
                  ELSE IF state = "over" /\ channel[w] = "jorb_done"
                       THEN "answered" ELSE "raised")
    /\ UNCHANGED <<jobVars, woken, next_seq, taken, final, mixed>>

\* Positions [from, from + Batch) of the stream, as far as there are any.
Page(from) == LET last == IF from + Batch < Len(stream)
                          THEN from + Batch ELSE Len(stream)
              IN SubSeq(stream, from + 1, last)

\* A page of read_stream, up to the closing marker; the caller takes each row.
Read(w) ==
    /\ pc[w] = "looking" /\ channel[w] = "jorb_stream"
    /\ Looks(w)
    /\ LET rows == Page(next_seq[w])
           shut == \E i \in 1..Len(rows) : rows[i]
           values == Len(rows) - (IF shut THEN 1 ELSE 0)
       IN /\ taken' = [taken EXCEPT ![w] = @ + values]
          /\ next_seq' = [next_seq EXCEPT ![w] = @ + values]
          /\ Goto(w, IF shut THEN "answered"
                     ELSE IF Len(rows) = Batch THEN "looking"
                     ELSE IF final[w] THEN "answered" ELSE "checking")
    /\ UNCHANGED <<jobVars, woken, final, mixed>>

\* Mutant: a reader that sees the job over stops there.
CheckState_NoFinalRead(w) ==
    /\ pc[w] = "checking"
    /\ Goto(w, IF state = None THEN "raised"
               ELSE IF state = "over" THEN "answered" ELSE "parked")
    /\ UNCHANGED <<jobVars, woken, next_seq, taken, final, deaf, mixed>>

\* A job that is over is read once more: its last row may have come between.
CheckState(w) ==
    /\ pc[w] = "checking"
    /\ final' = [final EXCEPT ![w] = state = "over"]
    /\ Goto(w, IF state = None THEN "raised"
               ELSE IF state = "over" THEN "looking" ELSE "parked")
    /\ UNCHANGED <<jobVars, woken, next_seq, taken, deaf, mixed>>

------------------------------------------------------------------------------
(* Sleeping.                                                                *)

\* _on_jorb_done, _on_jorb_event, _on_jorb_stream.
Deliver ==
    /\ inbox[listener] # None
    /\ \E ch \in inbox[listener] :
           /\ inbox' = [inbox EXCEPT ![listener] = @ \ {ch}]
           /\ woken' = [w \in Wait |-> woken[w] \/ (Wired(w) /\ channel[w] = ch)]
    /\ UNCHANGED <<state, awaited, stream, event, txn, run,
                   pc, next_seq, taken, final, deaf, mixed>>

\* Mutant: only a notification ends a beat.
WaitBeat_NoPoll(w) ==
    /\ pc[w] = "parked" /\ (woken[w] \/ w \in PoolOnly)
    /\ woken' = [woken EXCEPT ![w] = FALSE]
    /\ Goto(w, "looking")
    /\ UNCHANGED <<jobVars, next_seq, taken, final, deaf, mixed>>

\* _wait_beat returns: told, or the poll is due.  The Event is cleared before
\* the next look.
WaitBeat(w) ==
    /\ pc[w] = "parked"
    /\ woken' = [woken EXCEPT ![w] = FALSE]
    /\ Goto(w, "looking")
    /\ UNCHANGED <<jobVars, next_seq, taken, final, deaf, mixed>>

\* The timeout, or a caller that stops reading: _release_demand.  The latch
\* stays.
GiveUp(w) ==
    /\ pc[w] = "parked"
    /\ woken' = [woken EXCEPT ![w] = FALSE]
    /\ next_seq' = [next_seq EXCEPT ![w] = 0]
    /\ taken' = [taken EXCEPT ![w] = 0]
    /\ deaf' = [deaf EXCEPT ![w] = FALSE]
    /\ mixed' = [mixed EXCEPT ![w] = FALSE]
    /\ Goto(w, "idle")
    /\ UNCHANGED <<jobVars, final>>

WaitStep(w) == \/ Register(w) \/ Attach(w) \/ Check(w) \/ Read(w)
               \/ CheckState(w) \/ WaitBeat(w) \/ GiveUp(w)

==============================================================================
