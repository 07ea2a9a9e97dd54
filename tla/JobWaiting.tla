------------------------------ MODULE JobWaiting ------------------------------
(***************************************************************************)
(* Everybody who waits for one job: a client's waits and the dashboard     *)
(* server's watches, meeting in the job's row, its latch and the           *)
(* notifications.                                                          *)
(***************************************************************************)
EXTENDS ClientWaits, Watches

CONSTANT Together   \* bound: the sets of waits and clients that meet, and how
                    \* often the job runs then

VARIABLE group      \* the one of this behaviour

vars == <<jobVars, waitVars, watchVars, group>>

Init == JobInit /\ WaitInit /\ WatchInit /\ group \in DOMAIN Together

\* Bounds: what nobody of the group could notice does not happen.
Noticed(what) == \E w \in group \intersect Wait :
                           channel[w] = Channelled(what)
Watched == group \intersect Client # {}

\* A fresh rerun takes the stream from under its readers.
RerunJob(fresh) ==
    /\ Rerun(fresh) /\ run < Together[group]
    /\ mixed' = [w \in Wait |-> mixed[w] \/ (fresh /\ next_seq[w] > 0)]
    /\ UNCHANGED <<pc, woken, next_seq, taken, final, deaf, watchVars>>

BreakListener ==
    /\ Break(listener)
    /\ deaf' = [w \in Wait |-> deaf[w] \/ Wired(w)]
    /\ UNCHANGED <<pc, woken, next_seq, taken, final, mixed, watchVars>>

JobStep ==
    \/ /\ \/ \E what \in {"row", "close", "value"} :
                 Noticed(what) /\ BeginWrite(what)
          \/ CommitWrite \/ RollBackWrite
          \/ End \/ Delete
          \/ Watched /\ Break(notify_conn)
       /\ UNCHANGED <<waitVars, watchVars>>
    \/ \E fresh \in BOOLEAN : RerunJob(fresh)
    \/ BreakListener

Step ==
    \/ JobStep
    \/ \E w \in Wait \intersect group : Begin(w) /\ UNCHANGED watchVars
    \/ \E w \in Wait : WaitStep(w) /\ UNCHANGED watchVars
    \/ Deliver /\ UNCHANGED watchVars
    \/ \E c \in Client \intersect group : Watch(c) /\ UNCHANGED waitVars
    \/ WatchStep /\ UNCHANGED waitVars

Next == Step /\ UNCHANGED group

Spec == Init /\ [][Next]_vars

\* Statements are answered, the event loops run, the poll and the beat come
\* round, a write in flight ends and PostgreSQL lets whoever waits for the row
\* have it in turn.  Nothing is assumed of notifications.
Fairness ==
    /\ WF_vars((CommitWrite \/ RollBackWrite) /\ UNCHANGED <<waitVars, watchVars, group>>)
    /\ \A w \in Wait :
           /\ SF_vars(Register(w) /\ UNCHANGED <<watchVars, group>>)
           /\ WF_vars(/\ \/ Attach(w) \/ Check(w) \/ Read(w)
                         \/ CheckState(w) \/ WaitBeat(w)
                      /\ UNCHANGED <<watchVars, group>>)
    /\ \A c \in Client : WF_vars(Watching(c) /\ UNCHANGED <<waitVars, group>>)
    /\ \A t \in Fanout \union {rearm} :
           WF_vars((\E c \in Client : Send(t, c)) /\ UNCHANGED <<waitVars, group>>)
    /\ \A t \in Fanout : WF_vars(EndBroadcast(t) /\ UNCHANGED <<waitVars, group>>)
    /\ WF_vars(Reopen /\ UNCHANGED <<waitVars, group>>)
    /\ WF_vars((RearmReads \/ RearmTells \/ RearmDrops) /\ UNCHANGED <<waitVars, group>>)

FairSpec == Spec /\ Fairness

------------------------------------------------------------------------------
(* Properties.                                                              *)

\* The three parts keep to their types, and nothing follows the closing row of a
\* stream.
TypeOK == JobTypeOK /\ WaitTypeOK /\ WatchTypeOK /\ group \in DOMAIN Together

\* What the channel of w announces has happened since its last look.
Owed(w) ==
    CASE channel[w] = "jorb_done"   -> state = "over"
      [] channel[w] = "jorb_event"  -> event > 0 /\ event >= accepts[w]
      [] channel[w] = "jorb_stream" -> Len(stream) > next_seq[w]

\* A wait that parks has been told, or is about to be, of what it waits for,
\* as long as its connection holds: the latch is raised before the look, and
\* who raises it waits for a writer that has already found it down.  The poll
\* is for broken connections only.
NoMissedNotice ==
    \A w \in Wait : pc[w] = "parked" /\ Wired(w) /\ ~deaf[w] /\ Owed(w)
                        => woken[w] \/ channel[w] \in inbox[listener]

\* A reader that comes to the end of a stream has yielded every row of it,
\* each once, be it closed or the job over: also the row that was committed
\* between its last page and the end.  (A fresh rerun under a reader starts
\* another stream, which it enters at its own position; a deleted job has
\* none.)
StreamDelivered ==
    [][\A w \in Wait :
          /\ channel[w] = "jorb_stream" /\ ~mixed[w] /\ state # None
          /\ pc[w] # "answered" /\ pc'[w] = "answered"
          => taken'[w] = Cardinality({i \in 1..Len(stream) : ~stream[i]})]_vars

\* What w waits for is there, or can no longer come.
Over(w) == state # "live" \/ (channel[w] = "jorb_event" /\ Owed(w))

\* A wait comes back, although notifications are lost, the job is gone or the
\* client has no connection to listen on.
EveryWaitAnswered ==
    \A w \in Wait : (pc[w] \in Waiting /\ Over(w))
                        ~> (pc[w] \notin Waiting \/ ~Over(w))

\* A watch the server knows of is told that its job is over, or let go.
WatchDealtWith ==
    \A c \in Client : (c \in subscriptions /\ heard[c] = "live" /\ state # "live")
        ~> (heard[c] # "live" \/ c \notin subscriptions \/ state = "live")

\* handle_watch_job: "Follow ONE job to its terminal state"; WATCH_JOB_SQL:
\* "a watch can never hang waiting for an event that already happened".  Not
\* so: a watch answered before the job ended, and attached while the beat is
\* telling the others, is dropped with them, untold.
WatchNeverHangs ==
    \A c \in Client : (c \in channels /\ heard[c] = "live" /\ state = "over")
                          ~> (heard[c] # "live" \/ state # "over")

==============================================================================
