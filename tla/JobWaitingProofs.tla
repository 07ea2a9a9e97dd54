--------------------------- MODULE JobWaitingProofs ---------------------------
(***************************************************************************)
(* What those who wait for a job are owed, for any number of waits,        *)
(* readers, watches and runs of the job.                                   *)
(*                                                                         *)
(* The argument.  Who raises the latch waits for the write in flight, so a *)
(* write that finds the latch down has ended before the first look of the  *)
(* wait that raises it (Pending, Latched), and what is committed after     *)
(* that look is announced to a connection that was up then (Told).  A      *)
(* reader's position is the number of rows it has taken, and the rows      *)
(* before it are no closing rows (Position).                               *)
(***************************************************************************)
EXTENDS JobWaiting, FiniteSetTheorems, SequenceTheorems, TLAPS

\* A write in flight keeps the job live, and was let in.
Pending ==
    txn # None =>
        /\ state = "live"
        /\ awaited => txn.wanted
        /\ IF txn.what = "value" THEN event < MaxValues
                                 ELSE ~Closed /\ Len(stream) < MaxRows

\* Once its registration was answered, a wait finds the latch up.
Latched == \A w \in Wait :
    w \notin PoolOnly /\ pc[w] \in {"registered", "looking", "checking", "parked"}
        => awaited \/ state = None

\* From its look on a wait is told, until its connection breaks.
Listening(w) == Wired(w) /\ pc[w] \in {"checking", "parked"} /\ ~deaf[w]
ToldOf(w) == Listening(w) =>
                /\ inbox[listener] # None
                /\ Owed(w) => woken[w] \/ channel[w] \in inbox[listener]
Told == \A w \in Wait : ToldOf(w)

\* A reader has taken the rows before its position, none of which closes the
\* stream.
PositionOf(w) ==
    /\ taken[w] = next_seq[w]
    /\ ~mixed[w] /\ state # None =>
           /\ next_seq[w] <= Len(stream)
           /\ \A i \in 1..next_seq[w] : ~stream[i]
Position == \A w \in Wait : PositionOf(w)

Inv == TypeOK /\ Pending /\ Latched /\ Told /\ Position

------------------------------------------------------------------------------
(* The steps, by what they do to the job's row and to the connections.      *)

\* What is on its way to a connection changes, and nothing else of the job.
Traffic(c) ==
    /\ inbox' = [inbox EXCEPT ![c] = inbox'[c]]
    /\ inbox'[c] \in (SUBSET Channel) \union {None}
    /\ UNCHANGED <<state, awaited, stream, event, txn, run>>

LatchOnly == RaiseLatch /\ UNCHANGED <<state, stream, event, txn, run, inbox>>

JobMove ==
    \/ \E what \in {"row", "close", "value"} : BeginWrite(what)
    \/ CommitWrite \/ RollBackWrite \/ End \/ Delete
    \/ \E fresh \in BOOLEAN : Rerun(fresh)
    \/ \E c \in Connection : Traffic(c)
    \/ LatchOnly
    \/ UNCHANGED jobVars

LEMMA Listener ==
    /\ listener \in Connection /\ notify_conn \in Connection
    /\ listener # notify_conn
    /\ Channel \subseteq Listens[listener]
<1>1. "jorb_event" \in Channel /\ "jorb_event" \notin {"jorb_done"}
  BY DEF Channel
<1> QED  BY <1>1, WaitsAssumption, WatchesAssumption

LEMMA WaitsMove ==
    ASSUME TypeOK, NEW w \in Wait, WaitStep(w)
    PROVE  JobMove
<1>1. CASE Register(w)
  BY <1>1 DEF Register, JobMove, LatchOnly
<1>2. CASE Attach(w) \/ Check(w) \/ Read(w) \/ CheckState(w) \/ WaitBeat(w) \/ GiveUp(w)
  BY <1>2 DEF Attach, Check, Read, CheckState, WaitBeat, GiveUp, JobMove
<1> QED  BY <1>1, <1>2, WaitStep(w) DEF WaitStep

LEMMA WatchesMove ==
    ASSUME TypeOK, WatchStep
    PROVE  JobMove
<1> USE DEF jobVars
<1>1. CASE \E t \in Fanout : Notify(t)
  <2>1. Traffic(notify_conn)
    BY <1>1, Listener DEF Notify, Traffic, TypeOK, JobTypeOK
  <2> QED  BY <2>1, Listener DEF JobMove
<1>2. CASE DropNotification
  <2>1. Traffic(notify_conn)
    BY <1>2, Listener DEF DropNotification, Traffic, TypeOK, JobTypeOK
  <2> QED  BY <2>1, Listener DEF JobMove
<1>3. CASE Reopen
  <2>1. Traffic(notify_conn)
    BY <1>3, Listener DEF Reopen, Traffic, TypeOK, JobTypeOK
  <2> QED  BY <2>1, Listener DEF JobMove
<1>4. CASE RearmReads
  BY <1>4 DEF RearmReads, JobMove, LatchOnly
<1>5. CASE \E c \in Client : Watching(c) \/ Unwatch(c)
  BY <1>5 DEF Watching, Unwatch, JobMove
<1>6. CASE (\E t \in Fanout : EndBroadcast(t)) \/ RearmTells \/ RearmDrops
  BY <1>6 DEF EndBroadcast, RearmTells, RearmDrops, JobMove
<1>7. CASE \E t \in Fanout \union {rearm}, c \in Client : Send(t, c)
  BY <1>7 DEF Send, JobMove
<1> QED
  BY <1>1, <1>2, <1>3, <1>4, <1>5, <1>6, <1>7, WatchStep DEF WatchStep

LEMMA EveryMove ==
    ASSUME TypeOK, [Next]_vars
    PROVE  JobMove
<1> USE DEF jobVars
<1>1. CASE JobStep
  <2>1. CASE Watched /\ Break(notify_conn)
    <3>1. Traffic(notify_conn)
      BY <2>1, Listener DEF Break, Traffic, TypeOK, JobTypeOK
    <3> QED  BY <3>1, Listener DEF JobMove
  <2>2. CASE BreakListener
    <3>1. Traffic(listener)
      BY <2>2, Listener DEF BreakListener, Break, Traffic, TypeOK, JobTypeOK
    <3> QED  BY <3>1, Listener DEF JobMove
  <2>3. CASE \E fresh \in BOOLEAN : RerunJob(fresh)
    BY <2>3 DEF RerunJob, JobMove
  <2>4. CASE \/ \E what \in {"row", "close", "value"} : BeginWrite(what)
             \/ CommitWrite \/ RollBackWrite \/ End \/ Delete
    BY <2>4 DEF JobMove
  <2> QED  BY <1>1, <2>1, <2>2, <2>3, <2>4 DEF JobStep
<1>2. CASE \E w \in Wait : Begin(w)
  <2>1. PICK w \in Wait : Begin(w)  BY <1>2
  <2>2. CASE w \in PoolOnly
    BY <2>1, <2>2 DEF Begin, JobMove
  <2>3. CASE w \notin PoolOnly
    <3>1. Traffic(listener)
      BY <2>1, <2>3, Listener DEF Begin, Traffic, TypeOK, JobTypeOK
    <3> QED  BY <3>1, Listener DEF JobMove
  <2> QED  BY <2>2, <2>3
<1>3. CASE \E w \in Wait : WaitStep(w)
  BY <1>3, WaitsMove
<1>4. CASE Deliver
  <2>1. Traffic(listener)
    BY <1>4, Listener DEF Deliver, Traffic, TypeOK, JobTypeOK
  <2> QED  BY <2>1, Listener DEF JobMove
<1>5. CASE \E c \in Client : Watch(c)
  BY <1>5 DEF Watch, JobMove, LatchOnly
<1>6. CASE WatchStep
  BY <1>6, WatchesMove
<1>7. CASE UNCHANGED vars
  BY <1>7 DEF vars, JobMove
<1> QED
  BY <1>1, <1>2, <1>3, <1>4, <1>5, <1>6, <1>7 DEF Next, Step

(* Types.                                                                   *)

LEMMA Announced ==
    ASSUME TypeOK, NEW ch \in Channel
    PROVE  Notified(ch) \in [Connection -> (SUBSET Channel) \union {None}]
BY DEF TypeOK, JobTypeOK, Notified

LEMMA NoRows ==
    ASSUME TypeOK, NEW rows, rows = <<>>
    PROVE  /\ rows \in Seq(BOOLEAN) /\ Len(rows) <= MaxRows
           /\ \A i \in 1..Len(rows) : rows[i] => i = Len(rows)
<1>1. Len(rows) = 0 /\ rows \in Seq(BOOLEAN)
  OBVIOUS
<1>2. 1..0 = {}
  OBVIOUS
<1> QED  BY <1>1, <1>2, AwaitedAssumption

LEMMA RowsAppended ==
    ASSUME TypeOK, NEW b \in BOOLEAN, ~Closed
    PROVE  /\ Append(stream, b) \in Seq(BOOLEAN)
           /\ Len(Append(stream, b)) = Len(stream) + 1
           /\ \A i \in 1..Len(stream) : Append(stream, b)[i] = stream[i]
           /\ \A i \in 1..(Len(stream) + 1) :
                  Append(stream, b)[i] => i = Len(stream) + 1
<1>1. stream \in Seq(BOOLEAN)
  BY DEF TypeOK, JobTypeOK
<1>2. \A i \in 1..Len(stream) : ~stream[i]
  BY DEF Closed
<1> QED  BY <1>1, <1>2

LEMMA JobTypesKept ==
    ASSUME TypeOK, Pending, JobMove
    PROVE  JobTypeOK' /\ Pending'
<1>t. JobTypeOK /\ MaxRows \in Nat /\ MaxValues \in Nat /\ None \notin Write
  BY AwaitedAssumption DEF TypeOK
<1>s. None \notin {"live", "over"} /\ Len(<<>>) = 0 /\ <<>> \in Seq(BOOLEAN)
  BY AwaitedAssumption
<1>c. (Closed' <=> Closed) \/ stream' # stream
  BY DEF Closed
<1>1. ASSUME NEW what \in {"row", "close", "value"}, BeginWrite(what)
      PROVE  JobTypeOK' /\ Pending'
  <2>1. txn' \in Write /\ txn'.what = what /\ txn'.wanted = awaited
    BY <1>1, <1>t DEF BeginWrite, Write, JobTypeOK
  <2> QED  BY <1>1, <1>t, <1>c, <2>1 DEF BeginWrite, JobTypeOK, Pending
<1>2. CASE CommitWrite
  <2>1. txn \in Write /\ txn # None /\ txn' = None
    BY <1>2, <1>t DEF CommitWrite, Free, JobTypeOK
  <2>2. inbox' \in [Connection -> (SUBSET Channel) \union {None}]
    <3>1. Channelled(txn.what) \in Channel
      BY DEF Channelled, Channel
    <3> QED  BY <3>1, <1>2, <1>t, Announced DEF CommitWrite, JobTypeOK
  <2>3. CASE txn.what = "value"
    BY <2>1, <2>2, <2>3, <1>2, <1>t DEF CommitWrite, JobTypeOK, Pending
  <2>4. CASE txn.what # "value"
    <3>1. ~Closed /\ Len(stream) < MaxRows /\ Len(stream) \in Nat
      BY <2>1, <2>4, <1>t DEF Pending, JobTypeOK
    <3>2. stream' = Append(stream, txn.what = "close")
      BY <1>2, <2>4 DEF CommitWrite
    <3>3. (txn.what = "close") \in BOOLEAN
      OBVIOUS
    <3>4. /\ stream' \in Seq(BOOLEAN) /\ Len(stream') = Len(stream) + 1
          /\ \A i \in 1..Len(stream') : stream'[i] => i = Len(stream')
      BY <3>1, <3>2, <3>3, RowsAppended
    <3> QED  BY <3>1, <3>4, <2>1, <2>2, <2>4, <1>2, <1>t
             DEF CommitWrite, JobTypeOK, Pending
  <2> QED  BY <2>3, <2>4
<1>3. CASE RollBackWrite
  BY <1>3, <1>t DEF RollBackWrite, JobTypeOK, Pending
<1>4. CASE End
  <2>1. Notified("jorb_done") \in [Connection -> (SUBSET Channel) \union {None}]
    BY Announced DEF Channel
  <2> QED  BY <1>4, <1>t, <2>1 DEF End, Free, JobTypeOK, Pending
<1>5. CASE Delete
  <2>1. /\ stream' \in Seq(BOOLEAN) /\ Len(stream') <= MaxRows
        /\ \A i \in 1..Len(stream') : stream'[i] => i = Len(stream')
    BY <1>5, NoRows DEF Delete
  <2>2. state' = None /\ awaited' = FALSE /\ event' \in 0..MaxValues
    BY <1>5, <1>t DEF Delete
  <2>3. txn' = None /\ run' = run /\ inbox' = inbox
    BY <1>5 DEF Delete, Free
  <2> QED  BY <1>t, <2>1, <2>2, <2>3 DEF JobTypeOK, Pending
<1>6. ASSUME NEW fresh \in BOOLEAN, Rerun(fresh)
      PROVE  JobTypeOK' /\ Pending'
  <2>1. /\ stream' \in Seq(BOOLEAN) /\ Len(stream') <= MaxRows
        /\ \A i \in 1..Len(stream') : stream'[i] => i = Len(stream')
    <3>1. CASE fresh
      BY <3>1, <1>6, NoRows DEF Rerun
    <3>2. CASE ~fresh
      BY <3>2, <1>6, <1>t DEF Rerun, JobTypeOK
    <3> QED  BY <3>1, <3>2
  <2> QED  BY <1>6, <1>t, <1>s, <2>1 DEF Rerun, Free, JobTypeOK, Pending
<1>7. ASSUME NEW c \in Connection, Traffic(c)
      PROVE  JobTypeOK' /\ Pending'
  <2>1. inbox' \in [Connection -> (SUBSET Channel) \union {None}]
    BY <1>7, <1>t DEF Traffic, JobTypeOK
  <2> QED  BY <1>7, <1>t, <1>c, <2>1 DEF Traffic, JobTypeOK, Pending
<1>8. CASE LatchOnly
  <2>1. awaited' \in BOOLEAN
    BY <1>8 DEF LatchOnly, RaiseLatch
  <2>2. Pending'
    BY <1>8, <1>t, <1>c, <1>s DEF LatchOnly, RaiseLatch, Free, Pending, JobTypeOK
  <2> QED  BY <1>8, <1>t, <2>1, <2>2 DEF LatchOnly, JobTypeOK
<1>9. CASE UNCHANGED jobVars
  BY <1>9, <1>t, <1>c DEF jobVars, JobTypeOK, Pending
<1> QED
  BY <1>1, <1>2, <1>3, <1>4, <1>5, <1>6, <1>7, <1>8, <1>9, JobMove DEF JobMove

LEMMA APage ==
    ASSUME TypeOK, NEW n \in Nat
    PROVE  /\ Page(n) \in Seq(BOOLEAN)
           /\ Len(Page(n)) \in Nat
           /\ \A i \in 1..Len(Page(n)) : Page(n)[i] = stream[n + i]
           /\ n + Len(Page(n)) <= Len(stream) \/ Len(Page(n)) = 0
           /\ Len(Page(n)) # Batch => Len(stream) <= n + Len(Page(n))
<1>1. stream \in Seq(BOOLEAN) /\ Batch \in Nat \ {0}
  BY WaitsAssumption DEF TypeOK, JobTypeOK
<1>2. CASE n + Batch < Len(stream)
  <2>1. Page(n) = SubSeq(stream, n + 1, n + Batch)
    BY <1>2 DEF Page
  <2>2. \A i \in (n + 1)..(n + Batch) : stream[i] \in BOOLEAN
    BY <1>1, <1>2
  <2>3. /\ Page(n) \in Seq(BOOLEAN) /\ Len(Page(n)) = Batch
        /\ \A i \in 1..Batch : Page(n)[i] = stream[n + i]
    BY <2>1, <2>2, <1>1, SubSeqProperties
  <2> QED  BY <2>3, <1>1, <1>2
<1>3. CASE ~(n + Batch < Len(stream))
  <2>1. Page(n) = SubSeq(stream, n + 1, Len(stream))
    BY <1>3 DEF Page
  <2>2. \A i \in (n + 1)..Len(stream) : stream[i] \in BOOLEAN
    BY <1>1
  <2>3. /\ Page(n) \in Seq(BOOLEAN)
        /\ Len(Page(n)) = IF n + 1 <= Len(stream) THEN Len(stream) - n ELSE 0
        /\ \A i \in 1..(Len(stream) - n) : Page(n)[i] = stream[n + i]
    BY <2>1, <2>2, <1>1, SubSeqProperties
  <2> QED  BY <2>3, <1>1, <1>3
<1> QED  BY <1>2, <1>3

LEMMA WaitTypesKept ==
    ASSUME TypeOK, [Next]_vars
    PROVE  WaitTypeOK'
<1>t. WaitTypeOK /\ state \in {"live", "over", None}
  BY DEF TypeOK, JobTypeOK
<1> USE DEF waitVars, WaitTypeOK, Waiting, Goto
<1>1. CASE JobStep
  BY <1>1, <1>t DEF JobStep, RerunJob, BreakListener
<1>2. CASE \E w \in Wait : Begin(w)
  BY <1>2, <1>t DEF Begin
<1>3. ASSUME NEW w \in Wait, WaitStep(w)
      PROVE  WaitTypeOK'
  <2>1. CASE Register(w) \/ Attach(w)
    BY <2>1, <1>t DEF Register, Attach
  <2>2. CASE Check(w)
    BY <2>2, <1>t DEF Check, Looks
  <2>3. CASE Read(w)
    <3> DEFINE rows == Page(next_seq[w])
               shut == \E i \in 1..Len(rows) : rows[i]
               values == Len(rows) - (IF shut THEN 1 ELSE 0)
    <3>1. Len(rows) \in Nat
      BY <1>t, APage
    <3>2. shut => Len(rows) > 0
      BY <3>1
    <3>3. values \in Nat
      BY <3>1, <3>2
    <3>4. /\ taken' = [taken EXCEPT ![w] = @ + values]
          /\ next_seq' = [next_seq EXCEPT ![w] = @ + values]
      BY <2>3 DEF Read
    <3>5. pc' \in [Wait -> Waiting \union {"idle", "answered", "raised"}]
      BY <2>3, <1>t DEF Read
    <3>6. /\ deaf' \in [Wait -> BOOLEAN]
          /\ woken' = woken /\ final' = final /\ mixed' = mixed
      BY <2>3, <1>t DEF Read, Looks
    <3> HIDE DEF values
    <3>7. taken' \in [Wait -> Nat] /\ next_seq' \in [Wait -> Nat]
      BY <3>3, <3>4, <1>t
    <3> QED  BY <3>5, <3>6, <3>7, <1>t
  <2>4. CASE CheckState(w)
    BY <2>4, <1>t DEF CheckState
  <2>5. CASE WaitBeat(w)
    BY <2>5, <1>t DEF WaitBeat
  <2>6. CASE GiveUp(w)
    BY <2>6, <1>t DEF GiveUp, jobVars
  <2> QED  BY <1>3, <2>1, <2>2, <2>3, <2>4, <2>5, <2>6 DEF WaitStep
<1>4. CASE Deliver
  BY <1>4, <1>t DEF Deliver
<1>5. CASE \E c \in Client : Watch(c) /\ UNCHANGED waitVars
  BY <1>5, <1>t
<1>6. CASE WatchStep /\ UNCHANGED waitVars
  BY <1>6, <1>t
<1>7. CASE UNCHANGED vars
  BY <1>7, <1>t DEF vars
<1> QED
  BY <1>1, <1>2, <1>3, <1>4, <1>5, <1>6, <1>7 DEF Next, Step

Task == Fanout \union {rearm}
Broadcasts == [Task -> Broadcast \union {None}]

LEMMA BroadcastsSeen ==
    ASSUME NEW b \in Broadcasts, NEW kept
    PROVE  Seen(b, kept) \in Broadcasts
<1>1. \A x \in Broadcast : [x EXCEPT !.set = "empty"] \in Broadcast
  BY DEF Broadcast
<1> QED  BY <1>1 DEF Seen, Broadcasts

LEMMA BroadcastsLeft ==
    ASSUME TypeOK, NEW t \in Task, broadcast[t] # None
    PROVE  Others(t) \in Broadcasts /\ DOMAIN Others(t) = Task
<1>1. broadcast \in Broadcasts
  BY DEF TypeOK, WatchTypeOK, Broadcasts, Task
<1>2. \A x \in Broadcast : [x EXCEPT !.set = "orphan"] \in Broadcast
  BY DEF Broadcast
<1> QED  BY <1>1, <1>2 DEF Others, Broadcasts

LEMMA WatchTypesKept ==
    ASSUME TypeOK, [Next]_vars
    PROVE  WatchTypeOK'
<1>t. WatchTypeOK /\ state \in {"live", "over", None} /\ broadcast \in Broadcasts
  BY DEF TypeOK, JobTypeOK, WatchTypeOK, Broadcasts, Task
<1>b. \A b : b \in Broadcasts <=> b \in [Fanout \union {rearm} -> Broadcast \union {None}]
  BY DEF Broadcasts, Task
<1>0. CASE UNCHANGED watchVars
  BY <1>0, <1>t DEF watchVars, WatchTypeOK
<1>1. ASSUME NEW c \in Client, Watch(c)
      PROVE  WatchTypeOK'
  BY <1>1, <1>t DEF Watch, WatchTypeOK
<1>2. ASSUME NEW c \in Client, Watching(c)
      PROVE  WatchTypeOK'
  BY <1>2, <1>t DEF Watching, WatchTypeOK
<1>3. ASSUME NEW c \in Client, Unwatch(c)
      PROVE  WatchTypeOK'
  <2>1. broadcast' \in Broadcasts
    BY <1>3, <1>t, BroadcastsSeen DEF Unwatch
  <2> QED  BY <1>3, <1>t, <1>b, <2>1 DEF Unwatch, WatchTypeOK
<1>s. ASSUME NEW t \in Task, Starting(t)
      PROVE  broadcast' \in Broadcasts
  <2>1. [left |-> subscriptions, set |-> "listed"] \in Broadcast
    BY <1>t DEF Broadcast, WatchTypeOK
  <2> QED  BY <1>s, <1>t, <2>1 DEF Starting, Broadcasts
<1>4. ASSUME NEW t \in Fanout, Notify(t)
      PROVE  WatchTypeOK'
  BY <1>4, <1>t, <1>b, <1>s DEF Notify, WatchTypeOK, Task
<1>5. ASSUME NEW t \in Task, NEW c \in Client, Send(t, c)
      PROVE  WatchTypeOK'
  <2>1. [broadcast[t] EXCEPT !.left = @ \ {c}] \in Broadcast
    BY <1>5, <1>t DEF Send, Broadcast, Broadcasts
  <2>2. broadcast' \in Broadcasts
    BY <1>5, <1>t, <2>1 DEF Send, Broadcasts
  <2> QED  BY <1>5, <1>t, <1>b, <2>2 DEF Send, WatchTypeOK
<1>6. ASSUME NEW t \in Fanout, EndBroadcast(t)
      PROVE  WatchTypeOK'
  <2>1. broadcast' \in Broadcasts
    BY <1>6, BroadcastsLeft DEF EndBroadcast, Task
  <2> QED  BY <1>6, <1>t, <1>b, <2>1 DEF EndBroadcast, WatchTypeOK
<1>7. CASE RearmReads
  BY <1>7, <1>t DEF RearmReads, WatchTypeOK
<1>8. CASE RearmTells
  BY <1>8, <1>t, <1>b, <1>s DEF RearmTells, WatchTypeOK, Task
<1>9. CASE RearmDrops
  <2>1. Others(rearm) \in Broadcasts
    BY <1>9, BroadcastsLeft DEF RearmDrops, Task
  <2>2. broadcast' \in Broadcasts
    BY <1>9, <2>1, BroadcastsSeen DEF RearmDrops, Broadcasts
  <2> QED  BY <1>9, <1>t, <1>b, <2>2 DEF RearmDrops, WatchTypeOK
<1>10. CASE DropNotification \/ Reopen
  BY <1>10, <1>0 DEF DropNotification, Reopen
<1>11. CASE WatchStep
  BY <1>2, <1>3, <1>4, <1>5, <1>6, <1>7, <1>8, <1>9, <1>10, <1>11 DEF WatchStep, Task
<1>12. CASE JobStep
  BY <1>12, <1>0 DEF JobStep, RerunJob, BreakListener
<1>13. CASE UNCHANGED vars
  BY <1>13, <1>0 DEF vars
<1> QED
  BY <1>0, <1>1, <1>11, <1>12, <1>13 DEF Next, Step

------------------------------------------------------------------------------
(* Nothing is missed.                                                       *)

LEMMA LatchedKept ==
    ASSUME Inv, [Next]_vars, JobMove
    PROVE  Latched'
<1>t. TypeOK /\ WaitTypeOK
  BY DEF Inv, TypeOK
<1>u. state \in {"live", "over", None} /\ awaited \in BOOLEAN /\ None \notin {"live", "over"}
  BY AwaitedAssumption DEF Inv, TypeOK, JobTypeOK
<1>up. awaited \/ state = None => awaited' \/ state' = None
  <2>1. CASE CommitWrite \/ RollBackWrite \/ End \/ Delete \/ LatchOnly \/ UNCHANGED jobVars
    BY <2>1, <1>u DEF CommitWrite, RollBackWrite, End, Delete, LatchOnly, RaiseLatch, jobVars
  <2>2. CASE \/ \E what \in {"row", "close", "value"} : BeginWrite(what)
             \/ \E fresh \in BOOLEAN : Rerun(fresh)
             \/ \E c \in Connection : Traffic(c)
    BY <2>2, <1>u DEF BeginWrite, Rerun, Traffic
  <2> QED  BY <2>1, <2>2, JobMove DEF JobMove
<1>1. CASE pc' = pc
  BY <1>1, <1>up DEF Inv, Latched
<1>2. ASSUME NEW w \in Wait, Register(w)
      PROVE  Latched'
  <2>1. awaited' \/ state' = None
    BY <1>2, <1>u DEF Register, RaiseLatch
  <2> QED  BY <2>1 DEF Latched
<1>3. ASSUME NEW w \in Wait,
             pc' = [pc EXCEPT ![w] = pc'[w]],
             \/ w \in PoolOnly
             \/ pc'[w] \notin {"registered", "looking", "checking", "parked"}
             \/ pc[w] \in {"registered", "looking", "checking", "parked"}
      PROVE  Latched'
  BY <1>3, <1>t, <1>up DEF Inv, Latched, WaitTypeOK
<1>4. ASSUME NEW w \in Wait, Begin(w) \/ WaitStep(w)
      PROVE  Latched'
  <2> USE <1>t DEF Goto, WaitTypeOK
  <2>1. CASE Begin(w)
    BY <2>1, <1>3 DEF Begin
  <2>2. CASE Attach(w)
    BY <2>2, <1>3 DEF Attach
  <2>3. CASE Check(w)
    BY <2>3, <1>3 DEF Check
  <2>4. CASE Read(w)
    BY <2>4, <1>3 DEF Read
  <2>5. CASE CheckState(w) \/ WaitBeat(w) \/ GiveUp(w)
    BY <2>5, <1>3 DEF CheckState, WaitBeat, GiveUp
  <2> QED  BY <1>4, <1>2, <2>1, <2>2, <2>3, <2>4, <2>5 DEF WaitStep
<1>5. CASE JobStep
  BY <1>5, <1>1 DEF JobStep, RerunJob, BreakListener, waitVars
<1>6. CASE Deliver \/ UNCHANGED waitVars
  BY <1>6, <1>1 DEF Deliver, waitVars
<1>7. CASE UNCHANGED vars
  BY <1>7, <1>1 DEF vars, waitVars
<1> QED  BY <1>4, <1>5, <1>6, <1>7 DEF Next, Step

\* What happens to the job while a connection listens is on its way to it.
LEMMA News ==
    ASSUME Inv, NEW w \in Wait, next_seq'[w] = next_seq[w],
           inbox[listener] # None, awaited \/ state = None,
           \/ \E what \in {"row", "close", "value"} : BeginWrite(what)
           \/ CommitWrite \/ RollBackWrite \/ End \/ Delete
           \/ \E fresh \in BOOLEAN : Rerun(fresh)
           \/ Traffic(notify_conn)
           \/ LatchOnly
           \/ UNCHANGED jobVars
    PROVE  /\ inbox'[listener] # None
           /\ inbox[listener] \subseteq inbox'[listener]
           /\ Owed(w)' => Owed(w) \/ channel[w] \in inbox'[listener]
<1>t. /\ JobTypeOK /\ WaitTypeOK
      /\ None \notin {"live", "over"} /\ None \notin Write
      /\ \A pending \in SUBSET Channel : pending # None
      /\ channel[w] \in Channel
  BY AwaitedAssumption, WaitsAssumption DEF Inv, TypeOK
<1>l. /\ listener \in Connection /\ listener # notify_conn
      /\ inbox[listener] \in SUBSET Channel
      /\ Channel \subseteq Listens[listener]
  BY <1>t, Listener DEF JobTypeOK
<1>n. ASSUME NEW ch \in Channel, inbox' = Notified(ch)
      PROVE  inbox'[listener] = inbox[listener] \union {ch} /\ inbox'[listener] # None
  <2>1. inbox'[listener] = inbox[listener] \union {ch}
    BY <1>n, <1>l DEF Notified
  <2> QED  BY <2>1, <1>l, <1>t
<1>p. Pending
  BY DEF Inv
<1>o. state' = state /\ event' = event /\ stream' = stream => (Owed(w)' <=> Owed(w))
  BY DEF Owed
<1>1. CASE CommitWrite
  <2>1. txn \in Write /\ state = "live" /\ txn.wanted /\ state' = state
    BY <1>1, <1>t, <1>p DEF CommitWrite, Free, JobTypeOK, Pending
  <2>2. inbox' = Notified(Channelled(txn.what)) /\ Channelled(txn.what) \in Channel
    BY <1>1, <2>1 DEF CommitWrite, Channelled, Channel
  <2>3. /\ inbox'[listener] = inbox[listener] \union {Channelled(txn.what)}
        /\ inbox'[listener] # None
    BY <2>2, <1>n
  <2>4. Owed(w)' => Owed(w) \/ channel[w] = Channelled(txn.what)
    <3>1. CASE txn.what = "value"
      <4>1. stream' = stream
        BY <1>1, <3>1 DEF CommitWrite
      <4> QED  BY <4>1, <2>1, <3>1, <1>t DEF Owed, Channelled, Channel
    <3>2. CASE txn.what # "value"
      <4>1. event' = event
        BY <1>1, <3>2 DEF CommitWrite
      <4> QED  BY <4>1, <2>1, <3>2, <1>t DEF Owed, Channelled, Channel
    <3> QED  BY <3>1, <3>2
  <2> QED  BY <2>3, <2>4
<1>2. CASE End
  <2>1. awaited /\ inbox' = Notified("jorb_done") /\ event' = event /\ stream' = stream
    BY <1>2, <1>t DEF End, Free
  <2>2. inbox'[listener] = inbox[listener] \union {"jorb_done"} /\ inbox'[listener] # None
    BY <2>1, <1>n DEF Channel
  <2>3. Owed(w)' => Owed(w) \/ channel[w] = "jorb_done"
    BY <2>1, <1>t DEF Owed, Channel
  <2> QED  BY <2>2, <2>3
<1>3. CASE Delete
  <2>1. /\ state' = None /\ stream' = <<>> /\ event' = 0 /\ inbox' = inbox
    BY <1>3 DEF Delete
  <2>2. Len(stream') = 0 /\ next_seq'[w] \in Nat
    BY <2>1, <1>t DEF WaitTypeOK
  <2>3. CASE channel[w] = "jorb_done"
    BY <2>1, <2>3, <1>t DEF Owed
  <2>4. CASE channel[w] = "jorb_event"
    BY <2>1, <2>4 DEF Owed
  <2>5. CASE channel[w] = "jorb_stream"
    <3>1. ~(Len(stream') > next_seq'[w])
      BY <2>2
    <3> QED  BY <2>1, <2>5, <3>1, <1>l, <1>t DEF Owed
  <2> QED  BY <2>1, <2>3, <2>4, <2>5, <1>t, <1>l DEF Channel
<1>4. ASSUME NEW fresh \in BOOLEAN, Rerun(fresh)
      PROVE  inbox' = inbox /\ (Owed(w)' => Owed(w))
  <2>1. state' = "live" /\ event' = event /\ inbox' = inbox
    BY <1>4 DEF Rerun
  <2>2. CASE fresh
    <3>1. stream' = <<>> /\ next_seq'[w] \in Nat
      BY <1>4, <2>2, <1>t DEF Rerun, WaitTypeOK
    <3>2. Len(stream') = 0
      BY <3>1
    <3>3. CASE channel[w] = "jorb_stream"
      <4>1. ~(Len(stream') > next_seq'[w])
        BY <3>1, <3>2
      <4> QED  BY <2>1, <3>3, <4>1 DEF Owed
    <3>4. CASE channel[w] # "jorb_stream"
      BY <2>1, <3>4, <1>t DEF Owed, Channel
    <3> QED  BY <3>3, <3>4
  <2>3. CASE ~fresh
    <3>1. stream' = stream
      BY <1>4, <2>3 DEF Rerun
    <3> QED  BY <2>1, <3>1, <1>t DEF Owed, Channel
  <2> QED  BY <2>2, <2>3
<1>5. CASE Traffic(notify_conn)
  <2>1. inbox'[listener] = inbox[listener]
    BY <1>5, <1>l, <1>t DEF Traffic, JobTypeOK
  <2> QED  BY <1>5, <2>1, <1>o DEF Traffic
<1>6. CASE \/ \E what \in {"row", "close", "value"} : BeginWrite(what)
           \/ RollBackWrite \/ LatchOnly \/ UNCHANGED jobVars
  <2>1. state' = state /\ event' = event /\ stream' = stream /\ inbox' = inbox
    BY <1>6 DEF BeginWrite, RollBackWrite, LatchOnly, jobVars
  <2> QED  BY <2>1, <1>o
<1> QED  BY <1>1, <1>2, <1>3, <1>4, <1>5, <1>6

LEMMA TheRead ==
    ASSUME Inv, NEW w \in Wait, Read(w)
    PROVE  /\ taken'[w] = next_seq'[w] /\ next_seq'[w] \in Nat
           /\ pc'[w] = "checking" => Len(stream) <= next_seq'[w]
           /\ pc'[w] # "parked"
           /\ ~mixed[w] /\ state # None =>
                  /\ next_seq'[w] <= Len(stream)
                  /\ \A i \in 1..next_seq'[w] : ~stream[i]
                  /\ pc'[w] = "answered" =>
                         \A i \in (next_seq'[w] + 1)..Len(stream) : stream[i]
<1> DEFINE n == next_seq[w]
           rows == Page(n)
           shut == \E i \in 1..Len(rows) : rows[i]
           values == Len(rows) - (IF shut THEN 1 ELSE 0)
<1>1. TypeOK /\ WaitTypeOK /\ n \in Nat /\ taken[w] = n
  BY DEF Inv, TypeOK, WaitTypeOK, Position, PositionOf
<1>2. /\ stream \in Seq(BOOLEAN)
      /\ \A i \in 1..Len(stream) : stream[i] => i = Len(stream)
  BY <1>1 DEF TypeOK, JobTypeOK
<1>3. /\ Len(rows) \in Nat
      /\ \A i \in 1..Len(rows) : rows[i] = stream[n + i]
      /\ n + Len(rows) <= Len(stream) \/ Len(rows) = 0
      /\ Len(rows) # Batch => Len(stream) <= n + Len(rows)
  BY <1>1, APage
<1>4. shut => /\ Len(rows) > 0 /\ n + Len(rows) = Len(stream)
              /\ stream[Len(stream)]
  <2> SUFFICES ASSUME NEW i \in 1..Len(rows), rows[i]
               PROVE  /\ Len(rows) > 0 /\ n + Len(rows) = Len(stream)
                      /\ stream[Len(stream)]
    OBVIOUS
  <2>1. stream[n + i] /\ n + i \in 1..Len(stream)
    BY <1>1, <1>2, <1>3
  <2>2. n + i = Len(stream)
    BY <1>2, <2>1
  <2> QED  BY <1>1, <1>2, <1>3, <2>1, <2>2
<1>5. values \in Nat /\ (~shut => values = Len(rows)) /\ (shut => values = Len(rows) - 1)
  BY <1>3, <1>4
<1>6. taken'[w] = n + values /\ next_seq'[w] = n + values
  BY <1>1 DEF Read, WaitTypeOK
<1>7. pc'[w] = IF shut THEN "answered"
               ELSE IF Len(rows) = Batch THEN "looking"
               ELSE IF final[w] THEN "answered" ELSE "checking"
  BY <1>1 DEF Read, WaitTypeOK, Goto
<1>p. ~mixed[w] /\ state # None =>
          n <= Len(stream) /\ \A i \in 1..n : ~stream[i]
  BY DEF Inv, Position, PositionOf
<1> HIDE DEF n, rows, values, shut
<1>8. pc'[w] = "checking" => Len(stream) <= next_seq'[w]
  BY <1>3, <1>5, <1>6, <1>7
<1>9. ASSUME ~mixed[w], state # None
      PROVE  /\ n + values <= Len(stream)
             /\ \A i \in 1..(n + values) : ~stream[i]
             /\ pc'[w] = "answered" =>
                    \A i \in (n + values + 1)..Len(stream) : stream[i]
  <2>1. n <= Len(stream) /\ \A i \in 1..n : ~stream[i]
    BY <1>9, <1>p
  <2>2. CASE shut
    <3>1. n + values = Len(stream) - 1
      BY <1>1, <1>3, <1>4, <1>5, <2>2
    <3>2. \A i \in 1..(n + values) : i \in 1..Len(stream) /\ i # Len(stream)
      BY <1>2, <3>1
    <3>3. \A i \in (n + values + 1)..Len(stream) : i = Len(stream)
      BY <1>2, <3>1
    <3>4. n + values <= Len(stream)
      BY <1>2, <3>1
    <3> QED  BY <1>2, <1>4, <2>2, <3>2, <3>3, <3>4
  <2>3. CASE ~shut
    <3>1. values = Len(rows) /\ n + Len(rows) <= Len(stream)
      BY <1>1, <1>2, <1>3, <1>5, <2>1, <2>3
    <3>2. ASSUME NEW i \in 1..(n + values)
          PROVE  ~stream[i]
      <4>1. CASE i <= n
        BY <2>1, <4>1, <1>1
      <4>2. CASE i > n
        <5>1. i - n \in 1..Len(rows) /\ i = n + (i - n)
          BY <1>1, <1>3, <3>1, <4>2
        <5> QED  BY <5>1, <1>3, <2>3 DEF shut
      <4> QED  BY <4>1, <4>2, <1>1
    <3>3. pc'[w] = "answered" => Len(stream) <= n + Len(rows)
      BY <1>3, <1>7, <2>3
    <3>4. pc'[w] = "answered" => (n + values + 1)..Len(stream) = {}
      BY <1>1, <1>2, <1>3, <3>1, <3>3
    <3> QED  BY <3>1, <3>2, <3>4
  <2> QED  BY <2>2, <2>3
<1> QED  BY <1>1, <1>5, <1>6, <1>7, <1>8, <1>9

LEMMA ToldKept ==
    ASSUME Inv, [Next]_vars
    PROVE  Told'
<1>t. TypeOK /\ JobTypeOK /\ WaitTypeOK /\ listener \in Connection
  BY Listener DEF Inv, TypeOK
<1>n. \A pending \in SUBSET Channel : pending # None
  BY AwaitedAssumption
<1>l. \A w \in Wait : Listening(w) => awaited \/ state = None
  BY DEF Inv, Latched, Listening, Wired
<1>q. ASSUME pc' = pc, woken' = woken, next_seq' = next_seq, deaf' = deaf,
             \/ \E what \in {"row", "close", "value"} : BeginWrite(what)
             \/ CommitWrite \/ RollBackWrite \/ End \/ Delete
             \/ \E fresh \in BOOLEAN : Rerun(fresh)
             \/ Traffic(notify_conn)
             \/ LatchOnly
             \/ UNCHANGED jobVars
      PROVE  Told'
  <2> SUFFICES ASSUME NEW w \in Wait, Listening(w)'
               PROVE  /\ inbox'[listener] # None
                      /\ Owed(w)' => woken'[w] \/ channel[w] \in inbox'[listener]
    BY DEF Told, ToldOf
  <2>1. Listening(w)
    BY <1>q DEF Listening, Wired
  <2>2. /\ inbox[listener] # None
        /\ Owed(w) => woken[w] \/ channel[w] \in inbox[listener]
    BY <2>1 DEF Inv, Told, ToldOf
  <2>3. /\ inbox'[listener] # None
        /\ inbox[listener] \subseteq inbox'[listener]
        /\ Owed(w)' => Owed(w) \/ channel[w] \in inbox'[listener]
    BY <1>q, <1>l, <2>1, <2>2, News
  <2> QED  BY <2>2, <2>3, <1>q
<1>v. ASSUME NEW v \in Wait, pc'[v] = pc[v], woken'[v] = woken[v],
             next_seq'[v] = next_seq[v], deaf'[v] = deaf[v],
             inbox[listener] # None => inbox'[listener] = inbox[listener],
             UNCHANGED <<state, stream, event>>
      PROVE  ToldOf(v)'
  <2>1. Listening(v)' => Listening(v)
    BY <1>v DEF Listening, Wired
  <2>2. Owed(v)' <=> Owed(v)
    BY <1>v DEF Owed
  <2>3. ToldOf(v)
    BY DEF Inv, Told
  <2> QED  BY <1>v, <2>1, <2>2, <2>3 DEF ToldOf
<1>1. CASE JobStep
  <2>1. CASE BreakListener
    <3>1. ASSUME NEW w \in Wait
          PROVE  ~Listening(w)'
      BY <2>1 DEF BreakListener, Listening, Wired
    <3> QED  BY <3>1 DEF Told, ToldOf
  <2>2. CASE \E fresh \in BOOLEAN : RerunJob(fresh)
    BY <2>2, <1>q DEF RerunJob
  <2>3. CASE Break(notify_conn) /\ UNCHANGED waitVars
    <3>1. Traffic(notify_conn)
      BY <2>3, <1>t, Listener DEF Break, Traffic, JobTypeOK
    <3> QED  BY <2>3, <3>1, <1>q DEF waitVars
  <2>4. CASE /\ \/ \E what \in {"row", "close", "value"} : BeginWrite(what)
                \/ CommitWrite \/ RollBackWrite \/ End \/ Delete
             /\ UNCHANGED waitVars
    BY <2>4, <1>q DEF waitVars
  <2> QED  BY <1>1, <2>1, <2>2, <2>3, <2>4 DEF JobStep
<1>2. CASE Deliver
  <2> SUFFICES ASSUME NEW w \in Wait, Listening(w)'
               PROVE  /\ inbox'[listener] # None
                      /\ Owed(w)' => woken'[w] \/ channel[w] \in inbox'[listener]
    BY DEF Told, ToldOf
  <2>1. PICK ch \in inbox[listener] :
            /\ inbox' = [inbox EXCEPT ![listener] = @ \ {ch}]
            /\ woken' = [v \in Wait |-> woken[v] \/ (Wired(v) /\ channel[v] = ch)]
    BY <1>2 DEF Deliver
  <2>2. Listening(w) /\ (Owed(w)' <=> Owed(w)) /\ inbox[listener] \in SUBSET Channel
    BY <1>2, <1>t DEF Deliver, Listening, Wired, Owed, JobTypeOK
  <2>3. Owed(w) => woken[w] \/ channel[w] \in inbox[listener]
    BY <2>2 DEF Inv, Told, ToldOf
  <2>4. inbox'[listener] = inbox[listener] \ {ch} /\ inbox'[listener] # None
    BY <2>1, <2>2, <1>t, <1>n DEF JobTypeOK
  <2>5. woken'[w] = (woken[w] \/ channel[w] = ch)
    BY <2>1, <2>2 DEF Listening
  <2> QED  BY <2>2, <2>3, <2>4, <2>5
<1>3. ASSUME NEW w \in Wait, Begin(w) \/ WaitStep(w)
      PROVE  Told'
  <2>1. /\ UNCHANGED <<state, stream, event>>
        /\ inbox[listener] # None => inbox'[listener] = inbox[listener]
    <3>1. CASE Begin(w)
      BY <3>1, <1>t DEF Begin, JobTypeOK
    <3>2. CASE Register(w)
      BY <3>2 DEF Register
    <3>3. CASE Attach(w) \/ Check(w) \/ Read(w) \/ CheckState(w) \/ WaitBeat(w) \/ GiveUp(w)
      BY <3>3 DEF Attach, Check, Read, CheckState, WaitBeat, GiveUp, jobVars
    <3> QED  BY <1>3, <3>1, <3>2, <3>3 DEF WaitStep
  <2>2. ASSUME NEW v \in Wait, v # w
        PROVE  ToldOf(v)'
    <3>1. /\ pc'[v] = pc[v] /\ woken'[v] = woken[v]
          /\ next_seq'[v] = next_seq[v] /\ deaf'[v] = deaf[v]
      <4> USE <2>2, <1>t DEF WaitTypeOK, Goto
      <4>1. CASE Begin(w) \/ Register(w) \/ Attach(w)
        BY <4>1 DEF Begin, Register, Attach
      <4>2. CASE Check(w)
        BY <4>2 DEF Check, Looks
      <4>3. CASE Read(w)
        BY <4>3 DEF Read, Looks
      <4>4. CASE CheckState(w) \/ WaitBeat(w)
        BY <4>4 DEF CheckState, WaitBeat
      <4>5. CASE GiveUp(w)
        BY <4>5 DEF GiveUp
      <4> QED  BY <1>3, <4>1, <4>2, <4>3, <4>4, <4>5 DEF WaitStep
    <3> QED  BY <3>1, <2>1, <1>v
  <2>3. ToldOf(w)'
    <3>1. CASE Begin(w) \/ Register(w) \/ Attach(w) \/ WaitBeat(w) \/ GiveUp(w)
      <4>1. pc'[w] \in {"registering", "registered", "looking", "idle"}
        BY <3>1, <1>t DEF Begin, Register, Attach, WaitBeat, GiveUp, Goto, WaitTypeOK
      <4> QED  BY <4>1 DEF ToldOf, Listening
    <3>2. CASE Check(w)
      <4>1. channel[w] \in {"jorb_done", "jorb_event"} /\ pc[w] = "looking"
        BY <3>2, WaitsAssumption DEF Check, Channel
      <4>2. pc'[w] = "parked" => /\ state = "live"
                                 /\ ~(channel[w] = "jorb_event" /\ event > 0
                                        /\ event >= accepts[w])
        BY <3>2, <1>t DEF Check, Goto, WaitTypeOK
      <4>3. pc'[w] # "checking"
        BY <3>2, <1>t DEF Check, Goto, WaitTypeOK
      <4>4. pc'[w] = "parked" => ~Owed(w)
        BY <4>1, <4>2 DEF Owed
      <4>5. ~deaf'[w] => ~Wired(w) \/ inbox[listener] # None
        BY <3>2, <1>t DEF Check, Looks, WaitTypeOK
      <4>6. (Owed(w)' <=> Owed(w)) /\ inbox' = inbox
        BY <3>2 DEF Check, jobVars, Owed
      <4> QED  BY <4>1, <4>3, <4>4, <4>5, <4>6 DEF ToldOf, Listening, Wired
    <3>3. CASE Read(w)
      <4>1. channel[w] = "jorb_stream" /\ pc[w] = "looking"
        BY <3>3 DEF Read
      <4>2. pc'[w] # "parked" /\ (pc'[w] = "checking" => Len(stream) <= next_seq'[w])
        BY <3>3, TheRead
      <4>3. next_seq'[w] \in Nat /\ Len(stream) \in Nat
        BY <3>3, <1>t, TheRead DEF JobTypeOK
      <4>4. pc'[w] = "checking" => ~(Len(stream) > next_seq'[w])
        BY <4>2, <4>3
      <4>5. pc'[w] = "checking" => ~Owed(w)'
        BY <4>1, <4>4, <2>1 DEF Owed
      <4>6. ~deaf'[w] => ~Wired(w) \/ inbox[listener] # None
        BY <3>3, <1>t DEF Read, Looks, WaitTypeOK
      <4>7. inbox' = inbox
        BY <3>3 DEF Read, jobVars
      <4> QED  BY <4>1, <4>2, <4>5, <4>6, <4>7 DEF ToldOf, Listening, Wired
    <3>4. CASE CheckState(w)
      <4>1. /\ pc[w] = "checking" /\ inbox' = inbox
            /\ UNCHANGED <<woken, deaf, next_seq, state, stream, event>>
        BY <3>4 DEF CheckState, jobVars
      <4>2. (Owed(w)' <=> Owed(w)) /\ ToldOf(w)
        BY <4>1 DEF Owed, Inv, Told
      <4> QED  BY <4>1, <4>2 DEF ToldOf, Listening, Wired
    <3> QED  BY <1>3, <3>1, <3>2, <3>3, <3>4 DEF WaitStep
  <2> QED  BY <2>2, <2>3 DEF Told
<1>4. CASE \E c \in Client : Watch(c) /\ UNCHANGED waitVars
  <2>1. LatchOnly
    BY <1>4 DEF Watch, LatchOnly
  <2> QED  BY <1>4, <2>1, <1>q DEF waitVars
<1>5. CASE WatchStep /\ UNCHANGED waitVars
  <2> USE DEF waitVars
  <2>1. CASE (\E t \in Fanout : Notify(t)) \/ DropNotification \/ Reopen
    <3>1. Traffic(notify_conn)
      BY <2>1, <1>t, Listener DEF Notify, DropNotification, Reopen, Traffic, JobTypeOK
    <3> QED  BY <1>5, <3>1, <1>q
  <2>2. CASE RearmReads
    <3>1. LatchOnly
      BY <2>2 DEF RearmReads, LatchOnly
    <3> QED  BY <1>5, <3>1, <1>q
  <2>3. CASE \/ \E c \in Client : Watching(c) \/ Unwatch(c)
             \/ \E t \in Fanout : EndBroadcast(t)
             \/ \E t \in Fanout \union {rearm}, c \in Client : Send(t, c)
             \/ RearmTells \/ RearmDrops
    <3>1. UNCHANGED jobVars
      BY <2>3 DEF Watching, Unwatch, EndBroadcast, Send, RearmTells, RearmDrops
    <3> QED  BY <1>5, <3>1, <1>q
  <2> QED  BY <1>5, <2>1, <2>2, <2>3 DEF WatchStep
<1>6. CASE UNCHANGED vars
  BY <1>6, <1>q DEF vars, waitVars
<1> QED  BY <1>1, <1>2, <1>3, <1>4, <1>5, <1>6 DEF Next, Step

LEMMA PositionKept ==
    ASSUME Inv, [Next]_vars
    PROVE  Position'
<1>t. /\ TypeOK /\ JobTypeOK /\ WaitTypeOK
      /\ state \in {"live", "over", None} /\ None \notin {"live", "over"}
      /\ None \notin Write
  BY AwaitedAssumption DEF Inv, TypeOK, JobTypeOK
<1>v. ASSUME NEW w \in Wait, taken'[w] = taken[w], next_seq'[w] = next_seq[w],
             mixed'[w] = mixed[w], stream' = stream, state' # None => state # None
      PROVE  PositionOf(w)'
  BY <1>v DEF Inv, Position, PositionOf
<1>1. CASE JobStep
  <2> SUFFICES ASSUME NEW w \in Wait
               PROVE  PositionOf(w)'
    BY DEF Position
  <2>t. taken'[w] = taken[w] /\ next_seq'[w] = next_seq[w]
    BY <1>1 DEF JobStep, RerunJob, BreakListener, waitVars
  <2>n. next_seq[w] \in Nat /\ Len(stream) \in Nat
    BY <1>t DEF WaitTypeOK, JobTypeOK
  <2>p. PositionOf(w)
    BY DEF Inv, Position
  <2>1. CASE BreakListener
    BY <2>1, <1>v DEF BreakListener, Break
  <2>2. ASSUME NEW fresh \in BOOLEAN, RerunJob(fresh)
        PROVE  PositionOf(w)'
    <3>1. /\ mixed'[w] = (mixed[w] \/ (fresh /\ next_seq[w] > 0))
          /\ stream' = IF fresh THEN <<>> ELSE stream
          /\ state = "over"
      BY <2>2, <1>t DEF RerunJob, Rerun
    <3>2. CASE ~fresh
      BY <3>1, <3>2, <2>t, <1>t, <1>v DEF WaitTypeOK
    <3>3. CASE fresh
      <4>1. Len(stream') = 0
        BY <3>1, <3>3
      <4>2. ~mixed'[w] => ~(next_seq[w] > 0)
        BY <3>1, <3>3, Zenon
      <4>3. ~(next_seq[w] > 0) => next_seq[w] = 0 /\ 1..next_seq[w] = {}
        BY <2>n
      <4> QED  BY <4>1, <4>2, <4>3, <2>t, <2>p DEF PositionOf
    <3> QED  BY <3>2, <3>3
  <2>3. CASE CommitWrite /\ UNCHANGED waitVars
    <3>1. mixed' = mixed /\ state' = state
      BY <2>3 DEF waitVars, CommitWrite
    <3>2. CASE txn.what = "value"
      BY <3>1, <3>2, <2>3, <2>t, <1>v DEF CommitWrite
    <3>3. CASE txn.what # "value"
      <4>1. ~Closed /\ stream' = Append(stream, txn.what = "close")
        BY <3>3, <2>3 DEF CommitWrite, Free, Inv, Pending
      <4>2. /\ Len(stream') = Len(stream) + 1
            /\ \A i \in 1..Len(stream) : stream'[i] = stream[i]
        BY <4>1, <1>t, RowsAppended
      <4>3. ASSUME ~mixed[w], state # None
            PROVE  /\ next_seq[w] <= Len(stream')
                   /\ \A i \in 1..next_seq[w] : ~stream'[i]
        BY <4>2, <4>3, <2>p, <2>n DEF PositionOf
      <4> QED  BY <4>3, <3>1, <2>t, <2>p DEF PositionOf
    <3> QED  BY <3>2, <3>3
  <2>4. CASE Delete /\ UNCHANGED waitVars
    BY <2>4, <2>t, <2>p DEF Delete, PositionOf, waitVars
  <2>5. CASE /\ \/ \E what \in {"row", "close", "value"} : BeginWrite(what)
                \/ RollBackWrite \/ End \/ Break(notify_conn)
             /\ UNCHANGED waitVars
    BY <2>5, <1>t, <1>v DEF BeginWrite, RollBackWrite, End, Break, waitVars
  <2> QED  BY <1>1, <2>1, <2>2, <2>3, <2>4, <2>5 DEF JobStep
<1>2. ASSUME NEW w \in Wait, Begin(w) \/ WaitStep(w)
      PROVE  Position'
  <2>1. stream' = stream /\ state' = state
    <3>1. CASE Begin(w) \/ Register(w)
      BY <3>1 DEF Begin, Register
    <3>2. CASE Attach(w) \/ Check(w) \/ Read(w) \/ CheckState(w) \/ WaitBeat(w) \/ GiveUp(w)
      BY <3>2 DEF Attach, Check, Read, CheckState, WaitBeat, GiveUp, jobVars
    <3> QED  BY <1>2, <3>1, <3>2 DEF WaitStep
  <2>2. CASE UNCHANGED <<next_seq, taken, mixed>>
    BY <2>1, <2>2, <1>v DEF Position
  <2>3. CASE Read(w)
    <3>1. mixed' = mixed
      BY <2>3 DEF Read
    <3>2. PositionOf(w)'
      BY <2>3, <2>1, <3>1, TheRead DEF PositionOf
    <3>3. ASSUME NEW v \in Wait, v # w
          PROVE  PositionOf(v)'
      <4>1. taken'[v] = taken[v] /\ next_seq'[v] = next_seq[v]
        BY <2>3, <3>3, <1>t DEF Read, WaitTypeOK
      <4> QED  BY <4>1, <3>1, <2>1, <1>v
    <3> QED  BY <3>2, <3>3 DEF Position
  <2>4. CASE GiveUp(w)
    <3>1. PositionOf(w)'
      <4>1. taken'[w] = 0 /\ next_seq'[w] = 0 /\ Len(stream') \in Nat
        BY <2>4, <2>1, <1>t DEF GiveUp, WaitTypeOK, JobTypeOK
      <4>2. 1..0 = {}
        OBVIOUS
      <4> QED  BY <4>1, <4>2 DEF PositionOf
    <3>2. ASSUME NEW v \in Wait, v # w
          PROVE  PositionOf(v)'
      <4>1. /\ taken'[v] = taken[v] /\ next_seq'[v] = next_seq[v]
            /\ mixed'[v] = mixed[v]
        BY <2>4, <3>2, <1>t DEF GiveUp, WaitTypeOK
      <4> QED  BY <4>1, <2>1, <1>v
    <3> QED  BY <3>1, <3>2 DEF Position
  <2>5. CASE \/ Begin(w) \/ Register(w) \/ Attach(w) \/ Check(w)
             \/ CheckState(w) \/ WaitBeat(w)
    BY <2>2, <2>5 DEF Begin, Register, Attach, Check, CheckState, WaitBeat
  <2> QED  BY <1>2, <2>3, <2>4, <2>5 DEF WaitStep
<1>3. CASE UNCHANGED waitVars /\ (WatchStep \/ \E c \in Client : Watch(c))
  <2>1. stream' = stream /\ state' = state
    BY <1>3 DEF WatchStep, Watch, Watching, Unwatch, Notify, DropNotification, Send,
                EndBroadcast, Reopen, RearmReads, RearmTells, RearmDrops, jobVars
  <2> QED  BY <1>3, <2>1, <1>v DEF Position, waitVars
<1>4. CASE Deliver \/ UNCHANGED vars
  BY <1>4, <1>v DEF Deliver, vars, waitVars, jobVars, Position
<1> QED  BY <1>1, <1>2, <1>3, <1>4 DEF Next, Step

------------------------------------------------------------------------------

LEMMA InvInitial == Init => Inv
<1> SUFFICES ASSUME Init PROVE Inv
  OBVIOUS
<1> USE DEF Init, JobInit, WaitInit, WatchInit
<1>1. /\ stream \in Seq(BOOLEAN) /\ Len(stream) = 0 /\ 1..0 = {}
      /\ MaxRows \in Nat /\ MaxValues \in Nat
  BY AwaitedAssumption
<1>2. TypeOK
  <2>1. \A i \in 1..Len(stream) : stream[i] => i = Len(stream)
    BY <1>1
  <2>2. inbox \in [Connection -> (SUBSET Channel) \union {None}]
    OBVIOUS
  <2>3. JobTypeOK
    <3>1. /\ state \in {"live", "over", None} /\ awaited \in BOOLEAN
          /\ run \in Nat /\ txn \in Write \union {None}
      OBVIOUS
    <3>2. event = 0
      OBVIOUS
    <3>3. event \in 0..MaxValues /\ Len(stream) <= MaxRows
      BY ONLY <1>1, <3>2
    <3> QED  BY ONLY <1>1, <2>1, <2>2, <3>1, <3>3 DEF JobTypeOK
  <2>4. WaitTypeOK
    <3>1. "idle" \in Waiting \union {"idle", "answered", "raised"}
      OBVIOUS
    <3>2. pc \in [Wait -> Waiting \union {"idle", "answered", "raised"}]
      BY <3>1
    <3>3. next_seq \in [Wait -> Nat] /\ taken \in [Wait -> Nat]
      OBVIOUS
    <3>4. /\ woken \in [Wait -> BOOLEAN] /\ final \in [Wait -> BOOLEAN]
          /\ deaf \in [Wait -> BOOLEAN] /\ mixed \in [Wait -> BOOLEAN]
      OBVIOUS
    <3> QED  BY ONLY <3>2, <3>3, <3>4 DEF WaitTypeOK
  <2>5. WatchTypeOK
    BY DEF WatchTypeOK
  <2> QED  BY <2>3, <2>4, <2>5 DEF TypeOK
<1>3. Pending
  BY DEF Pending
<1>4. Latched /\ Told
  BY DEF Latched, Told, ToldOf, Listening
<1>5. Position
  BY <1>1 DEF Position, PositionOf
<1> QED  BY <1>2, <1>3, <1>4, <1>5 DEF Inv

LEMMA InvInductive ==
    ASSUME Inv, [Next]_vars
    PROVE  Inv'
<1>1. JobMove
  BY EveryMove DEF Inv
<1>2. JobTypeOK' /\ Pending'
  BY <1>1, JobTypesKept DEF Inv
<1>3. WaitTypeOK' /\ WatchTypeOK'
  BY WaitTypesKept, WatchTypesKept DEF Inv
<1>4. group' = group
  BY DEF Next, vars
<1>5. TypeOK'
  BY <1>2, <1>3, <1>4 DEF TypeOK, Inv
<1> QED  BY <1>1, <1>2, <1>5, LatchedKept, ToldKept, PositionKept DEF Inv

LEMMA InvAlways == Spec => []Inv
BY InvInitial, InvInductive, PTL DEF Spec

\* Whatever the waits, the watches and the job do, the three parts keep to
\* their types and a stream ends with its closing row: STREAM_APPEND_SQL asks
\* for it while it holds the job's row.
THEOREM TypeCorrect == Spec => []TypeOK
<1>1. Inv => TypeOK
  BY DEF Inv
<1> QED  BY <1>1, InvAlways, PTL

\* No number of waits, writers and reruns makes a wait park over what it waits
\* for without having been told, while its connection holds: register, then
\* look, then park (JobClient), against the gate the triggers ask while their
\* writer holds the row.
THEOREM NoNoticeMissed == Spec => []NoMissedNotice
<1>1. Inv => NoMissedNotice
  BY DEF Inv, Told, ToldOf, Listening, NoMissedNotice
<1> QED  BY <1>1, InvAlways, PTL

\* read_stream yields the whole of a stream of any length, by pages of any
\* size, each row once, before it returns.
THEOREM WholeStreamDelivered == Spec => StreamDelivered
<1>1. ASSUME Inv, [Next]_vars, NEW w \in Wait,
             channel[w] = "jorb_stream", ~mixed[w], state # None,
             pc[w] # "answered", pc'[w] = "answered"
      PROVE  taken'[w] = Cardinality({i \in 1..Len(stream) : ~stream[i]})
  <2>t. TypeOK /\ WaitTypeOK
    BY <1>1 DEF Inv, TypeOK
  <2>1. Read(w)
    <3>1. CASE UNCHANGED pc
      BY <3>1, <1>1
    <3>2. ASSUME NEW v \in Wait, Begin(v) \/ WaitStep(v)
          PROVE  Read(w)
      <4> USE <1>1, <2>t DEF Goto, WaitTypeOK
      <4>1. CASE \/ Begin(v) \/ Register(v) \/ Attach(v) \/ CheckState(v)
                 \/ WaitBeat(v) \/ GiveUp(v)
        BY <4>1 DEF Begin, Register, Attach, CheckState, WaitBeat, GiveUp
      <4>2. CASE Check(v)
        BY <4>2 DEF Check
      <4>3. CASE Read(v)
        <5>1. v = w
          BY <4>3 DEF Read
        <5> QED  BY <4>3, <5>1
      <4> QED  BY <3>2, <4>1, <4>2, <4>3 DEF WaitStep
    <3>3. CASE JobStep
      BY <3>1, <3>3 DEF JobStep, RerunJob, BreakListener, waitVars
    <3>4. CASE Deliver \/ UNCHANGED waitVars \/ UNCHANGED vars
      BY <3>1, <3>4 DEF Deliver, waitVars, vars
    <3> QED  BY <1>1, <3>2, <3>3, <3>4 DEF Next, Step
  <2>2. /\ taken'[w] = next_seq'[w] /\ next_seq'[w] \in Nat
        /\ next_seq'[w] <= Len(stream)
        /\ \A i \in 1..next_seq'[w] : ~stream[i]
        /\ \A i \in (next_seq'[w] + 1)..Len(stream) : stream[i]
    BY <1>1, <2>1, TheRead
  <2>3. Len(stream) \in Nat
    BY <2>t DEF TypeOK, JobTypeOK
  <2>4. {i \in 1..Len(stream) : ~stream[i]} = 1..next_seq'[w]
    <3>1. ASSUME NEW i \in 1..Len(stream), ~stream[i]
          PROVE  i \in 1..next_seq'[w]
      <4>1. i \notin (next_seq'[w] + 1)..Len(stream)
        BY <2>2, <3>1
      <4> QED  BY <4>1, <2>2, <2>3
    <3>2. \A i \in 1..next_seq'[w] : i \in 1..Len(stream) /\ ~stream[i]
      BY <2>2, <2>3
    <3> QED  BY <3>1, <3>2
  <2>5. Cardinality(1..next_seq'[w]) = next_seq'[w]
    BY <2>2, FS_Interval
  <2> QED  BY <2>2, <2>4, <2>5
<1>2. Inv /\ [Next]_vars =>
        [\A w \in Wait :
            /\ channel[w] = "jorb_stream" /\ ~mixed[w] /\ state # None
            /\ pc[w] # "answered" /\ pc'[w] = "answered"
            => taken'[w] = Cardinality({i \in 1..Len(stream) : ~stream[i]})]_vars
  BY <1>1
<1> QED  BY <1>2, InvAlways, PTL DEF Spec, StreamDelivered

------------------------------------------------------------------------------
(* What the watchers are told.                                              *)

\* The job has not been over yet.
Unended == state = "live" /\ run = 1

\* No news of an end is about before there was one: not at the clients, not on
\* the way to the servers, and no wait was woken by any.
NoNews ==
    /\ ~found
    /\ \A c \in Client : asked[c] # "over" /\ heard[c] # "over"
    /\ \A t \in Task : broadcast[t] = None
    /\ \A c \in Connection : inbox[c] # None => "jorb_done" \notin inbox[c]
    /\ \A w \in Wait : channel[w] = "jorb_done" => ~woken[w]

NewsInv == run >= 1 /\ (Unended => NoNews)

LEMMA EndsOnce ==
    ASSUME TypeOK, NewsInv, [Next]_vars
    PROVE  run' >= 1 /\ (Unended' => Unended /\ NoNews)
<1> USE DEF TypeOK, JobTypeOK, NewsInv
<1>1. JobMove
  BY EveryMove
<1>2. CASE \E fresh \in BOOLEAN : Rerun(fresh)
  BY <1>2 DEF Rerun, Unended
<1>3. CASE End \/ Delete
  BY <1>3, AwaitedAssumption DEF End, Delete, Unended
<1>4. CASE UNCHANGED <<state, run>>
  BY <1>4 DEF Unended
<1>5. (\E fresh \in BOOLEAN : Rerun(fresh)) \/ End \/ Delete \/ UNCHANGED <<state, run>>
  BY <1>1 DEF JobMove, BeginWrite, CommitWrite, RollBackWrite, Traffic, LatchOnly, jobVars
<1> QED  BY <1>2, <1>3, <1>4, <1>5

LEMMA NoNewsStep ==
    ASSUME TypeOK, NewsInv, [Next]_vars, Unended, NoNews, Unended'
    PROVE  NoNews'
<1>t. /\ JobTypeOK /\ WaitTypeOK /\ WatchTypeOK
      /\ state = "live" /\ state' = "live" /\ run' = run
  BY DEF TypeOK, Unended
<1>n. /\ NoNews /\ DOMAIN broadcast = Task
      /\ inbox \in [Connection -> (SUBSET Channel) \union {None}]
      /\ \A c \in Connection : inbox[c] # None => "jorb_done" \notin inbox[c]
  BY <1>t DEF WatchTypeOK, JobTypeOK, NoNews, Task
<1>q. /\ \A t \in Fanout \union {rearm} : broadcast[t] = None
      /\ rearm \in Task /\ Fanout \subseteq Task
  BY DEF NoNews, Task
<1>l. listener \in Connection /\ notify_conn \in Connection
  BY Listener
<1>1. CASE UNCHANGED watchVars /\ UNCHANGED woken /\
           \A c \in Connection : \/ inbox'[c] = inbox[c] \/ inbox'[c] = None
                                 \/ "jorb_done" \notin inbox'[c]
  BY <1>1, <1>n DEF NoNews, watchVars
<1>2. CASE UNCHANGED vars
  BY <1>1, <1>2 DEF vars, jobVars, waitVars
<1>3. CASE JobStep
  <2>1. CASE CommitWrite /\ UNCHANGED <<waitVars, watchVars>>
    <3>1. Channelled(txn.what) # "jorb_done"
      BY DEF Channelled
    <3>2. \A c \in Connection : inbox'[c] = inbox[c] \/ "jorb_done" \notin inbox'[c]
      BY <2>1, <3>1, <1>n DEF CommitWrite, Notified
    <3> QED  BY <1>1, <2>1, <3>2 DEF waitVars
  <2>2. CASE (\/ \E what \in {"row", "close", "value"} : BeginWrite(what)
              \/ RollBackWrite) /\ UNCHANGED <<waitVars, watchVars>>
    BY <1>1, <2>2 DEF BeginWrite, RollBackWrite, waitVars
  <2>3. CASE Break(notify_conn) /\ UNCHANGED <<waitVars, watchVars>>
    BY <1>1, <1>n, <2>3 DEF Break, waitVars
  <2>4. CASE End \/ Delete \/ \E fresh \in BOOLEAN : RerunJob(fresh)
    BY <1>t, <2>4, AwaitedAssumption DEF End, Delete, RerunJob, Rerun, JobTypeOK
  <2>5. CASE BreakListener
    BY <1>1, <1>n, <2>5 DEF BreakListener, Break
  <2> QED  BY <1>3, <2>1, <2>2, <2>3, <2>4, <2>5 DEF JobStep
<1>4. ASSUME NEW w \in Wait, Begin(w), UNCHANGED watchVars PROVE NoNews'
  <2>1. \A c \in Connection : inbox'[c] = inbox[c] \/ inbox'[c] = {}
    BY <1>4, <1>n, <1>l DEF Begin
  <2> QED  BY <1>1, <1>4, <2>1 DEF Begin
<1>5. ASSUME NEW w \in Wait, WaitStep(w), UNCHANGED watchVars PROVE NoNews'
  <2>1. UNCHANGED inbox /\ \A v \in Wait : woken'[v] => woken[v]
    BY <1>5, <1>t DEF WaitStep, Register, Attach, Check, Read, CheckState, WaitBeat,
                      GiveUp, WaitTypeOK, jobVars
  <2> QED  BY <1>5, <1>n, <2>1 DEF NoNews, watchVars
<1>6. CASE Deliver /\ UNCHANGED watchVars
  <2>1. PICK ch \in inbox[listener] :
            /\ inbox' = [inbox EXCEPT ![listener] = @ \ {ch}]
            /\ woken' = [w \in Wait |-> woken[w] \/ (Wired(w) /\ channel[w] = ch)]
    BY <1>6 DEF Deliver
  <2>2. inbox[listener] # None
    BY <1>6 DEF Deliver
  <2>3. ch # "jorb_done"
    BY <1>n, <1>l, <2>1, <2>2
  <2>4. \A c \in Connection : inbox'[c] = inbox[c] \/ "jorb_done" \notin inbox'[c]
    BY <1>n, <1>l, <2>1, <2>2
  <2>5. \A w \in Wait : channel[w] = "jorb_done" => ~woken'[w]
    BY <1>n, <2>1, <2>3 DEF NoNews
  <2> QED  BY <1>6, <1>n, <2>4, <2>5 DEF NoNews, watchVars
<1>7. ASSUME NEW c \in Client, Watch(c), UNCHANGED waitVars PROVE NoNews'
  BY <1>7, <1>t, <1>n DEF Watch, NoNews, waitVars, WatchTypeOK
<1>8. CASE WatchStep /\ UNCHANGED waitVars
  <2>1. ASSUME NEW c \in Client, Watching(c) PROVE NoNews'
    <3>1. \A d \in Client : /\ asked'[d] \in {asked[d], None}
                             /\ heard'[d] \in {heard[d], asked[d]}
      BY <1>t, <2>1 DEF Watching, WatchTypeOK
    <3>2. UNCHANGED <<found, broadcast, inbox, woken>>
      BY <1>8, <2>1 DEF Watching, jobVars, waitVars
    <3> QED  BY <1>n, <3>1, <3>2, AwaitedAssumption DEF NoNews
  <2>2. ASSUME NEW c \in Client, Unwatch(c) PROVE NoNews'
    <3>1. \A t \in Task : broadcast'[t] = None
      BY <1>n, <1>q, <2>2 DEF Unwatch, Seen, Task
    <3>2. \A d \in Client : heard'[d] = heard[d] \/ heard'[d] = None
      BY <1>t, <2>2 DEF Unwatch, WatchTypeOK
    <3> QED  BY <1>8, <1>n, <2>2, <3>1, <3>2, AwaitedAssumption
                DEF Unwatch, NoNews, waitVars, jobVars
  <2>3. CASE DropNotification \/ \E t \in Fanout : Notify(t)
    BY <1>n, <1>l, <2>3 DEF Notify, DropNotification
  <2>4. CASE \/ \E t \in Fanout : EndBroadcast(t)
             \/ \E t \in Fanout \union {rearm}, c \in Client : Send(t, c)
             \/ RearmTells \/ RearmDrops
    BY <1>q, <1>n, <2>4 DEF EndBroadcast, Send, RearmTells, RearmDrops, NoNews
  <2>5. CASE Reopen
    BY <1>1, <1>8, <1>n, <1>l, <2>5 DEF Reopen, waitVars
  <2>6. CASE RearmReads
    BY <1>8, <1>t, <1>n, <2>6 DEF RearmReads, NoNews, waitVars
  <2> QED  BY <1>8, <2>1, <2>2, <2>3, <2>4, <2>5, <2>6 DEF WatchStep
<1> QED
  BY <1>2, <1>3, <1>4, <1>5, <1>6, <1>7, <1>8 DEF Next, Step

LEMMA NewsAlways == Spec => []NewsInv
<1>1. Init => NewsInv
  BY AwaitedAssumption
     DEF Init, JobInit, WaitInit, WatchInit, NewsInv, Unended, NoNews, Task
<1>2. TypeOK /\ NewsInv /\ [Next]_vars => NewsInv'
  <2> SUFFICES ASSUME TypeOK, NewsInv, [Next]_vars PROVE NewsInv'
    OBVIOUS
  <2> QED  BY EndsOnce, NoNewsStep DEF NewsInv
<1> QED  BY <1>1, <1>2, TypeCorrect, PTL DEF Spec

\* No watcher is told that the job is over before it was, by whichever way: the
\* answer to watch_job, a broadcast, or the beat that re-arms the watches.
NoFalseNews ==
    \A c \in Client : heard[c] = "over" => state # "live" \/ run > 1

\* Notifications carry no state and broadcasts run late, and yet a job that has
\* never been over is over for nobody.
THEOREM NewsIsTrue == Spec => []NoFalseNews
<1>1. TypeOK /\ NewsInv => NoFalseNews
  BY DEF NewsInv, NoFalseNews, Unended, NoNews, TypeOK, JobTypeOK
<1> QED  BY <1>1, NewsAlways, TypeCorrect, PTL

\* Whoever the server's table would tell has the channel on its own list, and
\* that list is what a closing connection is taken off by: no entry is left
\* behind.  A broadcast that finds its set in the table finds it populated.
TableAgrees ==
    /\ subscriptions \subseteq channels
    /\ \A t \in Task : broadcast[t] # None /\ broadcast[t].set = "listed"
                           => subscriptions # {}

LEMMA SeenListed ==
    ASSUME NEW b \in Broadcasts, NEW kept, NEW t \in Task,
           Seen(b, kept)[t] # None, Seen(b, kept)[t].set = "listed"
    PROVE  kept # {} /\ b[t] # None /\ b[t].set = "listed"
<1>1. DOMAIN b = Task /\ (b[t] # None => b[t] \in Broadcast)
  BY DEF Broadcasts
<1> QED  BY <1>1 DEF Seen, Broadcast

\* The table and the clients' lists agree, however watches come and go while
\* broadcasts hold sets they found earlier.
THEOREM NoEntryLeftBehind == Spec => []TableAgrees
<1>1. Init => TableAgrees
  BY DEF Init, WatchInit, TableAgrees, Task
<1>2. TypeOK /\ TableAgrees /\ [Next]_vars => TableAgrees'
  <2> SUFFICES ASSUME TypeOK, TableAgrees, [Next]_vars PROVE TableAgrees'
    OBVIOUS
  <2>t. /\ broadcast \in Broadcasts /\ DOMAIN broadcast = Task
        /\ subscriptions \subseteq Client /\ channels \subseteq Client
    BY DEF TypeOK, WatchTypeOK, Broadcasts, Task
  <2>0. CASE UNCHANGED <<channels, subscriptions, broadcast>>
    BY <2>0 DEF TableAgrees
  <2>s. ASSUME NEW u \in Task, Starting(u), UNCHANGED <<channels, subscriptions>>
        PROVE  TableAgrees'
    BY <2>s, <2>t DEF Starting, TableAgrees, Broadcasts
  <2>1. ASSUME NEW c \in Client, Watching(c) PROVE TableAgrees'
    BY <2>1 DEF Watching, TableAgrees
  <2>2. ASSUME NEW c \in Client, Unwatch(c) PROVE TableAgrees'
    <3>1. subscriptions' \subseteq channels'
      BY <2>2 DEF Unwatch, TableAgrees
    <3>2. \A t \in Task : broadcast'[t] # None /\ broadcast'[t].set = "listed"
                              => subscriptions' # {}
      BY <2>2, <2>t, SeenListed DEF Unwatch
    <3> QED  BY <3>1, <3>2 DEF TableAgrees
  <2>3. ASSUME NEW t \in Fanout, Notify(t) PROVE TableAgrees'
    BY <2>s, <2>3 DEF Notify, Task
  <2>4. ASSUME NEW t \in Task, NEW c \in Client, Send(t, c) PROVE TableAgrees'
    <3>1. \A u \in Task : /\ broadcast'[u] # None <=> broadcast[u] # None
                          /\ broadcast'[u] # None => broadcast'[u].set = broadcast[u].set
      <4>1. broadcast[t] \in Broadcast
        BY <2>4, <2>t DEF Send, Broadcasts
      <4>2. [broadcast[t] EXCEPT !.left = @ \ {c}] \in Broadcast
        BY <4>1 DEF Broadcast
      <4> QED  BY <2>4, <2>t, <4>1, <4>2, WatchesAssumption DEF Send, Broadcast
    <3> QED  BY <2>4, <3>1 DEF Send, TableAgrees
  <2>5. ASSUME NEW t \in Task, broadcast[t] # None, NEW u \in Task,
               Others(t)[u] # None, Others(t)[u].set = "listed"
        PROVE  ~Reaped(t) /\ broadcast[u] # None /\ broadcast[u].set = "listed"
    <3>1. broadcast[u] # None => broadcast[u] \in Broadcast
      BY <2>t DEF Broadcasts
    <3> QED  BY <2>5, <2>t, <3>1 DEF Others, Broadcast
  <2>6. ASSUME NEW t \in Fanout, EndBroadcast(t) PROVE TableAgrees'
    BY <2>5, <2>6 DEF EndBroadcast, TableAgrees, Task
  <2>7. CASE RearmTells
    BY <2>s, <2>7 DEF RearmTells, Task
  <2>8. CASE RearmDrops
    <3>1. Others(rearm) \in Broadcasts
      BY <2>8, BroadcastsLeft DEF RearmDrops, Task
    <3>2. DOMAIN Seen(Others(rearm), {}) = Task
      BY <3>1 DEF Seen, Broadcasts
    <3>3. \A u \in Task : broadcast'[u] # None => broadcast'[u].set # "listed"
      BY <2>8, <3>1, <3>2, SeenListed DEF RearmDrops
    <3> QED  BY <2>8, <3>3 DEF RearmDrops, TableAgrees
  <2>9. CASE DropNotification \/ Reopen \/ RearmReads
    BY <2>0, <2>9 DEF DropNotification, Reopen, RearmReads, watchVars
  <2>10. CASE WatchStep
    BY <2>1, <2>2, <2>3, <2>4, <2>6, <2>7, <2>8, <2>9, <2>10 DEF WatchStep, Task
  <2> QED
    BY <2>0, <2>10
       DEF Next, Step, JobStep, RerunJob, BreakListener, Watch, watchVars, vars
<1> QED  BY <1>1, <1>2, TypeCorrect, PTL DEF Spec

==============================================================================
