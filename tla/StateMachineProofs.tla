-------------------------- MODULE StateMachineProofs --------------------------
(***************************************************************************)
(* What holds of a state machine job for every declaration, any number of  *)
(* workers and any number of faults: types, that no log is ever replayed   *)
(* against the wrong position, and that the machine implements the         *)
(* specification EventMachine.                                             *)
(*                                                                         *)
(* The argument.  A log has the shape of a turn of the machine at one      *)
(* position (Shape).  What an attempt replays has that shape for the       *)
(* position the attempt began from, and keeps it after the attempt was     *)
(* superseded, because both are its own (Known).  The checkpoints in the   *)
(* database have it for the published position (LogShape): only the owner  *)
(* of the row writes them, and what the owner knows agrees with what is    *)
(* committed (Agrees), also when an acknowledgement was lost.              *)
(* A message is in one place (Places), and its output is in the stream     *)
(* exactly when the checkpoint of the output is in the log (Traced).       *)
(* A lemma per group of actions then shows that the invariant is kept and  *)
(* that the step is one of EventMachine, or unseen there (Promised).       *)
(***************************************************************************)
EXTENDS StateMachine, FunctionTheorems, SequenceTheorems, TLAPS

Pos == IF position = None THEN initial ELSE position

InTurn == {"recv", "timedout", "sleep", "reschedule", "handle", "act", "commit",
           "txnfailed", "stepfailed", "record", "boundary"}
Acting == {"act", "commit", "txnfailed", "stepfailed", "record"}
Waiting == {"recv", "timedout"}

ActionEdge(s, e) == <<s, e>> \in Edge /\ edges[<<s, e>>].action

\* The checkpoints of a turn at s that handles the message L[1].output.
Shape(L, s, events) ==
    /\ L[1].kind # "error"
    /\ L[1].kind = "success" => L[1].name = Call("recv") /\ L[1].output \in 0..Len(events)
    /\ L[1].kind = "absent" => L[2].kind = "absent"
    /\ L[2].kind # "absent" =>
          L[2].name = IF L[1].output = 0 THEN Call("sleep")
                      ELSE <<"step", s, events[L[1].output]>>
    /\ L[3].kind # "absent" => L[3].name = Call("stream") /\ L[1].output # 0
    /\ L[2].kind = "success" /\ L[1].output # 0 => L[3].kind = "success"

LogShape == position \notin final => Shape(steps, Pos, sent)

\* What an attempt at l, which replays R at state s with event e in hand,
\* knows by itself.
Known(l, R, s, e, events) ==
    l \in InTurn =>
        /\ s \notin final
        /\ Shape(R, s, events)
        /\ l = "timedout" => R[1].kind # "success"
        /\ l \notin Waiting /\ R[1].kind = "success" => e = R[1].output
        /\ l \in {"sleep", "reschedule"} => e = 0
        /\ l \in Acting => ActionEdge(s, events[e])
        /\ l = "commit" => R[3].kind # "success"

\* What the owner of the row knows of the position p and the log L.
AgreesAtStart(l, R, s, p, L) ==
    /\ l \in {"run", "enter", "publish"} => R = L
    /\ l = "publish" => s = IF p = None THEN initial ELSE p

AgreesInTurn(l, R, s, e, p, L, events) ==
    l \in InTurn /\ p \notin final =>
        /\ p = s
        /\ l \in {"recv", "timedout", "handle", "act", "commit"} =>
              L[2] = R[2] /\ L[3] = R[3]
        /\ R[1].kind = "success" => L[1] = R[1]
        /\ l = "timedout" => L[1].output = 0
        /\ l \notin Waiting => L[1].kind = "success" /\ L[1].output = e
        /\ l = "record" => L[3].kind = "success"
        /\ l = "boundary" /\ e # 0 /\ ActionEdge(s, events[e]) => L[2].kind = "success"

\* A final position was published and its acknowledgement lost.
AgreesAtEnd(l, s, e, p, events, done) ==
    l \in InTurn /\ p \in final =>
        /\ l = "boundary" /\ e \in done
        /\ <<s, events[e]>> \in Edge /\ p = edges[<<s, events[e]>>].target

Agrees(l, R, s, e, p, L, events, done) ==
    /\ AgreesAtStart(l, R, s, p, L)
    /\ AgreesInTurn(l, R, s, e, p, L, events)
    /\ AgreesAtEnd(l, s, e, p, events, done)

Row ==
    /\ adrift = 0
    /\ state = "running" <=> owner # None
    /\ \A w \in Worker : pc[w] = "commit" => owner = w
    /\ position = None => steps[1].kind = "absent"

Places ==
    /\ mailbox \intersect closed = {}
    /\ InHand \notin mailbox \union closed

Traced ==
    /\ \A i \in DOMAIN stream : stream[i] \in closed \union {InHand}
    /\ position \notin final =>
          (steps[3].kind = "success" <=> \E i \in DOMAIN stream : stream[i] = InHand)

Attempts ==
    \A w \in Worker :
        /\ Known(pc[w], replay[w], here[w], event[w], sent)
        /\ owner = w => Agrees(pc[w], replay[w], here[w], event[w],
                               position, steps, sent, closed)

Inv == Row /\ NeverPoisoned /\ LogShape /\ Places /\ Traced /\ Attempts

------------------------------------------------------------------------------
(* Types.                                                                  *)

RowTypes ==
    /\ state \in {"queued", "asleep", "running", "stopped", "finished"}
    /\ owner \in Worker \union {None} /\ due \in BOOLEAN /\ faults \in Nat

\* What a log says was received was sent.
Log == {L \in [Seqs -> Entry \union {Absent}] : L[1].output \in 0..Len(sent)}
LogTypes == position \in State \union {None} /\ steps \in Log /\ stream \in Seq(Nat \ {0})

MailTypes ==
    /\ sent \in Seq(Event) /\ adrift = 0
    /\ mailbox \subseteq 1..Len(sent) /\ closed \subseteq 1..Len(sent)

AttemptTypes ==
    /\ pc \in [Worker -> Location] /\ replay \in [Worker -> Log]
    /\ here \in [Worker -> State] /\ event \in [Worker -> 0..Len(sent)]
    /\ \A w \in Worker : pc[w] \in Acting \union {"handle"} => event[w] # 0

Types == RowTypes /\ LogTypes /\ MailTypes /\ AttemptTypes

LEMMA TypesImplyTypeOK == Types => TypeOK
BY DEF Types, TypeOK, RowTypes, LogTypes, MailTypes, AttemptTypes, Log

LEMMA LogUnchanged == sent' = sent => Log' = Log
BY DEF Log

LEMMA EmptyLogType == MailTypes => EmptyLog \in Log
BY DEF EmptyLog, Absent, Seqs, Log, MailTypes

LEMMA SuccessFields ==
    ASSUME NEW name, NEW output
    PROVE  LET entry == Success(name, output)
           IN  entry.name = name /\ entry.output = output /\ entry.kind = "success"
BY DEF Success

LEMMA FailureFields ==
    ASSUME NEW name
    PROVE  Failure(name).name = name /\ Failure(name).output = 0
           /\ Failure(name).kind = "error"
BY DEF Failure

LEMMA Entries ==
    /\ \A n \in Nat : /\ Success(Call("recv"), n) \in Entry
                      /\ Success(Call("sleep"), n) \in Entry
                      /\ Success(Call("stream"), n) \in Entry
    /\ Failure(Call("stream")) \in Entry
    /\ 1 \in Seqs /\ 2 \in Seqs /\ 3 \in Seqs
BY DEF Success, Failure, Call, Entry, Name, Seqs

\* A write puts its entry in place, unless it is an error and the log has a
\* success there, and touches nothing else.
LEMMA Written ==
    ASSUME NEW seq \in Seqs, NEW entry \in Entry, steps \in Log,
           Write(seq, entry), sent' = sent,
           seq = 1 => entry.output \in 0..Len(sent)
    PROVE  /\ steps' \in Log
           /\ steps'[seq] = Recorded(steps[seq], entry)
           /\ \A i \in Seqs : i # seq => steps'[i] = steps[i]
BY DEF Write, Recorded, Seqs, Log

LEMMA WriteTypes ==
    ASSUME LogTypes, MailTypes, sent' = sent, Len(sent) \in Nat
    PROVE  /\ \A n \in 0..Len(sent) : Write(1, Success(Call("recv"), n)) => steps' \in Log
           /\ Write(2, Success(Call("sleep"), 0)) => steps' \in Log
           /\ \A n \in Nat : Write(3, Success(Call("stream"), n)) => steps' \in Log
           /\ Write(3, Failure(Call("stream"))) => steps' \in Log
           /\ \A entry \in Entry : Write(2, entry) => steps' \in Log
<1>1. steps \in Log
  BY DEF LogTypes
<1>2. \A n \in 0..Len(sent) : Write(1, Success(Call("recv"), n)) => steps' \in Log
  BY <1>1, Written, Entries, SuccessFields
<1>3. \A n \in Nat : Write(3, Success(Call("stream"), n)) => steps' \in Log
  BY <1>1, Written, Entries
<1>4. \A entry \in Entry : Write(2, entry) => steps' \in Log
  BY <1>1, Written, Entries
<1>5. Write(3, Failure(Call("stream"))) => steps' \in Log
  BY <1>1, Written, Entries
<1> QED
  BY <1>2, <1>3, <1>4, <1>5, Entries

LEMMA ClosedType ==
    ASSUME AttemptTypes, MailTypes, sent' = sent, NEW w \in Worker, Closed(w)
    PROVE  closed' \subseteq 1..Len(sent)
<1>1. Len(sent) \in Nat /\ event[w] \in 0..Len(sent) /\ closed \subseteq 1..Len(sent)
  BY DEF AttemptTypes, MailTypes
<1>2. {event[w]} \ {0} \subseteq 1..Len(sent)
  BY <1>1
<1>3. closed' = closed \union ({event[w]} \ {0})
  BY DEF Closed
<1> QED
  BY <1>1, <1>2, <1>3

LEMMA TargetType ==
    ASSUME AttemptTypes, MailTypes, NEW w \in Worker
    PROVE  Target(w) \in State
BY DeclarationAssumption DEF AttemptTypes, MailTypes, Target, Taken, Edge

LEMMA StepNames ==
    ASSUME AttemptTypes, MailTypes, NEW w \in Worker, event[w] # 0
    PROVE  /\ Success(StepName(w), 0) \in Entry
           /\ Failure(StepName(w)) \in Entry
<1>1. sent[event[w]] \in Event /\ here[w] \in State
  BY DEF AttemptTypes, MailTypes
<1>2. StepName(w) = <<"step", here[w], sent[event[w]]>>
  BY DEF StepName
<1>3. StepName(w) \in Name
  BY <1>1, <1>2 DEF Name
<1> QED
  BY <1>3 DEF Success, Failure, Entry

LEMMA ThenTypes ==
    ASSUME AttemptTypes, sent' = sent, NEW w \in Worker, NEW l \in Location, Then(w, l),
           l \in Acting \union {"handle"} => event[w] # 0
    PROVE  AttemptTypes'
BY LogUnchanged DEF AttemptTypes, Then, Goto

LEMMA ReceivedTypes ==
    ASSUME AttemptTypes, sent' = sent, NEW w \in Worker, NEW m \in 0..Len(sent),
           Received(w, m)
    PROVE  AttemptTypes'
BY LogUnchanged DEF AttemptTypes, Received, Goto, Location, Acting

LEMMA UnwindTypes ==
    ASSUME AttemptTypes, MailTypes, sent' = sent, NEW w \in Worker, Unwind(w)
    PROVE  AttemptTypes'
BY LogUnchanged, EmptyLogType, DeclarationAssumption
   DEF AttemptTypes, MailTypes, Unwind, Goto, Location, Acting

LEMMA SameAttempt ==
    ASSUME AttemptTypes, sent' = sent, UNCHANGED attempt
    PROVE  AttemptTypes'
BY LogUnchanged DEF AttemptTypes, attempt

LEMMA TypesOfAStep ==
    ASSUME Types, NEW w \in Worker, Step(w)
    PROVE  Types'
<1>1. RowTypes /\ LogTypes /\ MailTypes /\ AttemptTypes
  BY DEF Types
<1>2. /\ Len(sent) \in Nat /\ steps[1].output \in 0..Len(sent)
      /\ replay[w][1].output \in 0..Len(sent)
  BY <1>1 DEF LogTypes, MailTypes, AttemptTypes, Log
<1>4. /\ event[w] \in 0..Len(sent) /\ here[w] \in State
      /\ pc[w] \in Acting \union {"handle"} => event[w] # 0
  BY <1>1 DEF AttemptTypes
<1>3. sent' = sent => Log' = Log
  BY LogUnchanged
<1>Load. CASE Load(w)
  <2>1. AttemptTypes'
    BY <1>1, <1>2, <1>4, <1>Load, LogUnchanged DEF Load, Location, Acting, AttemptTypes, Goto, LogTypes, log, mail
  <2>2. RowTypes' /\ LogTypes' /\ MailTypes'
    BY <1>1, <1>2, <1>3, <1>4, <1>Load DEF Load, RowTypes, LogTypes, MailTypes, row, log, mail, Fault
  <2> QED
    BY <2>1, <2>2 DEF Types
<1>Run. CASE Run(w)
  <2>1. AttemptTypes'
    BY <1>1, <1>2, <1>4, <1>Run, LogUnchanged DEF Run, Location, Acting, AttemptTypes, Goto, log, mail
  <2>2. RowTypes' /\ LogTypes' /\ MailTypes'
    BY <1>1, <1>2, <1>3, <1>4, <1>Run DEF Run, RowTypes, LogTypes, MailTypes, row, log, mail, Fault
  <2> QED
    BY <2>1, <2>2 DEF Types
<1>current_state. CASE current_state(w)
  <2>1. AttemptTypes'
    BY <1>1, <1>2, <1>4, <1>current_state, LogUnchanged, DeclarationAssumption DEF current_state, Location, Acting, AttemptTypes, Goto, LogTypes, log, mail
  <2>2. RowTypes' /\ LogTypes' /\ MailTypes'
    BY <1>1, <1>2, <1>3, <1>4, <1>current_state DEF current_state, RowTypes, LogTypes, MailTypes, row, log, mail, Fault
  <2> QED
    BY <2>1, <2>2 DEF Types
<1>Publish. CASE Publish(w)
  <2>1. AttemptTypes'
    BY <1>1, <1>2, <1>4, <1>Publish, ThenTypes, SameAttempt DEF Publish, Location, Acting, Answered, log, mail
  <2>2. RowTypes' /\ LogTypes' /\ MailTypes'
    BY <1>1, <1>2, <1>3, <1>4, <1>Publish DEF Publish, RowTypes, LogTypes, MailTypes, Answered, AttemptTypes, row, log, mail, Fault
  <2> QED
    BY <2>1, <2>2 DEF Types
<1>RecvReplayed. CASE RecvReplayed(w)
  <2>1. AttemptTypes'
    BY <1>1, <1>2, <1>4, <1>RecvReplayed, ThenTypes, ReceivedTypes DEF RecvReplayed, Location, Acting, log, mail
  <2>2. RowTypes' /\ LogTypes' /\ MailTypes'
    BY <1>1, <1>2, <1>3, <1>4, <1>RecvReplayed DEF RecvReplayed, RowTypes, LogTypes, MailTypes, row, log, mail, Fault
  <2> QED
    BY <2>1, <2>2 DEF Types
<1>RecvPrior. CASE RecvPrior(w)
  <2>1. AttemptTypes'
    BY <1>1, <1>2, <1>4, <1>RecvPrior, ReceivedTypes, SameAttempt DEF RecvPrior, Location, Acting, Answered, log, mail
  <2>2. RowTypes' /\ LogTypes' /\ MailTypes'
    BY <1>1, <1>2, <1>3, <1>4, <1>RecvPrior DEF RecvPrior, RowTypes, LogTypes, MailTypes, Answered, row, log, mail, Fault
  <2> QED
    BY <2>1, <2>2 DEF Types
<1>RecvEmpty. CASE RecvEmpty(w)
  <2>1. AttemptTypes'
    BY <1>1, <1>2, <1>4, <1>RecvEmpty, ThenTypes, SameAttempt DEF RecvEmpty, Location, Acting, log, mail
  <2>2. RowTypes' /\ LogTypes' /\ MailTypes'
    BY <1>1, <1>2, <1>3, <1>4, <1>RecvEmpty DEF RecvEmpty, RowTypes, LogTypes, MailTypes, row, log, mail, Fault
  <2> QED
    BY <2>1, <2>2 DEF Types
<1>RecvTimedOut. CASE RecvTimedOut(w)
  <2>1. AttemptTypes'
    BY <1>1, <1>2, <1>4, <1>RecvTimedOut, ReceivedTypes, SameAttempt DEF RecvTimedOut, Location, Acting, Answered, log, mail
  <2>2. RowTypes' /\ LogTypes' /\ MailTypes'
    BY <1>1, <1>2, <1>3, <1>4, <1>RecvTimedOut, WriteTypes DEF RecvTimedOut, RowTypes, LogTypes, MailTypes, Answered, Settled, row, log, mail, Fault
  <2> QED
    BY <2>1, <2>2 DEF Types
<1>Sleep. CASE Sleep(w)
  <2>1. AttemptTypes'
    BY <1>1, <1>2, <1>4, <1>Sleep, ThenTypes, SameAttempt DEF Sleep, Location, Acting, Answered, log, mail
  <2>a. due' = FALSE /\ faults' \in Nat /\ state' = state /\ owner' = owner
    BY <1>1, <1>Sleep DEF Sleep, RowTypes, Answered, row, Fault
  <2>2. RowTypes'
    BY <1>1, <2>a, Zenon DEF RowTypes
  <2>3. LogTypes'
    BY <1>1, <1>2, <1>3, <1>4, <1>Sleep, WriteTypes DEF Sleep, LogTypes, Answered, log, mail
  <2>4. MailTypes'
    BY <1>1, <1>2, <1>3, <1>4, <1>Sleep, WriteTypes DEF Sleep, MailTypes, Answered, mail
  <2> QED
    BY <2>1, <2>2, <2>3, <2>4 DEF Types
<1>SleepReplayed. CASE SleepReplayed(w)
  <2>1. AttemptTypes'
    BY <1>1, <1>2, <1>4, <1>SleepReplayed, ThenTypes, SameAttempt DEF SleepReplayed, Location, Acting, log, mail
  <2>2. RowTypes' /\ LogTypes' /\ MailTypes'
    BY <1>1, <1>2, <1>3, <1>4, <1>SleepReplayed DEF SleepReplayed, RowTypes, LogTypes, MailTypes, row, log, mail, Fault
  <2> QED
    BY <2>1, <2>2 DEF Types
<1>Reschedule. CASE Reschedule(w)
  <2>1. AttemptTypes'
    BY <1>1, <1>2, <1>4, <1>Reschedule, UnwindTypes, SameAttempt DEF Reschedule, Location, Acting, Answered, log, mail
  <2>2. RowTypes' /\ LogTypes' /\ MailTypes'
    BY <1>1, <1>2, <1>3, <1>4, <1>Reschedule, WorkerAssumption DEF Reschedule, RowTypes, LogTypes, MailTypes, Leave, Answered, row, log, mail, Fault
  <2> QED
    BY <2>1, <2>2 DEF Types
<1>Handle. CASE Handle(w)
  <2>1. AttemptTypes'
    BY <1>1, <1>2, <1>4, <1>Handle, ThenTypes, SameAttempt DEF Handle, Location, Acting, log, mail
  <2>2. RowTypes' /\ LogTypes' /\ MailTypes'
    BY <1>1, <1>2, <1>3, <1>4, <1>Handle DEF Handle, RowTypes, LogTypes, MailTypes, row, log, mail, Fault
  <2> QED
    BY <2>1, <2>2 DEF Types
<1>ActReplayed. CASE ActReplayed(w)
  <2>1. AttemptTypes'
    BY <1>1, <1>2, <1>4, <1>ActReplayed, ThenTypes, SameAttempt DEF ActReplayed, Location, Acting, log, mail
  <2>2. RowTypes' /\ LogTypes' /\ MailTypes'
    BY <1>1, <1>2, <1>3, <1>4, <1>ActReplayed DEF ActReplayed, RowTypes, LogTypes, MailTypes, row, log, mail, Fault
  <2> QED
    BY <2>1, <2>2 DEF Types
<1>StreamAppend. CASE StreamAppend(w)
  <2>1. AttemptTypes'
    BY <1>1, <1>2, <1>4, <1>StreamAppend, ThenTypes, SameAttempt DEF StreamAppend, Location, Acting, log, mail
  <2>2. RowTypes' /\ LogTypes' /\ MailTypes'
    BY <1>1, <1>2, <1>3, <1>4, <1>StreamAppend DEF StreamAppend, RowTypes, LogTypes, MailTypes, row, log, mail, Fault
  <2> QED
    BY <2>1, <2>2 DEF Types
<1>Commit. CASE Commit(w)
  <2>1. AttemptTypes'
    BY <1>1, <1>2, <1>4, <1>Commit, ThenTypes, SameAttempt DEF Commit, Location, Acting, log, mail
  <2>2. RowTypes' /\ LogTypes' /\ MailTypes'
    BY <1>1, <1>2, <1>3, <1>4, <1>Commit, WriteTypes DEF Commit, RowTypes, LogTypes, MailTypes, Committed, Acting, row, log, mail, Fault
  <2> QED
    BY <2>1, <2>2 DEF Types
<1>CommitLost. CASE CommitLost(w)
  <2>1. AttemptTypes'
    BY <1>1, <1>2, <1>4, <1>CommitLost, ThenTypes, SameAttempt DEF CommitLost, Location, Acting, log, mail
  <2>2. RowTypes'
    BY <1>1, <1>CommitLost DEF CommitLost, RowTypes, Committed, Acting, row, Fault
  <2>a. sent' = sent /\ position' = position /\ event[w] \in Nat \ {0}
    BY <1>2, <1>4, <1>CommitLost DEF CommitLost, Acting, mail
  <2>b. ASSUME Committed(w) PROVE LogTypes'
    BY <1>1, <1>2, <1>3, <2>a, <2>b, WriteTypes DEF LogTypes, Committed
  <2>c. ASSUME UNCHANGED <<steps, stream>> PROVE LogTypes'
    BY <1>1, <1>3, <2>a, <2>c DEF LogTypes
  <2>3. LogTypes'
    BY <1>CommitLost, <2>b, <2>c DEF CommitLost
  <2>4. MailTypes'
    BY <1>1, <1>2, <1>3, <1>4, <1>CommitLost, WriteTypes DEF CommitLost, MailTypes, Committed, Acting, mail
  <2> QED
    BY <2>1, <2>2, <2>3, <2>4 DEF Types
<1>TransactionFails. CASE TransactionFails(w)
  <2>1. AttemptTypes'
    BY <1>1, <1>2, <1>4, <1>TransactionFails, ThenTypes, SameAttempt DEF TransactionFails, Location, Acting, Answered, log, mail
  <2>2. RowTypes' /\ LogTypes' /\ MailTypes'
    BY <1>1, <1>2, <1>3, <1>4, <1>TransactionFails, WriteTypes DEF TransactionFails, RowTypes, LogTypes, MailTypes, Answered, row, log, mail, Fault
  <2> QED
    BY <2>1, <2>2 DEF Types
<1>ActionRaises. CASE ActionRaises(w)
  <2>1. AttemptTypes'
    BY <1>1, <1>2, <1>4, <1>ActionRaises, ThenTypes, SameAttempt DEF ActionRaises, Location, Acting, log, mail
  <2>2. RowTypes' /\ LogTypes' /\ MailTypes'
    BY <1>1, <1>2, <1>3, <1>4, <1>ActionRaises DEF ActionRaises, RowTypes, LogTypes, MailTypes, row, log, mail, Fault
  <2> QED
    BY <2>1, <2>2 DEF Types
<1>StepFails. CASE StepFails(w)
  <2>1. AttemptTypes'
    BY <1>1, <1>2, <1>4, <1>StepFails, ThenTypes, SameAttempt DEF StepFails, Location, Acting, Answered, log, mail
  <2>2. RowTypes' /\ LogTypes' /\ MailTypes'
    BY <1>1, <1>2, <1>3, <1>4, <1>StepFails, WriteTypes, StepNames DEF StepFails, RowTypes, LogTypes, MailTypes, Answered, Acting, row, log, mail, Fault
  <2> QED
    BY <2>1, <2>2 DEF Types
<1>RecordStep. CASE RecordStep(w)
  <2>1. AttemptTypes'
    BY <1>1, <1>2, <1>4, <1>RecordStep, ThenTypes, SameAttempt DEF RecordStep, Location, Acting, Answered, log, mail
  <2>2. RowTypes' /\ LogTypes' /\ MailTypes'
    BY <1>1, <1>2, <1>3, <1>4, <1>RecordStep, WriteTypes, StepNames DEF RecordStep, RowTypes, LogTypes, MailTypes, Answered, Acting, row, log, mail, Fault
  <2> QED
    BY <2>1, <2>2 DEF Types
<1>commit_position. CASE commit_position(w)
  <2>1. AttemptTypes'
    BY <1>1, <1>2, <1>4, <1>commit_position, LogUnchanged, EmptyLogType, TargetType DEF commit_position, Location, Acting, AttemptTypes, Goto, log, mail
  <2>2. RowTypes' /\ LogTypes' /\ MailTypes'
    BY <1>1, <1>2, <1>3, <1>4, <1>commit_position, TargetType, EmptyLogType, ClosedType DEF commit_position, RowTypes, LogTypes, MailTypes, PositionCommitted, Acting, row, log, mail, Fault
  <2> QED
    BY <2>1, <2>2 DEF Types
<1>CommitPositionLost. CASE CommitPositionLost(w)
  <2>1. AttemptTypes'
    BY <1>1, <1>2, <1>4, <1>CommitPositionLost, ThenTypes, SameAttempt DEF CommitPositionLost, Location, Acting, log, mail
  <2>2. RowTypes'
    BY <1>1, <1>CommitPositionLost DEF CommitPositionLost, RowTypes, PositionCommitted, Acting, row, Fault
  <2>3. LogTypes'
    BY <1>1, <1>2, <1>3, <1>4, <1>CommitPositionLost, TargetType, EmptyLogType, ClosedType DEF CommitPositionLost, LogTypes, PositionCommitted, Acting, log, mail
  <2>4. MailTypes'
    BY <1>1, <1>2, <1>3, <1>4, <1>CommitPositionLost, TargetType, EmptyLogType, ClosedType DEF CommitPositionLost, MailTypes, PositionCommitted, Acting, mail
  <2> QED
    BY <2>1, <2>2, <2>3, <2>4 DEF Types
<1>PublishFinal. CASE PublishFinal(w)
  <2>1. AttemptTypes'
    BY <1>1, <1>2, <1>4, <1>PublishFinal, ThenTypes, SameAttempt DEF PublishFinal, Location, Acting, Answered, log, mail
  <2>2. RowTypes' /\ LogTypes' /\ MailTypes'
    BY <1>1, <1>2, <1>3, <1>4, <1>PublishFinal, TargetType, ClosedType DEF PublishFinal, RowTypes, LogTypes, MailTypes, Answered, Acting, row, log, mail, Fault
  <2> QED
    BY <2>1, <2>2 DEF Types
<1>Return. CASE Return(w)
  <2>1. AttemptTypes'
    BY <1>1, <1>2, <1>4, <1>Return, UnwindTypes, SameAttempt DEF Return, Location, Acting, Answered, log, mail
  <2>2. RowTypes' /\ LogTypes' /\ MailTypes'
    BY <1>1, <1>2, <1>3, <1>4, <1>Return DEF Return, RowTypes, LogTypes, MailTypes, Leave, Answered, row, log, mail, Fault
  <2> QED
    BY <2>1, <2>2 DEF Types
<1>Fail. CASE Fail(w)
  <2>1. AttemptTypes'
    BY <1>1, <1>2, <1>4, <1>Fail, UnwindTypes, SameAttempt DEF Fail, Location, Acting, Answered, log, mail
  <2>2. RowTypes' /\ LogTypes' /\ MailTypes'
    BY <1>1, <1>2, <1>3, <1>4, <1>Fail DEF Fail, RowTypes, LogTypes, MailTypes, Leave, Answered, row, log, mail, Fault
  <2> QED
    BY <2>1, <2>2 DEF Types
<1>Abandon. CASE Abandon(w)
  <2>1. AttemptTypes'
    BY <1>1, <1>2, <1>4, <1>Abandon, UnwindTypes DEF Abandon, Location, Acting, log, mail
  <2>2. RowTypes' /\ LogTypes' /\ MailTypes'
    BY <1>1, <1>2, <1>3, <1>4, <1>Abandon DEF Abandon, RowTypes, LogTypes, MailTypes, row, log, mail, Fault
  <2> QED
    BY <2>1, <2>2 DEF Types
<1>RecvConsume. CASE \E m \in mailbox : RecvConsume(w, m)
  <2> PICK m \in mailbox : RecvConsume(w, m)
    BY <1>RecvConsume
  <2>1. AttemptTypes'
    BY <1>1, <1>2, ReceivedTypes, SameAttempt DEF RecvConsume, Answered, MailTypes
  <2>2. RowTypes' /\ LogTypes' /\ MailTypes'
    BY <1>1, <1>2, <1>3, WriteTypes DEF RecvConsume, Settled, Answered, RowTypes, LogTypes, MailTypes, row, log, mail, Fault
  <2> QED
    BY <2>1, <2>2 DEF Types
<1> QED
  BY <1>Load, <1>Run, <1>current_state, <1>Publish, <1>RecvReplayed, <1>RecvPrior, <1>RecvEmpty, <1>RecvTimedOut, <1>Sleep, <1>SleepReplayed, <1>Reschedule, <1>Handle, <1>ActReplayed, <1>StreamAppend, <1>Commit, <1>CommitLost, <1>TransactionFails, <1>ActionRaises, <1>StepFails, <1>RecordStep, <1>commit_position, <1>CommitPositionLost, <1>PublishFinal, <1>Return, <1>Fail, <1>Abandon, <1>RecvConsume DEF Step

LEMMA TypesOfSend ==
    ASSUME Types, NEW e \in Event, Send(e)
    PROVE  Types'
<1>1. RowTypes /\ LogTypes /\ MailTypes /\ AttemptTypes /\ Len(sent) \in Nat
  BY DEF Types, MailTypes
<1>2. /\ sent' \in Seq(Event) /\ Len(sent') = Len(sent) + 1
      /\ mailbox' = mailbox \union {Len(sent')}
  BY <1>1 DEF Send, MailTypes
<1>3. 0..Len(sent) \subseteq 0..Len(sent') /\ 1..Len(sent) \subseteq 1..Len(sent')
  BY <1>1, <1>2
<1>4. \A L \in Log : L \in Log'
  BY <1>3 DEF Log
<1>5. RowTypes'
  BY <1>1 DEF Send, RowTypes, row
<1>6. LogTypes'
  BY <1>1, <1>4 DEF Send, LogTypes, log
<1>7. MailTypes'
  <2>1. Len(sent') \in 1..Len(sent')
    BY <1>1, <1>2
  <2>2. closed' = closed /\ adrift' = adrift
    BY DEF Send
  <2> QED
    BY <1>1, <1>2, <1>3, <2>1, <2>2 DEF MailTypes
<1>8. AttemptTypes'
  BY <1>1, <1>3, <1>4 DEF Send, AttemptTypes, attempt
<1> QED
  BY <1>5, <1>6, <1>7, <1>8 DEF Types

LEMMA TypesOfOthers ==
    ASSUME Types,
           \/ \E w \in Worker : Claim(w) \/ Crash(w)
           \/ Elapse \/ Supersede \/ Cancel \/ Resume \/ Rerun
           \/ UNCHANGED vars
    PROVE  Types'
<1>1. RowTypes /\ LogTypes /\ MailTypes /\ AttemptTypes /\ Len(sent) \in Nat
  BY DEF Types, MailTypes
<1>2. sent' = sent => Log' = Log
  BY LogUnchanged
<1>3. ASSUME NEW w \in Worker, Claim(w) PROVE Types'
  <2>1. AttemptTypes'
    BY <1>1, <1>2, <1>3 DEF Claim, AttemptTypes, Goto, Location, Acting, mail
  <2>2. RowTypes' /\ LogTypes' /\ MailTypes'
    BY <1>1, <1>2, <1>3 DEF Claim, RowTypes, LogTypes, MailTypes, log, mail
  <2> QED
    BY <2>1, <2>2 DEF Types
<1>4. ASSUME NEW w \in Worker, Crash(w) PROVE Types'
  <2>1. AttemptTypes'
    BY <1>1, <1>2, <1>4, UnwindTypes DEF Crash, mail
  <2>2. RowTypes' /\ LogTypes' /\ MailTypes'
    BY <1>1, <1>2, <1>4 DEF Crash, RowTypes, LogTypes, MailTypes, row, log, mail, Fault
  <2> QED
    BY <2>1, <2>2 DEF Types
<1>5. ASSUME Rerun PROVE Types'
  <2>1. AttemptTypes'
    BY <1>1, <1>5, SameAttempt DEF Rerun, mail
  <2>2. RowTypes' /\ LogTypes'
    BY <1>1, <1>2, <1>5, EmptyLogType DEF Rerun, RowTypes, LogTypes, mail
  <2>3. InHand \in 0..Len(sent)
    BY <1>1 DEF InHand, LogTypes, Log
  <2>4. {InHand} \ {0} \subseteq 1..Len(sent)
    BY <1>1, <2>3
  <2>5. MailTypes'
    BY <1>1, <1>5, <2>4 DEF Rerun, MailTypes, mail
  <2> QED
    BY <2>1, <2>2, <2>5 DEF Types
<1>6. ASSUME Elapse \/ Supersede \/ Cancel \/ Resume \/ UNCHANGED vars PROVE Types'
  <2>1. AttemptTypes' /\ LogTypes' /\ MailTypes'
    BY <1>1, <1>2, <1>6, SameAttempt
    DEF Elapse, Supersede, Cancel, Resume, vars, LogTypes, MailTypes, log, mail
  <2>2. CASE Elapse
    <3>1. due' = TRUE /\ owner' = owner /\ faults' = faults /\ state' \in {state, "queued"}
      BY <2>2 DEF Elapse
    <3> QED
      BY <1>1, <2>1, <3>1, Zenon DEF Types, RowTypes
  <2>3. CASE Supersede \/ Cancel \/ Resume \/ UNCHANGED vars
    BY <1>1, <2>1, <2>3
    DEF Types, RowTypes, Supersede, Leave, Fault, Cancel, Resume, vars, row
  <2> QED
    BY <1>6, <2>2, <2>3
<1> QED
  BY <1>3, <1>4, <1>5, <1>6

LEMMA TypesInitial == Init => Types
<1> SUFFICES ASSUME Init PROVE Types
  OBVIOUS
<1>1. RowTypes
  BY Zenon DEF Init, RowTypes
<1>2. MailTypes /\ Len(sent) = 0
  BY DEF Init, MailTypes
<1>3. LogTypes
  BY <1>2, EmptyLogType DEF Init, LogTypes
<1>4. AttemptTypes
  BY <1>2, EmptyLogType, DeclarationAssumption
  DEF Init, AttemptTypes, Location, Acting
<1> QED
  BY <1>1, <1>2, <1>3, <1>4 DEF Types

LEMMA TypesAlways == Spec => []Types
<1>1. Types /\ [Next]_vars => Types'
  BY TypesOfAStep, TypesOfSend, TypesOfOthers DEF Next
<1> QED
  BY TypesInitial, <1>1, PTL DEF Spec

\* Every variable has its type in every reachable state.
THEOREM TypeCorrect == Spec => []TypeOK
BY TypesAlways, TypesImplyTypeOK, PTL

------------------------------------------------------------------------------
(* The invariant.  Frames: what a step of one worker leaves to prove.      *)

\* The attempt of w is at l, replays R, at state s, with e in hand; the
\* others are where they were.
Moves(w, l, R, s, e) ==
    /\ pc'[w] = l /\ replay'[w] = R /\ here'[w] = s /\ event'[w] = e
    /\ \A v \in Worker \ {w} :
          /\ pc'[v] = pc[v] /\ replay'[v] = replay[v]
          /\ here'[v] = here[v] /\ event'[v] = event[v]

LEMMA Movement ==
    ASSUME AttemptTypes, NEW w \in Worker
    PROVE  /\ \A l : Then(w, l) => Moves(w, l, replay[w], here[w], event[w])
           /\ \A m : Received(w, m) =>
                 Moves(w, IF m = 0 THEN "sleep" ELSE "handle", replay[w], here[w], m)
           /\ Unwind(w) => Moves(w, "idle", EmptyLog, initial, 0)
           /\ UNCHANGED attempt => Moves(w, pc[w], replay[w], here[w], event[w])
BY DEF AttemptTypes, Then, Received, Unwind, Goto, attempt, Moves

\* What a step is to those who send events: a step of the abstract machine, or
\* nothing they see.
Promised == [Promise!Next]_(Promise!vars)

LEMMA Unseen ==
    UNCHANGED <<Pos, InHand>> /\ UNCHANGED <<sent, mailbox, closed, stream>> => Promised
BY DEF Promised, Promise!vars, Pos

LEMMA Quiet == UNCHANGED <<log, mail, closed>> => Promised
<1> SUFFICES ASSUME UNCHANGED <<log, mail, closed>> PROVE Promised
  OBVIOUS
<1>1. /\ position' = position /\ steps' = steps /\ stream' = stream /\ sent' = sent
      /\ mailbox' = mailbox /\ closed' = closed
  BY DEF log, mail
<1>2. UNCHANGED <<Pos, InHand>>
  BY <1>1 DEF Pos, InHand
<1> QED
  BY <1>1, <1>2, Unseen

LEMMA EntryFacts ==
    ASSUME NEW L \in Log, NEW i \in Seqs
    PROVE  /\ L[i].kind \in {"success", "error", "absent"}
           /\ L[i].kind = "absent" => L[i].output = 0
           /\ L[i].output \in Nat
BY DEF Log, Entry, Absent

\* A step that only moves the attempt of w.
LEMMA PrivateStep ==
    ASSUME Types, Inv, UNCHANGED <<row, log, mail, closed>>,
           NEW w \in Worker, NEW l, NEW R, NEW s, NEW e, Moves(w, l, R, s, e),
           l # "nondet", l = "commit" => owner = w,
           Known(l, R, s, e, sent),
           owner = w => Agrees(l, R, s, e, position, steps, sent, closed)
    PROVE  Inv' /\ Promised
<1>1. /\ state' = state /\ owner' = owner /\ position' = position /\ steps' = steps
      /\ stream' = stream /\ sent' = sent /\ mailbox' = mailbox /\ adrift' = adrift
      /\ closed' = closed
  BY DEF row, log, mail
<1>2. LogShape' /\ Places' /\ Traced'
  BY <1>1 DEF Inv, LogShape, Places, Traced, Pos, InHand
<1>3. Row' /\ NeverPoisoned'
  BY <1>1 DEF Inv, Row, NeverPoisoned, Moves
<1>4. Attempts'
  BY <1>1 DEF Inv, Attempts, Moves
<1> QED
  BY <1>2, <1>3, <1>4, Quiet DEF Inv

\* A write of the owner of the row.
LEMMA OwnersStep ==
    ASSUME Types, Inv, UNCHANGED <<row, sent>>, adrift' = 0,
           NEW w \in Worker, owner = w,
           NEW l, NEW R, NEW s, NEW e, Moves(w, l, R, s, e),
           l # "nondet", Known(l, R, s, e, sent),
           Agrees(l, R, s, e, position', steps', sent, closed'),
           position' = None => steps'[1].kind = "absent",
           LogShape', Places', Traced'
    PROVE  Inv'
<1>1. state' = state /\ owner' = owner /\ sent' = sent
  BY DEF row
<1>2. Row' /\ NeverPoisoned'
  BY <1>1 DEF Inv, Row, NeverPoisoned, Moves
<1>3. Attempts'
  BY <1>1 DEF Inv, Attempts, Moves
<1> QED
  BY <1>2, <1>3 DEF Inv

\* The same, when the acknowledgement may be lost and the attempt stay.
LEMMA AnsweredStep ==
    ASSUME Types, Inv, UNCHANGED <<row, sent>>, adrift' = 0,
           NEW w \in Worker, owner = w,
           NEW l, NEW R, NEW s, NEW e,
           Moves(w, l, R, s, e) \/ UNCHANGED attempt,
           l # "nondet", Known(l, R, s, e, sent),
           Agrees(l, R, s, e, position', steps', sent, closed'),
           Agrees(pc[w], replay[w], here[w], event[w], position', steps', sent, closed'),
           position' = None => steps'[1].kind = "absent",
           LogShape', Places', Traced'
    PROVE  Inv'
<1>1. CASE Moves(w, l, R, s, e)
  BY <1>1, OwnersStep
<1>2. CASE UNCHANGED attempt
  <2>1. Moves(w, pc[w], replay[w], here[w], event[w])
    BY <1>2, Movement DEF Types
  <2>2. pc[w] # "nondet" /\ Known(pc[w], replay[w], here[w], event[w], sent)
    BY DEF Inv, NeverPoisoned, Attempts
  <2> QED
    BY <2>1, <2>2, OwnersStep
<1> QED
  BY <1>1, <1>2

\* The row is left: its owner's attempt ends, or is superseded.
LEMMA LeavingStep ==
    ASSUME Types, Inv, UNCHANGED <<log, mail, closed>>, Unlocked,
           NEW s, s # "running", Leave(s),
           UNCHANGED attempt \/ \E w \in Worker : Unwind(w)
    PROVE  Inv' /\ Promised
<1>1. /\ state' = s /\ owner' = None /\ position' = position /\ steps' = steps
      /\ stream' = stream /\ sent' = sent /\ mailbox' = mailbox /\ adrift' = adrift
      /\ closed' = closed
  BY DEF Leave, log, mail
<1>2. LogShape' /\ Places' /\ Traced'
  BY <1>1 DEF Inv, LogShape, Places, Traced, Pos, InHand
<1>3. \A v \in Worker : pc[v] # "commit" /\ owner' # v
  BY <1>1, WorkerAssumption DEF Inv, Row, Unlocked
<1>4. CASE UNCHANGED attempt
  BY <1>1, <1>2, <1>3, <1>4, Quiet DEF Inv, Row, NeverPoisoned, Attempts, attempt
<1>5. ASSUME NEW w \in Worker, Unwind(w) PROVE Inv' /\ Promised
  <2>1. Moves(w, "idle", EmptyLog, initial, 0)
    BY <1>5, Movement DEF Types
  <2>2. Known("idle", EmptyLog, initial, 0, sent)
    BY DEF Known, InTurn
  <2>3. Row' /\ NeverPoisoned'
    BY <1>1, <1>3, <2>1 DEF Inv, Row, NeverPoisoned, Moves
  <2>4. Attempts'
    BY <1>1, <1>3, <2>1, <2>2 DEF Inv, Attempts, Moves
  <2> QED
    BY <1>2, <2>3, <2>4, Quiet DEF Inv
<1> QED
  BY <1>4, <1>5

------------------------------------------------------------------------------
(* The invariant, one lemma per group of actions.                          *)

LEMMA Facts ==
    ASSUME Types, Inv, NEW w \in Worker
    PROVE  /\ AttemptTypes /\ MailTypes /\ LogTypes
           /\ steps \in Log /\ replay[w] \in Log
           /\ event[w] \in 0..Len(sent) /\ here[w] \in State /\ Len(sent) \in Nat
           /\ Known(pc[w], replay[w], here[w], event[w], sent)
           /\ owner = w => Agrees(pc[w], replay[w], here[w], event[w],
                                  position, steps, sent, closed)
           /\ pc[w] \in Acting \union {"handle"} => event[w] # 0
<1>1. AttemptTypes /\ MailTypes /\ LogTypes
  BY DEF Types
<1> QED
  BY <1>1 DEF AttemptTypes, MailTypes, LogTypes, Inv, Attempts

LEMMA Starts ==
    ASSUME Types, Inv, NEW w \in Worker, Load(w) \/ Run(w) \/ current_state(w)
    PROVE  Inv' /\ Promised
<1> USE Facts
<1> DEFINE s == IF position = None THEN initial ELSE position
<1>1. CASE Load(w)
  <2>1. Moves(w, "run", steps, here[w], event[w])
    BY <1>1 DEF Load, Goto, AttemptTypes, Moves
  <2>2. Known("run", steps, here[w], event[w], sent)
    BY DEF Known, InTurn
  <2>3. owner = w => Agrees("run", steps, here[w], event[w], position, steps, sent, closed)
    BY <1>1 DEF Load, Agrees, AgreesAtStart, AgreesInTurn, AgreesAtEnd, InTurn
  <2> QED
    BY <1>1, <2>1, <2>2, <2>3, PrivateStep DEF Load
<1>2. CASE Run(w)
  <2>1. Moves(w, "enter", replay[w], here[w], event[w])
    BY <1>2 DEF Run, Goto, AttemptTypes, Moves
  <2>2. Known("enter", replay[w], here[w], event[w], sent)
    BY DEF Known, InTurn
  <2>3. owner = w => Agrees("enter", replay[w], here[w], event[w], position, steps, sent, closed)
    BY <1>2 DEF Run, Agrees, AgreesAtStart, AgreesInTurn, AgreesAtEnd, InTurn
  <2> QED
    BY <1>2, <2>1, <2>2, <2>3, PrivateStep DEF Run
<1>3. CASE current_state(w)
  <2>1. Moves(w, "publish", replay[w], s, event[w])
    BY <1>3 DEF current_state, Goto, AttemptTypes, Moves
  <2>2. Known("publish", replay[w], s, event[w], sent)
    BY DEF Known, InTurn
  <2>3. owner = w => Agrees("publish", replay[w], s, event[w], position, steps, sent, closed)
    BY <1>3 DEF current_state, Agrees, AgreesAtStart, AgreesInTurn, AgreesAtEnd, InTurn
  <2> QED
    BY <1>3, <2>1, <2>2, <2>3, PrivateStep DEF current_state
<1> QED
  BY <1>1, <1>2, <1>3

LEMMA Replayings ==
    ASSUME Types, Inv, NEW w \in Worker,
           RecvReplayed(w) \/ SleepReplayed(w) \/ Handle(w) \/ ActReplayed(w)
    PROVE  Inv' /\ Promised
<1> USE Facts
<1>1. \A i \in Seqs : replay[w][i].kind \in {"success", "error", "absent"}
  BY EntryFacts
<1>2. 1 \in Seqs /\ 2 \in Seqs /\ 3 \in Seqs
  BY Entries
<1>3. CASE RecvReplayed(w)
  <2>1. /\ pc[w] = "recv" /\ replay[w][1].kind = "success"
        /\ UNCHANGED <<row, log, mail, closed>>
    BY <1>3 DEF RecvReplayed, Replays
  <2>2. Received(w, replay[w][1].output)
    BY <1>3, <2>1 DEF RecvReplayed, Mismatch, Known, InTurn, Shape
  <2>3. Moves(w, IF replay[w][1].output = 0 THEN "sleep" ELSE "handle",
              replay[w], here[w], replay[w][1].output)
    BY <2>2, Movement
  <2>4. Known(IF replay[w][1].output = 0 THEN "sleep" ELSE "handle", replay[w], here[w], replay[w][1].output, sent)
    BY <2>1, <2>3 DEF Known, InTurn, Acting, Waiting
  <2>5. owner = w =>
        Agrees(IF replay[w][1].output = 0 THEN "sleep" ELSE "handle", replay[w], here[w], replay[w][1].output, position, steps, sent, closed)
    BY <2>1, <2>3 DEF Known, Agrees, AgreesAtStart, AgreesInTurn, AgreesAtEnd,
       InTurn, Acting, Waiting
  <2> QED
    BY <2>1, <2>3, <2>4, <2>5, PrivateStep
<1>4. CASE SleepReplayed(w)
  <2>1. /\ pc[w] = "sleep" /\ replay[w][2].kind # "absent"
        /\ UNCHANGED <<row, log, mail, closed>>
    BY <1>4 DEF SleepReplayed
  <2>2. replay[w][2].name = Call("sleep")
    BY <1>1, <1>2, <2>1 DEF Known, InTurn, Shape, Waiting
  <2>3. \E l \in {"boundary", "reschedule"} : Then(w, l)
    BY <1>4, <2>2 DEF SleepReplayed, Mismatch
  <2>4. PICK l \in {"boundary", "reschedule"} :
            Moves(w, l, replay[w], here[w], event[w])
    BY <2>3, Movement
  <2>5. Known(l, replay[w], here[w], event[w], sent)
    BY <2>1, <2>4 DEF Known, InTurn, Acting, Waiting
  <2>6. owner = w =>
        Agrees(l, replay[w], here[w], event[w], position, steps, sent, closed)
    BY <2>1, <2>4 DEF Known, Agrees, AgreesAtStart, AgreesInTurn, AgreesAtEnd,
       InTurn, Acting, Waiting
  <2> QED
    BY <2>1, <2>4, <2>5, <2>6, PrivateStep
<1>5. CASE Handle(w)
  <2> DEFINE acts == ActionEdge(here[w], sent[event[w]])
  <2>1. /\ pc[w] = "handle" /\ event[w] # 0
        /\ UNCHANGED <<row, log, mail, closed>>
    BY <1>5 DEF Handle
  <2>2. acts => ~Mismatch(w, 2, StepName(w))
    BY <1>1, <1>2, <2>1 DEF Known, InTurn, Shape, Waiting, Mismatch, StepName
  <2>3. \/ ~acts /\ Then(w, "boundary")
        \/ acts /\ replay[w][2].kind = "success" /\ Then(w, "boundary")
        \/ acts /\ Then(w, "act")
    BY <1>5, <2>2 DEF Handle, Replays, ActionEdge, Taken
  <2>4. PICK l \in {"boundary", "act"} :
            /\ Moves(w, l, replay[w], here[w], event[w])
            /\ l = "act" => acts
            /\ l = "boundary" /\ acts => replay[w][2].kind = "success"
    BY <2>3, Movement
  <2>5. Known(l, replay[w], here[w], event[w], sent)
    BY <2>1, <2>4 DEF Known, InTurn, Acting, Waiting
  <2>6. owner = w =>
        Agrees(l, replay[w], here[w], event[w], position, steps, sent, closed)
    BY <2>1, <2>4 DEF Known, Agrees, AgreesAtStart, AgreesInTurn, AgreesAtEnd,
       InTurn, Acting, Waiting
  <2> QED
    BY <2>1, <2>4, <2>5, <2>6, PrivateStep
<1>6. CASE ActReplayed(w)
  <2>1. /\ pc[w] = "act" /\ replay[w][3].kind # "absent"
        /\ UNCHANGED <<row, log, mail, closed>>
    BY <1>6 DEF ActReplayed
  <2>2. ~Mismatch(w, 3, Call("stream"))
    BY <2>1 DEF Known, InTurn, Shape, Mismatch
  <2>3. replay[w][3].kind = "success" /\ Moves(w, "record", replay[w], here[w], event[w])
    BY <1>6, <2>2, Movement DEF ActReplayed, Replays
  <2>4. Known("record", replay[w], here[w], event[w], sent)
    BY <2>1, <2>3 DEF Known, InTurn, Acting, Waiting
  <2>5. owner = w =>
        Agrees("record", replay[w], here[w], event[w], position, steps, sent, closed)
    BY <2>1, <2>3 DEF Known, Agrees, AgreesAtStart, AgreesInTurn, AgreesAtEnd,
       InTurn, Acting, Waiting
  <2> QED
    BY <2>1, <2>3, <2>4, <2>5, PrivateStep
<1> QED
  BY <1>3, <1>4, <1>5, <1>6

LEMMA Privates ==
    ASSUME Types, Inv, NEW w \in Worker,
           \/ RecvEmpty(w) \/ StreamAppend(w) \/ ActionRaises(w)
           \/ Abandon(w) \/ Crash(w)
    PROVE  Inv' /\ Promised
<1> USE Facts
<1>1. CASE RecvEmpty(w)
  <2>1. /\ pc[w] = "recv" /\ replay[w][1].kind # "success" /\ steps[1].kind # "success"
        /\ Moves(w, "timedout", replay[w], here[w], event[w]) /\ owner = w
        /\ UNCHANGED <<row, log, mail, closed>>
    BY <1>1, Movement DEF RecvEmpty, Receiving, Replays, Prior, Owns
  <2>2. position \notin final => steps[1].output = 0
    BY <2>1, Entries, EntryFacts DEF Inv, LogShape, Shape
  <2>3. Known("timedout", replay[w], here[w], event[w], sent)
    BY <2>1, <2>2 DEF Known, InTurn, Acting, Waiting
  <2>4. owner = w =>
        Agrees("timedout", replay[w], here[w], event[w], position, steps, sent, closed)
    BY <2>1, <2>2 DEF Known, Agrees, AgreesAtStart, AgreesInTurn, AgreesAtEnd,
       InTurn, Acting, Waiting
  <2> QED
    BY <2>1, <2>2, <2>3, <2>4, PrivateStep
<1>2. CASE StreamAppend(w)
  <2>1. /\ pc[w] = "act" /\ replay[w][3].kind # "success" /\ owner = w
        /\ Moves(w, "commit", replay[w], here[w], event[w])
        /\ UNCHANGED <<row, log, mail, closed>>
    BY <1>2, Movement DEF StreamAppend, Replays, Owns
  <2>2. Known("commit", replay[w], here[w], event[w], sent)
    BY <2>1 DEF Known, InTurn, Acting, Waiting
  <2>3. owner = w =>
        Agrees("commit", replay[w], here[w], event[w], position, steps, sent, closed)
    BY <2>1 DEF Known, Agrees, AgreesAtStart, AgreesInTurn, AgreesAtEnd,
       InTurn, Acting, Waiting
  <2> QED
    BY <2>1, <2>2, <2>3, PrivateStep
<1>3. CASE ActionRaises(w)
  <2>1. /\ pc[w] \in {"act", "record"}
        /\ Moves(w, "stepfailed", replay[w], here[w], event[w])
        /\ UNCHANGED <<row, log, mail, closed>>
    BY <1>3, Movement DEF ActionRaises
  <2>2. Known("stepfailed", replay[w], here[w], event[w], sent)
    BY <2>1 DEF Known, InTurn, Acting, Waiting
  <2>3. owner = w =>
        Agrees("stepfailed", replay[w], here[w], event[w], position, steps, sent, closed)
    BY <2>1 DEF Known, Agrees, AgreesAtStart, AgreesInTurn, AgreesAtEnd,
       InTurn, Acting, Waiting
  <2> QED
    BY <2>1, <2>2, <2>3, PrivateStep
<1>4. CASE Abandon(w) \/ Crash(w)
  <2>1. Moves(w, "idle", EmptyLog, initial, 0) /\ UNCHANGED <<row, log, mail, closed>>
    BY <1>4, Movement DEF Abandon, Crash
  <2>2. Known("idle", EmptyLog, initial, 0, sent)
    BY <2>1 DEF Known, InTurn, Acting, Waiting
  <2>3. owner = w =>
        Agrees("idle", EmptyLog, initial, 0, position, steps, sent, closed)
    BY <2>1 DEF Known, Agrees, AgreesAtStart, AgreesInTurn, AgreesAtEnd,
       InTurn, Acting, Waiting
  <2> QED
    BY <2>1, <2>2, <2>3, PrivateStep
<1> QED
  BY <1>1, <1>2, <1>3, <1>4

\* The owner, in a turn it has not ended, is where the machine is.
LEMMA OwnersTurn ==
    ASSUME Types, Inv, NEW w \in Worker, owner = w, pc[w] \in InTurn \ {"boundary"}
    PROVE  /\ position \notin final /\ position = here[w] /\ position # None
           /\ Pos = here[w] /\ InHand = steps[1].output
           /\ Shape(steps, here[w], sent)
<1>1. Agrees(pc[w], replay[w], here[w], event[w], position, steps, sent, closed)
  BY Facts
<1>2. position \notin final /\ position = here[w]
  BY <1>1 DEF Agrees, AgreesInTurn, AgreesAtEnd
<1>3. position # None
  BY <1>2, Facts, WorkerAssumption
<1> QED
  BY <1>2, <1>3 DEF Inv, LogShape, Pos, InHand

LEMMA Keeps ==
    ASSUME Inv, UNCHANGED <<position, mailbox, closed>>, steps'[1] = steps[1]
    PROVE  /\ InHand' = InHand /\ Places'
           /\ stream' = stream /\ (steps'[3].kind = "success" <=> steps[3].kind = "success")
                 => Traced'
BY DEF Inv, Places, Traced, InHand

LEMMA RecvPriorKeeps ==
    ASSUME Types, Inv, NEW w \in Worker, RecvPrior(w)
    PROVE  Inv' /\ Promised
<1> DEFINE m == steps[1].output
           l == IF m = 0 THEN "sleep" ELSE "handle"
<1> USE Facts
<1>1. /\ pc[w] = "recv" /\ owner = w /\ replay[w][1].kind # "success"
      /\ steps[1].kind = "success" /\ UNCHANGED <<row, log, mail, closed>>
      /\ Moves(w, l, replay[w], here[w], m) \/ UNCHANGED attempt
  BY Movement DEF RecvPrior, Receiving, Replays, Prior, Owns, Answered
<1>2. position \notin final /\ position = here[w] /\ position # None
  BY <1>1, OwnersTurn DEF InTurn
<1>3. Known(l, replay[w], here[w], m, sent)
  BY <1>1 DEF Known, InTurn, Acting, Waiting
<1>4. Agrees(l, replay[w], here[w], m, position, steps, sent, closed)
  BY <1>1, <1>2 DEF Agrees, AgreesAtStart, AgreesInTurn, AgreesAtEnd, InTurn, Waiting
<1>5. /\ position' = position /\ steps' = steps /\ closed' = closed /\ sent' = sent
      /\ mailbox' = mailbox /\ stream' = stream /\ adrift' = 0
  BY <1>1 DEF log, mail, Inv, Row
<1>6. LogShape' /\ Places' /\ Traced'
  BY <1>5 DEF Inv, LogShape, Places, Traced, Pos, InHand
<1> QED
  BY <1>1, <1>2, <1>3, <1>4, <1>5, <1>6, AnsweredStep, Quiet

LEMMA RecvConsumeKeeps ==
    ASSUME Types, Inv, NEW w \in Worker, NEW m \in mailbox, RecvConsume(w, m)
    PROVE  Inv' /\ Promised
<1> USE Facts
<1>1. /\ pc[w] = "recv" /\ owner = w /\ replay[w][1].kind # "success"
      /\ steps[1].kind # "success" /\ UNCHANGED <<row, position, stream, sent, closed>>
      /\ Write(1, Success(Call("recv"), m)) /\ adrift' = 0
  BY DEF RecvConsume, Receiving, Replays, Prior, Owns
<1>2. m \in 1..Len(sent) /\ adrift = 0 /\ m # 0 /\ 0 \notin mailbox /\ 0 \notin closed
  BY DEF MailTypes
<1>3. mailbox' = mailbox \ {m}
  BY <1>2 DEF RecvConsume, Settled
<1>4. Moves(w, "handle", replay[w], here[w], m) \/ UNCHANGED attempt
  BY <1>2, Movement DEF RecvConsume, Answered
<1>5. /\ position \notin final /\ position = here[w] /\ position # None
      /\ Pos = here[w] /\ InHand = steps[1].output /\ Shape(steps, here[w], sent)
  BY <1>1, OwnersTurn DEF InTurn
<1>6. /\ steps[1].kind = "absent" /\ steps[1].output = 0
      /\ steps[2].kind = "absent" /\ steps[3].kind = "absent"
  <2>1. /\ steps[1].kind = "absent" /\ steps[1].output = 0
        /\ steps[3].kind \in {"success", "error", "absent"}
    BY <1>1, <1>5, EntryFacts, Entries DEF Shape
  <2> QED
    BY <2>1, <1>5 DEF Shape
<1>7. /\ steps'[1] = Success(Call("recv"), m) /\ steps'[2] = steps[2]
      /\ steps'[3] = steps[3]
  BY <1>1, <1>2, Written, Entries, SuccessFields DEF Recorded
<1>8. steps'[1].kind = "success" /\ steps'[1].name = Call("recv") /\ steps'[1].output = m
  BY <1>7, SuccessFields
<1>9. LogShape'
  BY <1>1, <1>2, <1>5, <1>6, <1>7, <1>8 DEF LogShape, Shape, Pos
<1>10. InHand' = m /\ InHand = 0
  BY <1>1, <1>5, <1>6, <1>8 DEF InHand
<1>11. Places'
  BY <1>1, <1>3, <1>10 DEF Inv, Places
<1>12. Traced'
  <2>1. m \notin closed
    BY DEF Inv, Places
  <2>2. \A i \in DOMAIN stream : stream[i] \in closed /\ stream[i] # m
    BY <1>10, <2>1 DEF Inv, Traced, LogTypes
  <2> QED
    BY <1>1, <1>6, <1>7, <1>10, <2>2 DEF Traced
<1>13. Known("handle", replay[w], here[w], m, sent)
  BY <1>1 DEF Known, InTurn, Acting, Waiting
<1>14. Agrees("handle", replay[w], here[w], m, position', steps', sent, closed')
  BY <1>1, <1>5, <1>7, <1>8
  DEF Agrees, AgreesAtStart, AgreesInTurn, AgreesAtEnd, InTurn, Waiting
<1>15. Agrees(pc[w], replay[w], here[w], event[w], position', steps', sent, closed')
  BY <1>1, <1>5, <1>7
  DEF Agrees, AgreesAtStart, AgreesInTurn, AgreesAtEnd, InTurn, Waiting
<1>16. Promise!Take(m)
  <2>1. \A n \in mailbox : m <= n
    BY <1>2 DEF RecvConsume, Oldest
  <2>2. Pos' = Pos
    BY <1>1 DEF Pos
  <2> QED
    BY <1>1, <1>3, <1>5, <1>10, <2>1, <2>2 DEF Promise!Take, Pos
<1>17. Promised
  BY <1>16 DEF Promised, Promise!Next
<1> QED
  BY <1>17, <1>1, <1>4, <1>5, <1>9, <1>11, <1>12, <1>13, <1>14, <1>15, AnsweredStep

LEMMA RecvTimedOutKeeps ==
    ASSUME Types, Inv, NEW w \in Worker, RecvTimedOut(w)
    PROVE  Inv' /\ Promised
<1> USE Facts
<1>1. /\ pc[w] = "timedout" /\ owner = w
      /\ UNCHANGED <<row, position, stream, sent, closed>>
      /\ Write(1, Success(Call("recv"), 0)) /\ adrift' = 0
  BY DEF RecvTimedOut, Owns
<1>2. adrift = 0 /\ 0 \notin mailbox
  BY DEF MailTypes
<1>3. mailbox' = mailbox
  BY <1>2 DEF RecvTimedOut, Settled
<1>4. Moves(w, "sleep", replay[w], here[w], 0) \/ UNCHANGED attempt
  BY Movement DEF RecvTimedOut, Answered
<1>5. /\ position \notin final /\ position = here[w] /\ position # None
      /\ Pos = here[w] /\ InHand = steps[1].output /\ Shape(steps, here[w], sent)
  BY <1>1, OwnersTurn DEF InTurn
<1>6. steps[1].output = 0 /\ replay[w][1].kind # "success"
  BY <1>1, <1>5 DEF Known, Agrees, AgreesInTurn, InTurn
<1>7. /\ steps'[1] = Success(Call("recv"), 0) /\ steps'[2] = steps[2]
      /\ steps'[3] = steps[3]
  BY <1>1, Written, Entries, SuccessFields DEF Recorded
<1>8. steps'[1].kind = "success" /\ steps'[1].name = Call("recv") /\ steps'[1].output = 0
  BY <1>7, SuccessFields
<1>9. LogShape'
  BY <1>1, <1>5, <1>6, <1>7, <1>8 DEF LogShape, Shape, Pos
<1>10. InHand' = 0 /\ InHand = 0
  BY <1>1, <1>5, <1>6, <1>8 DEF InHand
<1>11. Places' /\ Traced'
  BY <1>1, <1>3, <1>7, <1>10 DEF Inv, Places, Traced
<1>13. Known("sleep", replay[w], here[w], 0, sent)
  BY <1>1, <1>6 DEF Known, InTurn, Acting, Waiting
<1>14. Agrees("sleep", replay[w], here[w], 0, position', steps', sent, closed')
  BY <1>1, <1>5, <1>6, <1>7, <1>8
  DEF Agrees, AgreesAtStart, AgreesInTurn, AgreesAtEnd, InTurn, Waiting
<1>15. Agrees(pc[w], replay[w], here[w], event[w], position', steps', sent, closed')
  BY <1>1, <1>5, <1>6, <1>7, <1>8
  DEF Agrees, AgreesAtStart, AgreesInTurn, AgreesAtEnd, InTurn, Waiting
<1>16. Promised
  BY <1>1, <1>3, <1>10, Unseen DEF Pos
<1> QED
  BY <1>16, <1>1, <1>4, <1>5, <1>9, <1>11, <1>13, <1>14, <1>15, AnsweredStep

\* Writes to the second and third entries of the log.
LEMMA LaterWrite ==
    ASSUME Types, Inv, NEW w \in Worker, owner = w, pc[w] \in InTurn \ {"boundary"},
           NEW seq \in {2, 3}, NEW entry \in Entry, Write(seq, entry),
           UNCHANGED <<row, position, mail, closed>>,
           Shape([steps EXCEPT ![seq] = Recorded(@, entry)], here[w], sent),
           NEW l, Moves(w, l, replay[w], here[w], event[w]) \/ UNCHANGED attempt,
           l # "nondet", Known(l, replay[w], here[w], event[w], sent),
           Agrees(l, replay[w], here[w], event[w], position, steps', sent, closed),
           Agrees(pc[w], replay[w], here[w], event[w], position, steps', sent, closed),
           Traced', stream' = stream
    PROVE  Inv' /\ Promised
<1>1. /\ position \notin final /\ position # None /\ Pos = here[w]
  BY OwnersTurn
<1>2. /\ steps' = [steps EXCEPT ![seq] = Recorded(@, entry)] /\ steps'[1] = steps[1]
      /\ position' = position /\ mailbox' = mailbox /\ closed' = closed
      /\ sent' = sent /\ adrift' = 0
  BY DEF Write, Types, LogTypes, Log, Seqs, mail, Inv, Row
<1>3. LogShape' /\ Places'
  BY <1>1, <1>2, Keeps DEF LogShape, Pos
<1>4. Promised
  BY <1>2, Keeps, Unseen DEF Pos
<1> QED
  BY <1>1, <1>2, <1>3, <1>4, AnsweredStep

LEMMA SleepKeeps ==
    ASSUME Types, Inv, NEW w \in Worker, Sleep(w)
    PROVE  Inv' /\ Promised
<1> USE Facts
<1> DEFINE entry == Success(Call("sleep"), 0)
<1>1. /\ pc[w] = "sleep" /\ owner = w /\ Write(2, entry) /\ entry \in Entry
      /\ UNCHANGED <<row, position, stream, mail, closed>>
      /\ Moves(w, "reschedule", replay[w], here[w], event[w]) \/ UNCHANGED attempt
  BY Movement, Entries DEF Sleep, Owns, Answered
<1>2. /\ position \notin final /\ position = here[w] /\ Shape(steps, here[w], sent)
      /\ event[w] = 0 /\ steps[1].kind = "success" /\ steps[1].output = 0
  BY <1>1, OwnersTurn DEF Known, Agrees, AgreesInTurn, InTurn, Waiting
<1>3. entry.kind = "success" /\ entry.name = Call("sleep")
  BY SuccessFields
<1>4. /\ steps' = [steps EXCEPT ![2] = Recorded(@, entry)]
      /\ steps'[1] = steps[1] /\ steps'[2] = entry /\ steps'[3] = steps[3]
  <2> HIDE DEF entry
  <2>1. steps' = [steps EXCEPT ![2] = Recorded(@, entry)]
    BY <1>1 DEF Write
  <2>2. /\ steps'[2] = Recorded(steps[2], entry)
        /\ steps'[1] = steps[1] /\ steps'[3] = steps[3]
    BY <1>1, Written, Entries DEF mail
  <2> QED
    BY <1>3, <2>1, <2>2 DEF Recorded
<1>5. Shape(steps', here[w], sent)
  BY <1>2, <1>3, <1>4 DEF Shape
<1>6. Traced'
  BY <1>1, <1>4, Keeps DEF mail
<1>7. Known("reschedule", replay[w], here[w], event[w], sent)
  BY <1>1, <1>2 DEF Known, InTurn, Acting, Waiting
<1>8. Agrees("reschedule", replay[w], here[w], event[w], position, steps', sent, closed)
  BY <1>1, <1>2, <1>4
  DEF Agrees, AgreesAtStart, AgreesInTurn, AgreesAtEnd, InTurn, Waiting
<1>9. Agrees(pc[w], replay[w], here[w], event[w], position, steps', sent, closed)
  BY <1>1, <1>2, <1>4
  DEF Agrees, AgreesAtStart, AgreesInTurn, AgreesAtEnd, InTurn, Waiting
<1>10. pc[w] \in InTurn \ {"boundary"}
  BY <1>1 DEF InTurn
<1> HIDE DEF entry
<1> QED
  BY <1>1, <1>4, <1>5, <1>6, <1>7, <1>8, <1>9, <1>10, LaterWrite

LEMMA TransactionFailsKeeps ==
    ASSUME Types, Inv, NEW w \in Worker, TransactionFails(w)
    PROVE  Inv' /\ Promised
<1> USE Facts
<1> DEFINE entry == Failure(Call("stream"))
<1>1. /\ pc[w] = "txnfailed" /\ owner = w /\ Write(3, entry) /\ entry \in Entry
      /\ UNCHANGED <<row, position, stream, mail, closed>>
      /\ Moves(w, "stepfailed", replay[w], here[w], event[w]) \/ UNCHANGED attempt
  BY Movement, Entries DEF TransactionFails, Owns, Answered
<1>2. /\ position \notin final /\ position = here[w] /\ Shape(steps, here[w], sent)
      /\ event[w] # 0 /\ steps[1].kind = "success" /\ steps[1].output = event[w]
  BY <1>1, OwnersTurn DEF Known, Agrees, AgreesInTurn, InTurn, Waiting, Acting
<1>3. entry.kind = "error" /\ entry.name = Call("stream")
  BY FailureFields
<1>4. /\ steps' = [steps EXCEPT ![3] = Recorded(@, entry)]
      /\ steps'[1] = steps[1] /\ steps'[2] = steps[2]
      /\ steps'[3] = IF steps[3].kind = "success" THEN steps[3] ELSE entry
  <2> HIDE DEF entry
  <2>1. steps' = [steps EXCEPT ![3] = Recorded(@, entry)]
    BY <1>1 DEF Write
  <2>2. /\ steps'[3] = Recorded(steps[3], entry)
        /\ steps'[1] = steps[1] /\ steps'[2] = steps[2]
    BY <1>1, Written, Entries DEF mail
  <2> QED
    BY <1>3, <2>1, <2>2 DEF Recorded
<1>5. Shape(steps', here[w], sent)
  BY <1>2, <1>3, <1>4 DEF Shape
<1>6. Traced'
  BY <1>1, <1>3, <1>4, Keeps DEF mail
<1>7. Known("stepfailed", replay[w], here[w], event[w], sent)
  BY <1>1, <1>2 DEF Known, InTurn, Acting, Waiting
<1>8. Agrees("stepfailed", replay[w], here[w], event[w], position, steps', sent, closed)
  BY <1>1, <1>2, <1>4
  DEF Agrees, AgreesAtStart, AgreesInTurn, AgreesAtEnd, InTurn, Waiting
<1>9. Agrees(pc[w], replay[w], here[w], event[w], position, steps', sent, closed)
  BY <1>1, <1>2, <1>4
  DEF Agrees, AgreesAtStart, AgreesInTurn, AgreesAtEnd, InTurn, Waiting
<1>10. pc[w] \in InTurn \ {"boundary"}
  BY <1>1 DEF InTurn
<1> HIDE DEF entry
<1> QED
  BY <1>1, <1>4, <1>5, <1>6, <1>7, <1>8, <1>9, <1>10, LaterWrite

LEMMA StepWrites ==
    ASSUME Types, Inv, NEW w \in Worker, StepFails(w) \/ RecordStep(w)
    PROVE  Inv' /\ Promised
<1> USE Facts
<1> DEFINE fails == pc[w] = "stepfailed"
           entry == IF fails THEN Failure(StepName(w)) ELSE Success(StepName(w), 0)
           l == IF fails THEN "fail" ELSE "boundary"
<1>1. /\ pc[w] \in {"stepfailed", "record"} /\ owner = w
      /\ UNCHANGED <<row, position, stream, mail, closed>>
      /\ Moves(w, l, replay[w], here[w], event[w]) \/ UNCHANGED attempt
  BY Movement DEF StepFails, RecordStep, Owns, Answered
<1>2. Write(2, entry)
  BY DEF StepFails, RecordStep
<1>3. /\ position \notin final /\ position = here[w] /\ Shape(steps, here[w], sent)
      /\ event[w] # 0 /\ steps[1].kind = "success" /\ steps[1].output = event[w]
      /\ ~fails => steps[3].kind = "success"
  BY <1>1, OwnersTurn DEF Known, Agrees, AgreesInTurn, InTurn, Waiting, Acting
<1>4. /\ entry \in Entry /\ entry.name = <<"step", here[w], sent[event[w]]>>
      /\ entry.kind = IF fails THEN "error" ELSE "success"
  <2>1. Success(StepName(w), 0) \in Entry /\ Failure(StepName(w)) \in Entry
    BY <1>3, StepNames
  <2>2. CASE fails
    BY <2>1, <2>2, FailureFields DEF StepName
  <2>3. CASE ~fails
    BY <2>1, <2>3, SuccessFields DEF StepName
  <2> QED
    BY <2>2, <2>3
<1>5. /\ steps' = [steps EXCEPT ![2] = Recorded(@, entry)]
      /\ steps'[1] = steps[1] /\ steps'[3] = steps[3]
      /\ steps'[2] = Recorded(steps[2], entry)
  <2> HIDE DEF entry
  <2>1. steps' = [steps EXCEPT ![2] = Recorded(@, entry)]
    BY <1>2 DEF Write
  <2> QED
    BY <1>1, <1>2, <1>4, <2>1, Written, Entries DEF mail
<1>6. (steps'[2] = steps[2] /\ steps[2].kind = "success") \/ steps'[2] = entry
  <2> HIDE DEF entry
  <2> QED
    BY <1>5 DEF Recorded
<1>7. Shape(steps', here[w], sent)
  <2> HIDE DEF entry
  <2> QED
    BY <1>3, <1>4, <1>5, <1>6 DEF Shape
<1>8. Traced'
  BY <1>1, <1>5, Keeps DEF mail
<1>9. Known(l, replay[w], here[w], event[w], sent)
  BY <1>1, <1>3 DEF Known, InTurn, Acting, Waiting
<1>10. Agrees(l, replay[w], here[w], event[w], position, steps', sent, closed)
  <2>1. ~fails => steps'[2].kind = "success"
    <3> HIDE DEF entry
    <3> QED
      BY <1>4, <1>6
  <2> HIDE DEF entry
  <2> QED
    BY <1>1, <1>3, <1>5, <2>1
    DEF Agrees, AgreesAtStart, AgreesInTurn, AgreesAtEnd, InTurn, Waiting
<1>11. Agrees(pc[w], replay[w], here[w], event[w], position, steps', sent, closed)
  BY <1>1, <1>3, <1>5
  DEF Agrees, AgreesAtStart, AgreesInTurn, AgreesAtEnd, InTurn, Waiting
<1>12. pc[w] \in InTurn \ {"boundary"} /\ l # "nondet"
  BY <1>1 DEF InTurn
<1> HIDE DEF entry, l, fails
<1> QED
  BY <1>1, <1>2, <1>4, <1>5, <1>7, <1>8, <1>9, <1>10, <1>11, <1>12, LaterWrite

LEMMA CommitKeeps ==
    ASSUME Types, Inv, NEW w \in Worker, Commit(w) \/ CommitLost(w)
    PROVE  Inv' /\ Promised
<1> USE Facts
<1> DEFINE entry == Success(Call("stream"), Len(stream))
<1>1. /\ pc[w] = "commit" /\ owner = w /\ UNCHANGED <<row, position, mail, closed>>
      /\ pc[w] \in InTurn \ {"boundary"}
  BY DEF Commit, CommitLost, Inv, Row, InTurn
<1>2. /\ position \notin final /\ position = here[w] /\ Shape(steps, here[w], sent)
      /\ InHand = event[w] /\ InHand = steps[1].output /\ steps[1].kind = "success"
      /\ event[w] # 0
  BY <1>1, OwnersTurn DEF Known, Agrees, AgreesInTurn, InTurn, Waiting, Acting
<1>3. \/ Moves(w, "record", replay[w], here[w], event[w]) /\ Committed(w)
      \/ /\ Moves(w, "txnfailed", replay[w], here[w], event[w])
         /\ Committed(w) \/ UNCHANGED <<steps, stream>>
  BY Movement DEF Commit, CommitLost
<1>4. \A k \in {"record", "txnfailed"} :
         Known(k, replay[w], here[w], event[w], sent)
  BY <1>1, <1>2 DEF Known, InTurn, Acting, Waiting
<1>5. ASSUME NEW k \in {"record", "txnfailed"},
             Moves(w, k, replay[w], here[w], event[w]), Committed(w)
      PROVE  Inv' /\ Promised
  <2>1. /\ stream \in Seq(Nat \ {0}) /\ Len(stream) \in Nat
        /\ entry \in Entry /\ entry.kind = "success" /\ entry.name = Call("stream")
    BY Entries, SuccessFields DEF LogTypes
  <2> HIDE DEF entry
  <2>2. /\ steps' = [steps EXCEPT ![3] = Recorded(@, entry)] /\ Write(3, entry)
        /\ stream' = Append(stream, event[w])
    BY <1>5 DEF Committed, Write, entry
  <2>3. steps'[1] = steps[1] /\ steps'[2] = steps[2] /\ steps'[3] = entry
    BY <1>1, <2>1, <2>2, Written, Entries DEF Recorded, mail
  <2>4. Shape(steps', here[w], sent)
    BY <1>2, <2>1, <2>3 DEF Shape
  <2>5. position' = position /\ closed' = closed /\ mailbox' = mailbox
    BY <1>1 DEF mail
  <2>6. Traced'
    <3>1. InHand' = event[w]
      BY <1>2, <2>3, <2>5 DEF InHand
    <3>3. Len(stream) + 1 \in DOMAIN stream' /\ stream'[Len(stream) + 1] = event[w]
      BY <2>1, <2>2
    <3>4. /\ DOMAIN stream' = 1..(Len(stream) + 1) /\ DOMAIN stream = 1..Len(stream)
          /\ \A i \in 1..Len(stream) : stream'[i] = stream[i]
      BY <2>1, <2>2
    <3>2. ASSUME NEW i \in DOMAIN stream'
          PROVE  stream'[i] \in closed \union {event[w]}
      <4>1. CASE i = Len(stream) + 1
        BY <3>3, <4>1
      <4>2. CASE i \in 1..Len(stream)
        BY <1>2, <3>4, <4>2 DEF Inv, Traced
      <4> QED
        BY <2>1, <3>4, <4>1, <4>2
    <3> QED
      BY <2>1, <2>3, <2>5, <3>1, <3>2, <3>3 DEF Traced
  <2>7. Agrees(k, replay[w], here[w], event[w], position, steps', sent, closed)
    BY <1>1, <1>2, <2>1, <2>3
    DEF Agrees, AgreesAtStart, AgreesInTurn, AgreesAtEnd, InTurn, Waiting
  <2>8. LogShape' /\ Places' /\ adrift' = 0 /\ position # None /\ sent' = sent
    BY <1>1, <1>2, <2>3, <2>4, <2>5, Keeps, OwnersTurn
    DEF LogShape, Pos, mail, Inv, Row
  <2>9. Promised
    <3>1. steps[3].kind # "success"
      BY <1>1, <1>2 DEF Known, Agrees, AgreesInTurn, InTurn
    <3>2. ~ \E i \in DOMAIN stream : stream[i] = InHand
      BY <1>2, <3>1 DEF Inv, Traced
    <3>3. ActionEdge(here[w], sent[event[w]])
      BY <1>1 DEF Known, InTurn, Acting
    <3>4. Pos = here[w] /\ Pos' = Pos /\ InHand' = InHand
      BY <1>1, <1>2, <2>3, <2>5, OwnersTurn DEF Pos, InHand
    <3>5. Promise!Act
      BY <1>1, <1>2, <2>2, <2>5, <3>2, <3>3, <3>4
      DEF Promise!Act, Promise!Acted, Promise!may, Promise!Edge, ActionEdge, Edge, Pos, mail
    <3> QED
      BY <3>5 DEF Promised, Promise!Next
  <2> QED
    BY <2>9, <1>1, <1>4, <1>5, <2>5, <2>6, <2>7, <2>8, OwnersStep
<1>6. ASSUME Moves(w, "txnfailed", replay[w], here[w], event[w]),
             UNCHANGED <<steps, stream>>
      PROVE  Inv' /\ Promised
  <2>1. UNCHANGED <<row, log, mail, closed>>
    BY <1>1, <1>6 DEF log
  <2>2. Agrees("txnfailed", replay[w], here[w], event[w], position, steps, sent, closed)
    BY <1>1, <1>2
    DEF Agrees, AgreesAtStart, AgreesInTurn, AgreesAtEnd, InTurn, Waiting
  <2> QED
    BY <1>1, <1>4, <1>6, <2>1, <2>2, PrivateStep
<1> QED
  BY <1>3, <1>5, <1>6

\* The turn of w ends at its target: in the wiped log and the closed event.
LEMMA TurnEnds ==
    ASSUME Types, Inv, NEW w \in Worker, owner = w, pc[w] = "boundary",
           Target(w) \notin final, PositionCommitted(w), UNCHANGED <<row, stream, mail>>,
           NEW l, NEW R, NEW s, NEW e, Moves(w, l, R, s, e), l # "nondet",
           Known(l, R, s, e, sent),
           Agrees(l, R, s, e, Target(w), EmptyLog, sent, closed')
    PROVE  Inv' /\ Promised
<1> USE Facts
<1>1. /\ position' = Target(w) /\ Target(w) \in State /\ position' # None
      /\ steps' = EmptyLog /\ closed' = closed \union ({event[w]} \ {0})
      /\ mailbox' = mailbox /\ sent' = sent /\ stream' = stream /\ adrift' = 0
  BY TargetType, WorkerAssumption DEF PositionCommitted, Closed, mail, Inv, Row
<1>2. /\ position \notin final /\ steps[1].output = event[w]
  <2>1. Agrees(pc[w], replay[w], here[w], event[w], position, steps, sent, closed)
    OBVIOUS
  <2>2. position \notin final
    BY <2>1 DEF Agrees, AgreesAtEnd, InTurn, Target, Taken, MailTypes
  <2> QED
    BY <2>1, <2>2 DEF Agrees, AgreesInTurn, InTurn, Waiting
<1>3. InHand = event[w]
  BY <1>2 DEF InHand
<1>4. \A i \in Seqs : EmptyLog[i].kind = "absent" /\ EmptyLog[i].output = 0
  BY DEF EmptyLog, Absent
<1>5. LogShape'
  BY <1>1, <1>4, Entries DEF LogShape, Shape
<1>6. InHand' = 0
  BY <1>1, <1>4, Entries DEF InHand
<1>7. Places'
  BY <1>1, <1>3, <1>6 DEF Inv, Places, MailTypes
<1>8. Traced'
  <2>1. \A i \in DOMAIN stream : stream[i] # 0
    BY DEF LogTypes
  <2> QED
    BY <1>1, <1>3, <1>4, <1>6, <2>1, Entries DEF Inv, Traced
<1>9. Pos = here[w] /\ Pos' = Target(w)
  BY <1>1, <1>2, WorkerAssumption DEF Agrees, AgreesInTurn, InTurn, Pos
<1>10. ASSUME event[w] # 0, Taken(w) \in Edge PROVE Promised
  <2>1. edges[Taken(w)].action => \E i \in DOMAIN stream : stream[i] = InHand
    <3>1. edges[Taken(w)].action => steps[2].kind = "success"
      BY <1>2, <1>10 DEF Agrees, AgreesInTurn, InTurn, ActionEdge, Taken
    <3>2. edges[Taken(w)].action => steps[3].kind = "success"
      BY <1>2, <1>10, <3>1 DEF Inv, LogShape, Shape
    <3> QED
      BY <1>2, <3>2 DEF Inv, Traced
  <2>2. Promise!Turn
    BY <1>1, <1>3, <1>6, <1>9, <1>10, <2>1
    DEF Promise!Turn, Promise!Dealt, Promise!Acted, Promise!may, Promise!Edge, Edge,
        Taken, Target, Pos
  <2> QED
    BY <2>2 DEF Promised, Promise!Next
<1>11. ASSUME event[w] # 0, Taken(w) \notin Edge PROVE Promised
  <2>1. Promise!Drop
    BY <1>1, <1>3, <1>6, <1>9, <1>11
    DEF Promise!Drop, Promise!Dealt, Promise!may, Promise!Edge, Edge, Taken, Target, Pos
  <2> QED
    BY <2>1 DEF Promised, Promise!Next
<1>12. ASSUME event[w] = 0 PROVE Promised
  BY <1>1, <1>3, <1>6, <1>9, <1>12, Unseen DEF Target
<1> QED
  BY <1>1, <1>5, <1>7, <1>8, <1>10, <1>11, <1>12, OwnersStep

LEMMA CommitPositionKeeps ==
    ASSUME Types, Inv, NEW w \in Worker, commit_position(w) \/ CommitPositionLost(w)
    PROVE  Inv' /\ Promised
<1> USE Facts
<1>1. /\ owner = w /\ pc[w] = "boundary" /\ Target(w) \notin final
      /\ UNCHANGED <<row, stream, mail>>
  BY DEF commit_position, CommitPositionLost, AtBoundary, Owns
<1>2. \A i \in Seqs : EmptyLog[i].kind = "absent" /\ EmptyLog[i].output = 0
  BY DEF EmptyLog, Absent
<1>3. CASE commit_position(w)
  <2>1. Moves(w, "recv", EmptyLog, Target(w), 0)
    BY <1>3 DEF commit_position, Goto, AttemptTypes, Moves
  <2>2. Known("recv", EmptyLog, Target(w), 0, sent)
    BY <1>1, <1>2, Entries DEF Known, InTurn, Acting, Waiting, Shape
  <2>3. Agrees("recv", EmptyLog, Target(w), 0, Target(w), EmptyLog, sent, closed')
    BY <1>1, <1>2, Entries
    DEF Agrees, AgreesAtStart, AgreesInTurn, AgreesAtEnd, InTurn, Waiting
  <2>4. PositionCommitted(w)
    BY <1>3 DEF commit_position
  <2> QED
    BY <1>1, <2>1, <2>2, <2>3, <2>4, TurnEnds
<1>4. CASE CommitPositionLost(w)
  <2>1. Moves(w, "fail", replay[w], here[w], event[w])
    BY <1>4, Movement DEF CommitPositionLost
  <2>2. Known("fail", replay[w], here[w], event[w], sent)
    BY DEF Known, InTurn
  <2>3. \A p, L, d : Agrees("fail", replay[w], here[w], event[w], p, L, sent, d)
    BY DEF Agrees, AgreesAtStart, AgreesInTurn, AgreesAtEnd, InTurn
  <2>4. CASE PositionCommitted(w)
    BY <1>1, <2>1, <2>2, <2>3, <2>4, TurnEnds
  <2>5. CASE UNCHANGED <<position, steps, closed>>
    BY <1>1, <2>1, <2>2, <2>3, <2>5, PrivateStep DEF log
  <2> QED
    BY <1>4, <2>4, <2>5 DEF CommitPositionLost
<1> QED
  BY <1>3, <1>4

LEMMA PublishFinalKeeps ==
    ASSUME Types, Inv, NEW w \in Worker, PublishFinal(w)
    PROVE  Inv' /\ Promised
<1> USE Facts
<1>1. /\ owner = w /\ pc[w] = "boundary" /\ Target(w) \in final
      /\ UNCHANGED <<row, steps, stream, mail>>
      /\ Moves(w, "return", replay[w], here[w], event[w]) \/ UNCHANGED attempt
  BY Movement DEF PublishFinal, AtBoundary, Owns, Answered
<1>2. /\ position' = Target(w) /\ Target(w) \in State /\ position' # None
      /\ closed' = closed \union ({event[w]} \ {0})
      /\ steps' = steps /\ mailbox' = mailbox /\ sent' = sent /\ stream' = stream
      /\ adrift' = 0
  BY <1>1, TargetType, WorkerAssumption DEF PublishFinal, Closed, mail, Inv, Row
<1>3. /\ event[w] # 0 /\ Taken(w) \in Edge /\ edges[Taken(w)].target = Target(w)
  BY <1>1 DEF Known, InTurn, Target
<1>4. InHand \in {0, event[w]}
  BY <1>1 DEF Agrees, AgreesInTurn, InTurn, Waiting, InHand
<1>5. LogShape' /\ InHand' = 0
  BY <1>1, <1>2 DEF LogShape, InHand
<1>6. event[w] \notin mailbox
  <2>1. CASE position \in final
    BY <1>1, <2>1 DEF Agrees, AgreesAtEnd, InTurn, Inv, Places
  <2>2. CASE position \notin final
    BY <1>1, <2>2 DEF Agrees, AgreesInTurn, InTurn, Waiting, InHand, Inv, Places
  <2> QED
    BY <2>1, <2>2
<1>7. Places' /\ Traced'
  BY <1>1, <1>2, <1>4, <1>5, <1>6 DEF Inv, Places, Traced, MailTypes
<1>8. Known("return", replay[w], here[w], event[w], sent)
  BY DEF Known, InTurn
<1>9. Agrees("return", replay[w], here[w], event[w], position', steps', sent, closed')
  BY DEF Agrees, AgreesAtStart, AgreesInTurn, AgreesAtEnd, InTurn
<1>10. Agrees(pc[w], replay[w], here[w], event[w], position', steps', sent, closed')
  BY <1>1, <1>2, <1>3
  DEF Agrees, AgreesAtStart, AgreesInTurn, AgreesAtEnd, InTurn, Taken
<1>11. ASSUME position \notin final PROVE Promised
  <2>1. Pos = here[w] /\ InHand = event[w]
    BY <1>1, <1>11, WorkerAssumption
    DEF Agrees, AgreesInTurn, InTurn, Waiting, InHand, Pos
  <2>2. edges[Taken(w)].action => \E i \in DOMAIN stream : stream[i] = InHand
    <3>1. edges[Taken(w)].action => steps[2].kind = "success"
      BY <1>1, <1>3, <1>11 DEF Agrees, AgreesInTurn, InTurn, ActionEdge, Taken
    <3>2. edges[Taken(w)].action => steps[3].kind = "success"
      BY <1>1, <1>3, <1>11, <3>1 DEF Inv, LogShape, Shape, Agrees, AgreesInTurn, InTurn, Waiting
    <3> QED
      BY <1>11, <3>2 DEF Inv, Traced
  <2>3. Pos' = Target(w)
    BY <1>2 DEF Pos
  <2>4. Promise!Turn
    BY <1>2, <1>3, <1>5, <2>1, <2>2, <2>3
    DEF Promise!Turn, Promise!Dealt, Promise!Acted, Promise!may, Promise!Edge, Edge,
        Taken, Pos
  <2> QED
    BY <2>4 DEF Promised, Promise!Next
<1>12. ASSUME position \in final PROVE Promised
  <2>1. position = Target(w) /\ event[w] \in closed /\ InHand = 0
    BY <1>1, <1>3, <1>12 DEF Agrees, AgreesAtEnd, InTurn, InHand, Taken
  <2>2. closed' = closed
    BY <1>2, <2>1
  <2> QED
    BY <1>2, <1>5, <2>1, <2>2, Unseen DEF Pos
<1> QED
  BY <1>11, <1>12, <1>1, <1>2, <1>5, <1>7, <1>8, <1>9, <1>10, AnsweredStep

LEMMA PublishKeeps ==
    ASSUME Types, Inv, NEW w \in Worker, Publish(w)
    PROVE  Inv' /\ Promised
<1> USE Facts
<1> DEFINE l == IF here[w] \in final THEN "return" ELSE "recv"
<1>1. /\ owner = w /\ pc[w] = "publish" /\ position' = here[w]
      /\ UNCHANGED <<row, steps, stream, mail, closed>>
      /\ Moves(w, l, replay[w], here[w], event[w]) \/ UNCHANGED attempt
  BY Movement DEF Publish, Owns, Answered
<1>2. /\ replay[w] = steps /\ here[w] = Pos /\ position' # None
  BY <1>1, WorkerAssumption DEF Agrees, AgreesAtStart, Pos
<1>3. /\ steps' = steps /\ mailbox' = mailbox /\ sent' = sent /\ stream' = stream
      /\ adrift' = 0 /\ closed' = closed
  BY <1>1 DEF mail, Inv, Row
<1>4. position = None => steps[1].output = 0 /\ position \notin final
  <2>1. position = None => steps[1].output = 0
    BY Entries, EntryFacts DEF Inv, Row
  <2> QED
    BY <2>1, DeclarationAssumption, WorkerAssumption
<1>5. InHand' = InHand
  BY <1>1, <1>2, <1>3, <1>4 DEF InHand, Pos
<1>6. here[w] \notin final => position \notin final
  BY <1>2, <1>4 DEF Pos
<1>7. LogShape'
  BY <1>1, <1>2, <1>3, <1>6 DEF Inv, LogShape, Pos
<1>8. Places' /\ Traced'
  BY <1>1, <1>3, <1>5, <1>6 DEF Inv, Places, Traced
<1>9. Known(l, replay[w], here[w], event[w], sent) /\ l # "nondet"
  BY <1>2, <1>6 DEF Known, InTurn, Acting, Waiting, Inv, LogShape
<1>10. Agrees(l, replay[w], here[w], event[w], position', steps', sent, closed')
  BY <1>1, <1>2, <1>3
  DEF Agrees, AgreesAtStart, AgreesInTurn, AgreesAtEnd, InTurn, Waiting
<1>11. Agrees(pc[w], replay[w], here[w], event[w], position', steps', sent, closed')
  BY <1>1, <1>2, <1>3
  DEF Agrees, AgreesAtStart, AgreesInTurn, AgreesAtEnd, InTurn
<1>12. Promised
  BY <1>1, <1>2, <1>3, <1>5, Unseen DEF Pos
<1> HIDE DEF l
<1> QED
  BY <1>1, <1>2, <1>3, <1>7, <1>8, <1>9, <1>10, <1>11, <1>12, AnsweredStep

LEMMA Leavings ==
    ASSUME Types, Inv,
           \/ Supersede
           \/ \E w \in Worker : Reschedule(w) \/ Return(w) \/ Fail(w)
    PROVE  Inv' /\ Promised
<1>1. CASE Supersede
  BY <1>1, LeavingStep DEF Supersede
<1>2. ASSUME NEW w \in Worker, Reschedule(w) PROVE Inv' /\ Promised
  BY <1>2, LeavingStep DEF Reschedule, Answered
<1>3. ASSUME NEW w \in Worker, Return(w) PROVE Inv' /\ Promised
  BY <1>3, LeavingStep DEF Return, Answered
<1>4. ASSUME NEW w \in Worker, Fail(w) PROVE Inv' /\ Promised
  BY <1>4, LeavingStep DEF Fail, Answered
<1> QED
  BY <1>1, <1>2, <1>3, <1>4

\* The row moves, between attempts or with one.
LEMMA RowStep ==
    ASSUME Types, Inv, UNCHANGED <<owner, log, mail, attempt, closed>>,
           state' = "running" <=> state = "running"
    PROVE  Inv' /\ Promised
<1>1. /\ owner' = owner /\ position' = position /\ steps' = steps
      /\ stream' = stream /\ sent' = sent /\ mailbox' = mailbox /\ adrift' = adrift
      /\ closed' = closed /\ pc' = pc /\ replay' = replay /\ here' = here
      /\ event' = event
  BY DEF log, mail, attempt
<1> QED
  BY <1>1, Quiet DEF Inv, Row, NeverPoisoned, LogShape, Places, Traced, Attempts, Pos, InHand

LEMMA Operators ==
    ASSUME Types, Inv, Elapse \/ Cancel \/ Resume \/ UNCHANGED vars
    PROVE  Inv' /\ Promised
<1>1. UNCHANGED <<owner, log, mail, attempt, closed>>
  BY DEF Elapse, Cancel, Resume, vars, row
<1>2. state' = "running" <=> state = "running"
  BY DEF Elapse, Cancel, Resume, vars, row
<1> QED
  BY <1>1, <1>2, RowStep

LEMMA ClaimKeeps ==
    ASSUME Types, Inv, NEW w \in Worker, Claim(w)
    PROVE  Inv' /\ Promised
<1> USE Facts
<1>1. /\ state' = "running" /\ owner' = w /\ owner = None
      /\ position' = position /\ steps' = steps /\ stream' = stream /\ sent' = sent
      /\ mailbox' = mailbox /\ adrift' = adrift /\ closed' = closed
  BY DEF Claim, Inv, Row, log, mail
<1>2. Moves(w, "load", replay[w], here[w], event[w])
  BY DEF Claim, Goto, AttemptTypes, Moves
<1>3. Known("load", replay[w], here[w], event[w], sent)
  BY DEF Known, InTurn
<1>4. Agrees("load", replay[w], here[w], event[w], position, steps, sent, closed)
  BY DEF Agrees, AgreesAtStart, AgreesInTurn, AgreesAtEnd, InTurn
<1>5. LogShape' /\ Places' /\ Traced'
  BY <1>1 DEF Inv, LogShape, Places, Traced, Pos, InHand
<1>6. Row' /\ NeverPoisoned'
  <2>1. \A v \in Worker : pc[v] # "commit"
    BY <1>1, WorkerAssumption DEF Inv, Row
  <2>2. owner' # None
    BY <1>1, WorkerAssumption
  <2> QED
    BY <1>1, <1>2, <2>1, <2>2 DEF Inv, Row, NeverPoisoned, Moves
<1>7. Attempts'
  BY <1>1, <1>2, <1>3, <1>4 DEF Inv, Attempts, Moves
<1> QED
  BY <1>5, <1>6, <1>7, Quiet DEF Inv, Claim

LEMMA RerunKeeps ==
    ASSUME Types, Inv, Rerun
    PROVE  Inv' /\ Promised
<1>1. /\ state' # "running" /\ owner' = owner /\ owner = None
      /\ position' = position /\ steps' = EmptyLog /\ stream' = <<>>
      /\ sent' = sent /\ mailbox' = mailbox /\ adrift' = adrift
      /\ closed' = closed \union ({InHand} \ {0})
      /\ pc' = pc /\ replay' = replay /\ here' = here /\ event' = event
  BY DEF Rerun, Inv, Row, mail, attempt
<1>2. \A i \in Seqs : EmptyLog[i].kind = "absent" /\ EmptyLog[i].output = 0
  BY DEF EmptyLog, Absent
<1>3. InHand' = 0
  BY <1>1, <1>2, Entries DEF InHand
<1>4. LogShape'
  BY <1>1, <1>2, Entries DEF LogShape, Shape
<1>5. Places'
  <2>1. 0 \notin mailbox /\ 0 \notin closed
    BY DEF Types, MailTypes
  <2>2. mailbox \intersect closed = {} /\ InHand \notin mailbox
    BY DEF Inv, Places
  <2>3. closed' \subseteq closed \union {InHand} /\ 0 \notin closed'
    BY <1>1, <2>1
  <2>4. mailbox' \intersect closed' = {}
    BY <1>1, <2>2, <2>3
  <2> QED
    BY <1>1, <1>3, <2>1, <2>3, <2>4 DEF Places
<1>6. Traced'
  BY <1>1, <1>2, Entries DEF Traced
<1>7. Row' /\ NeverPoisoned'
  BY <1>1, <1>2, Entries DEF Inv, Row, NeverPoisoned
<1>8. Attempts'
  BY <1>1, WorkerAssumption DEF Inv, Attempts
<1>9. Promise!StartOver
  BY <1>1, <1>3 DEF Promise!StartOver, Pos
<1>10. Promised
  BY <1>9 DEF Promised, Promise!Next
<1> QED
  BY <1>10, <1>4, <1>5, <1>6, <1>7, <1>8 DEF Inv

\* What is known of the events sent stays known when there is one more.
LEMMA SendKeeps ==
    ASSUME Types, Inv, NEW e \in Event, Send(e)
    PROVE  Inv' /\ Promised
<1>1. /\ state' = state /\ owner' = owner /\ position' = position /\ steps' = steps
      /\ stream' = stream /\ adrift' = adrift /\ closed' = closed
      /\ pc' = pc /\ replay' = replay /\ here' = here /\ event' = event
      /\ sent' = Append(sent, e) /\ mailbox' = mailbox \union {Len(sent) + 1}
  BY DEF Send, row, log, attempt
<1>2. /\ sent \in Seq(Event) /\ Len(sent) \in Nat /\ Len(sent') = Len(sent) + 1
      /\ steps \in Log
  BY <1>1 DEF Types, MailTypes, LogTypes
<1>3. \A i \in 1..Len(sent) : sent'[i] = sent[i]
  BY <1>1, <1>2
<1>4. ASSUME NEW L \in Log, NEW s, Shape(L, s, sent) PROVE Shape(L, s, sent')
  <2>1. L[1].output \in 0..Len(sent)
    BY DEF Log
  <2>2. L[1].output # 0 => sent'[L[1].output] = sent[L[1].output]
    BY <1>2, <1>3, <2>1
  <2>3. L[1].output \in 0..Len(sent')
    BY <1>2, <2>1
  <2> QED
    BY <1>4, <2>2, <2>3 DEF Shape
<1>5. LogShape'
  BY <1>1, <1>2, <1>4 DEF Inv, LogShape, Pos
<1>6. InHand' = InHand /\ InHand \in 0..Len(sent)
  BY <1>1, <1>2 DEF InHand, Log
<1>7. Places'
  <2>1. Len(sent) + 1 \notin closed /\ InHand # Len(sent) + 1
    BY <1>2, <1>6 DEF Types, MailTypes
  <2> QED
    BY <1>1, <1>6, <2>1 DEF Inv, Places
<1>8. Row' /\ NeverPoisoned' /\ Traced'
  BY <1>1, <1>6 DEF Inv, Row, NeverPoisoned, Traced
<1>9. ASSUME NEW w \in Worker
      PROVE  /\ Known(pc[w], replay[w], here[w], event[w], sent')
             /\ owner = w => Agrees(pc[w], replay[w], here[w], event[w],
                                    position, steps, sent', closed)
  <2>1. /\ replay[w] \in Log /\ event[w] \in 0..Len(sent)
        /\ Known(pc[w], replay[w], here[w], event[w], sent)
        /\ owner = w => Agrees(pc[w], replay[w], here[w], event[w],
                               position, steps, sent, closed)
        /\ pc[w] \in Acting \union {"handle"} => event[w] # 0
    BY Facts
  <2>2. event[w] # 0 => sent'[event[w]] = sent[event[w]]
    BY <1>2, <1>3, <2>1
  <2>3. Known(pc[w], replay[w], here[w], event[w], sent')
    BY <1>4, <2>1, <2>2 DEF Known, Acting
  <2>4. ASSUME owner = w
        PROVE  Agrees(pc[w], replay[w], here[w], event[w], position, steps, sent', closed)
    <3>1. 0 \notin closed
      BY DEF Types, MailTypes
    <3> QED
      BY <2>1, <2>2, <2>4, <3>1 DEF Agrees, AgreesAtStart, AgreesInTurn, AgreesAtEnd
  <2> QED
    BY <2>3, <2>4
<1>10. Attempts'
  BY <1>1, <1>9 DEF Attempts
<1>11. Promise!Arrive(e)
  BY <1>1, <1>6 DEF Promise!Arrive
<1>12. Promised
  BY <1>11 DEF Promised, Promise!Next
<1> QED
  BY <1>12, <1>5, <1>7, <1>8, <1>10 DEF Inv

LEMMA InvInitial == Init => Inv
<1> SUFFICES ASSUME Init PROVE Inv
  OBVIOUS
<1>1. \A i \in Seqs : EmptyLog[i].kind = "absent" /\ EmptyLog[i].output = 0
  BY DEF EmptyLog, Absent
<1>2. Row /\ NeverPoisoned
  BY <1>1, Entries DEF Init, Row, NeverPoisoned
<1>3. LogShape /\ Places /\ Traced
  BY <1>1, Entries DEF Init, LogShape, Shape, Places, Traced, InHand
<1>4. Attempts
  BY WorkerAssumption DEF Init, Attempts, Known, InTurn
<1> QED
  BY <1>2, <1>3, <1>4 DEF Inv

LEMMA InvInductive == Types /\ Inv /\ [Next]_vars => Inv' /\ Promised
<1> SUFFICES ASSUME Types, Inv, [Next]_vars PROVE Inv' /\ Promised
  OBVIOUS
<1>1. ASSUME NEW w \in Worker, Step(w) PROVE Inv' /\ Promised
  BY <1>1, Starts, PublishKeeps, Replayings, Privates, RecvPriorKeeps, RecvConsumeKeeps,
     RecvTimedOutKeeps, SleepKeeps, TransactionFailsKeeps, StepWrites, CommitKeeps,
     CommitPositionKeeps, PublishFinalKeeps, Leavings DEF Step
<1>2. ASSUME NEW w \in Worker, Claim(w) \/ Crash(w) PROVE Inv' /\ Promised
  BY <1>2, ClaimKeeps, Privates
<1>3. ASSUME NEW e \in Event, Send(e) PROVE Inv' /\ Promised
  BY <1>3, SendKeeps
<1> QED
  BY <1>1, <1>2, <1>3, Leavings, Operators, RerunKeeps DEF Next

LEMMA InvAlways == Spec => [](Types /\ Inv)
<1>1. Types /\ Inv /\ [Next]_vars => (Types /\ Inv)'
  BY TypesOfAStep, TypesOfSend, TypesOfOthers, InvInductive DEF Next
<1> QED
  BY TypesInitial, InvInitial, <1>1, PTL DEF Spec

\* No attempt ever replays a log that belongs to another position than its own:
\* a rerun of the machine's code over its checkpoints is never nondeterministic,
\* whatever attempts died, were superseded or lost an acknowledgement.
THEOREM NeverPoisonedAlways == Spec => []NeverPoisoned
<1>1. Inv => NeverPoisoned
  BY DEF Inv
<1> QED
  BY InvAlways, <1>1, PTL

\* A state machine job keeps its promise to those who send it events: each event
\* is taken once and in order, acts once and moves the machine along its edge,
\* for any number of workers and whatever crashes, supersessions, lost
\* acknowledgements, failed actions, cancels, resumes and reruns there are.
THEOREM JobImplementsEventMachine == Spec => ImplementsEventMachine
<1>1. Init => Promise!Init
  BY DEF Init, Promise!Init, InHand, EmptyLog, Absent, Seqs
<1>2. Types /\ Inv /\ [Next]_vars => [Promise!Next]_(Promise!vars)
  BY InvInductive DEF Promised
<1> QED
  BY InvAlways, <1>1, <1>2, PTL DEF Spec, ImplementsEventMachine, Promise!Spec

\* Each event is pending, or in the log, or dealt with: a message that recv()
\* consumed is never without its checkpoint.  (Of the code's recv(), when it
\* outlives its connection, this is not so: the run recv_overlap.)
THEOREM NeverNeitherAlways == Spec => []NeverNeither
<1> DEFINE Somewhere == \A m \in 1..Len(sent) : m \in mailbox \union closed \union {InHand}
<1>1. Init => Somewhere
  BY DEF Init
<1>2. Types /\ Inv /\ Somewhere /\ [Next]_vars => Somewhere'
  <2> SUFFICES ASSUME Types, Inv, Somewhere, Promised PROVE Somewhere'
    BY InvInductive
  <2>1. ASSUME NEW e \in Event, Promise!Arrive(e) PROVE Somewhere'
    <3>1. /\ sent' = Append(sent, e) /\ sent \in Seq(Event)
          /\ mailbox' = mailbox \union {Len(sent) + 1}
          /\ closed' = closed /\ InHand' = InHand
      BY <2>1 DEF Promise!Arrive, Types, MailTypes
    <3>2. \A m \in 1..Len(sent') : m \in 1..Len(sent) \/ m = Len(sent) + 1
      BY <3>1
    <3> QED
      BY <3>1, <3>2
  <2>2. ASSUME NEW m \in mailbox, Promise!Take(m) PROVE Somewhere'
    BY <2>2 DEF Promise!Take
  <2>3. CASE Promise!Act
    BY <2>3 DEF Promise!Act
  <2>4. CASE Promise!Turn \/ Promise!Drop
    BY <2>4 DEF Promise!Turn, Promise!Drop, Promise!Dealt
  <2>5. CASE Promise!StartOver
    BY <2>5 DEF Promise!StartOver
  <2>6. CASE UNCHANGED Promise!vars
    BY <2>6 DEF Promise!vars
  <2> QED
    BY <2>1, <2>2, <2>3, <2>4, <2>5, <2>6 DEF Promised, Promise!Next
<1>3. Types /\ Somewhere => NeverNeither
  <2> SUFFICES ASSUME Types, Somewhere, NEW m \in 1..Len(sent)
               PROVE  m \in mailbox \union closed \union {steps[1].output}
    BY DEF NeverNeither
  <2>1. m # 0
    BY DEF Types, MailTypes
  <2> QED
    BY <2>1 DEF InHand
<1> QED
  BY InvAlways, <1>1, <1>2, <1>3, PTL DEF Spec

------------------------------------------------------------------------------
(* What a client may rely on: consequences of the promise.                 *)

\* The events dealt with and in hand are the first ones that were sent: none is
\* taken while an older one is pending, whichever attempt takes it.
EventsInOrder ==
    /\ \A m \in mailbox : \A n \in closed \union {InHand} : n < m
    /\ \A n \in closed : InHand # 0 => n < InHand

\* The stream holds the output of an event at most once, and in the order of the
\* events, although an action is run again by each attempt that did not see it
\* recorded.
ActsOnce == \A i, k \in DOMAIN stream : i < k => stream[i] < stream[k]

LEMMA InHandType ==
    Types => InHand \in 0..Len(sent) /\ Len(sent) \in Nat
BY DEF Types, MailTypes, LogTypes, Log, InHand, Seqs

LEMMA OrderInductive ==
    ASSUME Types, Inv, EventsInOrder, Promised
    PROVE  EventsInOrder'
<1>1. /\ InHand \in Nat /\ Len(sent) \in Nat
      /\ mailbox \subseteq 1..Len(sent) /\ closed \subseteq 1..Len(sent)
  BY InHandType DEF Types, MailTypes
<1>2. ASSUME NEW e \in Event, Promise!Arrive(e) PROVE EventsInOrder'
  <2>1. /\ mailbox' = mailbox \union {Len(sent) + 1}
        /\ closed' = closed /\ InHand' = InHand
    BY <1>2 DEF Promise!Arrive
  <2>2. \A n \in closed \union {InHand} : n < Len(sent) + 1
    BY <1>1, InHandType
  <2> QED
    BY <2>1, <2>2 DEF EventsInOrder
<1>3. ASSUME NEW m \in mailbox, Promise!Take(m) PROVE EventsInOrder'
  <2>1. /\ InHand = 0 /\ InHand' = m /\ mailbox' = mailbox \ {m} /\ closed' = closed
        /\ \A n \in mailbox : m <= n
    BY <1>3 DEF Promise!Take
  <2>2. \A n \in mailbox' : m < n
    BY <1>1, <2>1
  <2> QED
    BY <2>1, <2>2 DEF EventsInOrder
<1>4. CASE Promise!Act \/ UNCHANGED Promise!vars
  BY <1>4 DEF Promise!Act, Promise!vars, EventsInOrder
<1>5. CASE Promise!Turn \/ Promise!Drop \/ Promise!StartOver
  <2>1. /\ InHand' = 0 /\ mailbox' = mailbox
        /\ closed' \subseteq closed \union {InHand}
    BY <1>5 DEF Promise!Turn, Promise!Drop, Promise!StartOver, Promise!Dealt
  <2>2. \A m \in mailbox : 0 < m
    BY <1>1
  <2> QED
    BY <2>1, <2>2 DEF EventsInOrder
<1> QED
  BY <1>2, <1>3, <1>4, <1>5 DEF Promised, Promise!Next

LEMMA ActsInductive ==
    ASSUME Types, Inv, EventsInOrder, ActsOnce, Promised
    PROVE  ActsOnce'
<1>1. /\ stream \in Seq(Nat \ {0}) /\ InHand \in Nat
      /\ \A i \in DOMAIN stream : stream[i] \in closed \union {InHand}
  BY InHandType DEF Types, LogTypes, Inv, Traced
<1>2. CASE Promise!Act
  <2>1. /\ InHand # 0 /\ stream' = Append(stream, InHand)
        /\ ~ \E i \in DOMAIN stream : stream[i] = InHand
    BY <1>2 DEF Promise!Act, Promise!Acted
  <2>2. \A i \in DOMAIN stream : stream[i] < InHand
    BY <1>1, <2>1 DEF EventsInOrder
  <2>3. /\ DOMAIN stream = 1..Len(stream) /\ Len(stream) \in Nat
        /\ DOMAIN stream' = 1..(Len(stream) + 1)
        /\ stream'[Len(stream) + 1] = InHand
        /\ \A i \in DOMAIN stream : stream'[i] = stream[i]
    BY <1>1, <2>1
  <2> SUFFICES ASSUME NEW i \in DOMAIN stream', NEW k \in DOMAIN stream', i < k
               PROVE  stream'[i] < stream'[k]
    BY DEF ActsOnce
  <2>4. i \in DOMAIN stream
    BY <2>3
  <2>5. CASE k \in DOMAIN stream
    BY <2>3, <2>4, <2>5 DEF ActsOnce
  <2>6. CASE k \notin DOMAIN stream
    <3>1. k = Len(stream) + 1
      BY <2>3, <2>6
    <3> QED
      BY <2>2, <2>3, <2>4, <3>1
  <2> QED
    BY <2>5, <2>6
<1>3. CASE Promise!StartOver
  BY <1>3 DEF Promise!StartOver, ActsOnce
<1>4. CASE stream' = stream
  BY <1>4 DEF ActsOnce
<1> QED
  BY <1>2, <1>3, <1>4
  DEF Promised, Promise!Next, Promise!Arrive, Promise!Take, Promise!Turn, Promise!Drop,
      Promise!vars

LEMMA ConsequencesAlways == Spec => [](EventsInOrder /\ ActsOnce)
<1>1. Init => EventsInOrder /\ ActsOnce
  BY DEF Init, EventsInOrder, ActsOnce
<1>2. Types /\ Inv /\ EventsInOrder /\ ActsOnce /\ [Next]_vars
        => (EventsInOrder /\ ActsOnce)'
  BY InvInductive, OrderInductive, ActsInductive
<1> QED
  BY InvAlways, <1>1, <1>2, PTL DEF Spec

\* Events are handled oldest first: what recv() took, in this attempt or in one
\* that died, superseded or retried, is older than everything still pending.
THEOREM HandledInOrder == Spec => []EventsInOrder
BY ConsequencesAlways, PTL

\* The output of an action is in the machine's stream once, in the order of the
\* events, whatever was replayed.
THEOREM ActionsTakeEffectOnce == Spec => []ActsOnce
BY ConsequencesAlways, PTL

\* The position moves only along the edge of the event in hand, which is closed
\* by that very step, and only when the action of the edge has left its output.
\* So a machine in a final state stays there, whatever is resumed or rerun.
MovesOnItsEvent ==
    [][Pos' # Pos =>
          /\ InHand # 0 /\ InHand' = 0 /\ InHand \in closed'
          /\ may(Pos, sent[InHand]) /\ Pos' = edges[<<Pos, sent[InHand]>>].target
          /\ ActionEdge(Pos, sent[InHand]) => \E i \in DOMAIN stream : stream[i] = InHand]_vars

\* The machine never leaves the position it committed but along an edge, with
\* the effect of that edge committed first.
THEOREM PositionFollowsEffects == Spec => MovesOnItsEvent
<1>1. Types /\ Inv /\ [Next]_vars =>
        [Pos' # Pos =>
          /\ InHand # 0 /\ InHand' = 0 /\ InHand \in closed'
          /\ may(Pos, sent[InHand]) /\ Pos' = edges[<<Pos, sent[InHand]>>].target
          /\ ActionEdge(Pos, sent[InHand]) => \E i \in DOMAIN stream : stream[i] = InHand]_vars
  BY InvInductive
  DEF Promised, Promise!Next, Promise!vars, Promise!Arrive, Promise!Take, Promise!Act,
      Promise!Turn, Promise!Drop, Promise!StartOver, Promise!Dealt, Promise!Acted,
      Promise!may, may, Promise!Edge, Edge, Pos, ActionEdge
<1> QED
  BY InvAlways, <1>1, PTL DEF Spec, MovesOnItsEvent

------------------------------------------------------------------------------
(* The fence.                                                              *)

\* The other workers' attempts stand.
OthersStand(w) ==
    \A v \in Worker \ {w} : /\ pc'[v] = pc[v] /\ here'[v] = here[v]
                            /\ event'[v] = event[v] /\ replay'[v] = replay[v]

\* Checkpoints, position and stream are written, and messages are consumed, by
\* the attempt the row belongs to and by a rerun of a row that belongs to none:
\* an attempt that was superseded while it ran changes nothing any more, also
\* when all that is left of its write is the commit.
OnlyOwnerWrites ==
    [][\/ log' = log /\ mailbox \subseteq mailbox'
       \/ owner = None /\ state \in {"stopped", "finished"}
       \/ \E w \in Worker : owner = w /\ owner' = w /\ pc[w] # "idle" /\ OthersStand(w)]_vars

LEMMA OwnAttempt ==
    ASSUME AttemptTypes, NEW w \in Worker
    PROVE  /\ \A l : Then(w, l) => OthersStand(w)
           /\ \A m : Received(w, m) => OthersStand(w)
           /\ Unwind(w) => OthersStand(w)
           /\ UNCHANGED attempt => OthersStand(w)
BY DEF AttemptTypes, Then, Received, Unwind, Goto, OthersStand, attempt

\* The statements of an attempt that write the log or the mailbox.
Writing(w) ==
    \/ Publish(w) \/ RecvTimedOut(w) \/ (\E m \in mailbox : RecvConsume(w, m))
    \/ Sleep(w) \/ Commit(w) \/ CommitLost(w) \/ TransactionFails(w)
    \/ StepFails(w) \/ RecordStep(w)
    \/ commit_position(w) \/ CommitPositionLost(w) \/ PublishFinal(w)

LEMMA WritersOwn ==
    ASSUME Types, Inv, NEW w \in Worker, Writing(w)
    PROVE  owner = w /\ owner' = w /\ pc[w] # "idle" /\ OthersStand(w)
<1> USE OwnAttempt DEF Types, Answered
<1>1. CASE Publish(w)
  BY <1>1 DEF Publish, Owns, row
<1>2. CASE RecvTimedOut(w)
  BY <1>2 DEF RecvTimedOut, Owns, row
<1>3. ASSUME NEW m \in mailbox, RecvConsume(w, m)
      PROVE  owner = w /\ owner' = w /\ pc[w] # "idle" /\ OthersStand(w)
  BY <1>3 DEF RecvConsume, Receiving, Owns, row
<1>4. CASE Sleep(w)
  BY <1>4 DEF Sleep, Owns, row
<1>5. CASE Commit(w) \/ CommitLost(w)
  <2>1. pc[w] = "commit"
    BY <1>5 DEF Commit, CommitLost
  <2>2. owner = w
    BY <2>1 DEF Inv, Row
  <2> QED
    BY <1>5, <2>1, <2>2 DEF Commit, CommitLost, row
<1>6. CASE TransactionFails(w) \/ StepFails(w) \/ RecordStep(w)
  BY <1>6 DEF TransactionFails, StepFails, RecordStep, Owns, row
<1>7. CASE commit_position(w)
  <2>1. OthersStand(w)
    BY <1>7 DEF commit_position, AttemptTypes, Goto, OthersStand
  <2> QED
    BY <1>7, <2>1 DEF commit_position, AtBoundary, Owns, row
<1>8. CASE CommitPositionLost(w) \/ PublishFinal(w)
  BY <1>8 DEF CommitPositionLost, PublishFinal, AtBoundary, Owns, row
<1> QED
  BY <1>1, <1>2, <1>3, <1>4, <1>5, <1>6, <1>7, <1>8 DEF Writing

\* An attempt that was superseded writes nothing, and a row that nobody owns is
\* written only by a rerun.
THEOREM FenceHolds == Spec => OnlyOwnerWrites
<1> DEFINE Fence ==
       \/ log' = log /\ mailbox \subseteq mailbox'
       \/ owner = None /\ state \in {"stopped", "finished"}
       \/ \E w \in Worker : owner = w /\ owner' = w /\ pc[w] # "idle" /\ OthersStand(w)
<1>1. Types /\ Inv /\ [Next]_vars => [Fence]_vars
  <2> SUFFICES ASSUME Types, Inv, Next PROVE Fence
    OBVIOUS
  <2>1. ASSUME NEW w \in Worker, Step(w), ~Writing(w) PROVE log' = log /\ mailbox' = mailbox
    <3> USE <2>1 DEF log, mail
    <3>1. CASE Load(w) \/ Run(w) \/ current_state(w)
      BY <3>1 DEF Load, Run, current_state
    <3>2. CASE RecvReplayed(w) \/ RecvPrior(w) \/ RecvEmpty(w)
      BY <3>2 DEF RecvReplayed, RecvPrior, RecvEmpty
    <3>3. CASE SleepReplayed(w) \/ Reschedule(w) \/ Handle(w) \/ ActReplayed(w)
      BY <3>3 DEF SleepReplayed, Reschedule, Handle, ActReplayed
    <3>4. CASE StreamAppend(w) \/ ActionRaises(w)
      BY <3>4 DEF StreamAppend, ActionRaises
    <3>5. CASE Return(w) \/ Fail(w) \/ Abandon(w)
      BY <3>5 DEF Return, Fail, Abandon
    <3> QED
      BY <3>1, <3>2, <3>3, <3>4, <3>5 DEF Step, Writing
  <2>2. ASSUME NEW w \in Worker, Claim(w) \/ Step(w) \/ Crash(w) PROVE Fence
    BY <2>1, <2>2, WritersOwn DEF Claim, Crash, log, mail
  <2>3. CASE Elapse \/ Supersede \/ Cancel \/ Resume
    BY <2>3 DEF Elapse, Supersede, Cancel, Resume, log, mail
  <2>4. ASSUME NEW e \in Event, Send(e) PROVE Fence
    BY <2>4 DEF Send, log
  <2>5. CASE Rerun
    <3>1. state \in {"stopped", "finished"}
      BY <2>5 DEF Rerun
    <3> QED
      BY <3>1 DEF Inv, Row, Types, RowTypes
  <2> QED
    BY <2>2, <2>3, <2>4, <2>5 DEF Next
<1> QED
  BY InvAlways, <1>1, PTL DEF Spec, OnlyOwnerWrites

------------------------------------------------------------------------------
(* The fence itself.                                                        *)

\* owner stands for the worker whose attempt carries the row's run_epoch; the
\* epochs are not looked at here.
Lock == INSTANCE RowLock WITH holder <- owner

\* The owner is taken from nobody and lost to nobody, as JobAttemptsProofs shows
\* of the worker that the fences on a row let write (RowIsALock).
THEOREM OwnerIsALock == Spec => Lock!Spec
<1>1. Init => owner = None
  BY DEF Init
<1>2. Types /\ Inv /\ [Next]_vars => [Lock!Next]_owner
  <2> SUFFICES ASSUME Types, Inv, [Next]_vars, owner' # owner PROVE Lock!Next
    OBVIOUS
  <2>1. CASE owner' = None
    BY <2>1 DEF Lock!Next, Lock!Lose
  <2>2. ASSUME NEW w \in Worker, Claim(w) PROVE Lock!Next
    BY <2>2 DEF Claim, Inv, Row, Lock!Next, Lock!Take
  <2>3. \/ owner' = None \/ owner' = owner
        \/ \E w \in Worker : Claim(w)
    <3>1. ASSUME NEW w \in Worker, Step(w) PROVE owner' = None \/ owner' = owner
      <4> USE <3>1 DEF row, Leave, Answered
      <4>1. CASE Load(w) \/ Run(w) \/ current_state(w) \/ Publish(w)
        BY <4>1 DEF Load, Run, current_state, Publish
      <4>2. CASE RecvReplayed(w) \/ RecvPrior(w) \/ RecvEmpty(w) \/ RecvTimedOut(w)
                 \/ \E m \in mailbox : RecvConsume(w, m)
        BY <4>2 DEF RecvReplayed, RecvPrior, RecvEmpty, RecvTimedOut, RecvConsume
      <4>3. CASE Sleep(w) \/ SleepReplayed(w) \/ Reschedule(w) \/ Handle(w) \/ ActReplayed(w)
        BY <4>3 DEF Sleep, SleepReplayed, Reschedule, Handle, ActReplayed
      <4>4. CASE \/ StreamAppend(w) \/ Commit(w) \/ CommitLost(w) \/ TransactionFails(w)
                 \/ ActionRaises(w) \/ StepFails(w) \/ RecordStep(w)
        BY <4>4 DEF StreamAppend, Commit, CommitLost, TransactionFails, ActionRaises,
                    StepFails, RecordStep
      <4>5. CASE \/ commit_position(w) \/ CommitPositionLost(w) \/ PublishFinal(w)
                 \/ Return(w) \/ Fail(w) \/ Abandon(w)
        BY <4>5 DEF commit_position, CommitPositionLost, PublishFinal, Return, Fail, Abandon
      <4> QED  BY <4>1, <4>2, <4>3, <4>4, <4>5 DEF Step
    <3> QED
      BY <3>1 DEF Next, vars, row, Crash, Elapse, Supersede, Leave, Send, Cancel, Resume, Rerun
  <2> QED  BY <2>1, <2>2, <2>3
<1> QED  BY <1>1, <1>2, InvAlways, PTL DEF Spec, Lock!Spec, Lock!Init

==============================================================================
