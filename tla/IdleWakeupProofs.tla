-------------------------- MODULE IdleWakeupProofs ---------------------------
(***************************************************************************)
(* The safety half of the wakeup protocol, for any number of workers and   *)
(* enqueues, with or without faults.                                       *)
(***************************************************************************)
EXTENDS IdleWakeup, TLAPS

\* A look at the queue, with or without a job to take, keeps the types.
LEMMA LookType ==
    ASSUME TypeOK, NEW w \in Worker, NEW onEmpty \in Phases, Look(w, onEmpty)
    PROVE  /\ state' \in [Job -> {"none", "gated", "queued", "taken"}]
           /\ pc' \in [Worker -> Phases]
           /\ unseen' \in [Worker -> SUBSET Job]
           /\ told' \in [Worker -> SUBSET Job]
BY DEF TypeOK, Look, Set, Claimable, Phases, history

LEMMA SetIdleType ==
    ASSUME TypeOK, NEW w \in Worker, NEW value \in BOOLEAN, SetIdle(w, value)
    PROVE  /\ _idle' \in [Worker -> BOOLEAN]
           /\ idle' \in [Worker -> BOOLEAN]
           /\ \A v \in Worker : idle'[v] => registry[v] # "none"
BY DEF TypeOK, SetIdle, Set

\* Jobs, rows and processes keep their types, and an idle flag has a row.
THEOREM TypeCorrect == Spec => []TypeOK
<1>1. Init => TypeOK
  BY DEF Init, TypeOK, Phases
<1>2. TypeOK /\ [Next]_vars => TypeOK'
  <2> SUFFICES ASSUME TypeOK, [Next]_vars PROVE TypeOK'
    OBVIOUS
  <2> USE DEF jobs, rows, process, history
  <2>1. CASE UNCHANGED vars
    BY <2>1 DEF vars, TypeOK
  <2>2. ASSUME NEW j \in Job, Gate(j) \/ Bar(j) \/ Unbar(j) PROVE TypeOK'
    <3>1. CASE Gate(j)
      BY <3>1 DEF Gate, TypeOK, Set
    <3>2. CASE Bar(j) \/ Unbar(j)
      BY <3>2 DEF Bar, Unbar, TypeOK
    <3> QED  BY <2>2, <3>1, <3>2
  <2>9. ASSUME NEW j \in Job, Appear(j) PROVE TypeOK'
    <3>1. inbox' \in [Worker -> BOOLEAN] /\ told' \in [Worker -> SUBSET Job]
      <4>1. CASE j \in wanted
        <5>1. told' = [w \in Worker |-> IF pc[w] # "dead" THEN told[w] \union {j}
                                       ELSE told[w]]
          BY <2>9, <4>1 DEF Appear
        <5>2. told' \in [Worker -> SUBSET Job]
          BY <5>1 DEF TypeOK
        <5> QED  BY <2>9, <4>1, <5>2 DEF Appear
      <4>2. CASE j \notin wanted
        BY <2>9, <4>2 DEF Appear, TypeOK
      <4> QED  BY <4>1, <4>2
    <3>2. state' \in [Job -> {"none", "gated", "queued", "taken"}]
      BY <2>9 DEF Appear, TypeOK, Set
    <3>3. UNCHANGED <<wanted, barred, registry, idle, pc, _idle, _wake, full, unseen>>
      BY <2>9 DEF Appear
    <3> QED  BY <3>1, <3>2, <3>3 DEF TypeOK
  <2>3. ASSUME NEW w \in Worker, Claim(w) \/ Reclaim(w) PROVE TypeOK'
    <3>1. \E onEmpty \in Phases : Look(w, onEmpty)
      BY <2>3 DEF Claim, Reclaim, Phases
    <3> QED  BY <2>3, <3>1, LookType DEF Claim, Reclaim, TypeOK
  <2>4. ASSUME NEW w \in Worker, Publish(w) \/ Refuse(w) \/ Work(w) PROVE TypeOK'
    <3>1. pc' \in [Worker -> Phases]
      BY <2>4 DEF Publish, Refuse, Work, TypeOK, Phases, Set
    <3>2. (\E value \in BOOLEAN : SetIdle(w, value)) \/ UNCHANGED <<idle, _idle>>
      BY <2>4 DEF Publish, Refuse, Work
    <3> QED  BY <2>4, <3>1, <3>2, SetIdleType DEF Publish, Refuse, Work, TypeOK
  <2>5. ASSUME NEW w \in Worker, Park(w) \/ Woken(w) \/ Poll(w) \/ Done(w)
        PROVE  TypeOK'
    <3>1. CASE Park(w)
      BY <3>1 DEF Park, TypeOK, Phases, Set
    <3>2. CASE Woken(w) \/ Poll(w)
      BY <3>2 DEF Woken, Poll, TypeOK, Phases, Set
    <3>3. CASE Done(w)
      BY <3>3 DEF Done, TypeOK, Phases, Set
    <3> QED  BY <2>5, <3>1, <3>2, <3>3
  <2>6. ASSUME NEW w \in Worker, Deliver(w) \/ ThreadEnds(w) \/ LoseInbox(w)
        PROVE  TypeOK'
    BY <2>6 DEF Deliver, ThreadEnds, LoseInbox, TypeOK, Set
  <2>7. ASSUME NEW w \in Worker, Register(w) \/ Retire(w) PROVE TypeOK'
    BY <2>7 DEF Register, Retire, TypeOK, Set
  <2>8. ASSUME NEW w \in Worker, Crash(w) \/ Deregister(w) PROVE TypeOK'
    BY <2>8 DEF Crash, Deregister, Gone, TypeOK, Phases, Set
  <2> QED
    BY <2>1, <2>2, <2>3, <2>4, <2>5, <2>6, <2>7, <2>8, <2>9
    DEF Next, Run
<1> QED  BY <1>1, <1>2, PTL DEF Spec

\* _idle and the column agree while the row is live (JobSystem._set_idle and
\* _try_register are the only writers on the worker's side).
THEOREM FlagAgrees == Spec => []FlagMatchesRow
<1>1. Init => FlagMatchesRow
  BY DEF Init, FlagMatchesRow
<1>2. TypeOK /\ FlagMatchesRow /\ [Next]_vars => FlagMatchesRow'
  <2> SUFFICES ASSUME TypeOK, FlagMatchesRow, [Next]_vars, NEW v \in Worker,
                      registry'[v] = "live", pc'[v] # "dead"
               PROVE  idle'[v] = _idle'[v]
    BY DEF FlagMatchesRow
  <2> USE DEF jobs, rows, process, history
  <2>0. registry[v] = "live" /\ pc[v] # "dead" => idle[v] = _idle[v]
    BY DEF FlagMatchesRow
  <2>1. CASE UNCHANGED vars
    BY <2>0, <2>1 DEF vars
  <2>2. ASSUME NEW j \in Job, Gate(j) \/ Appear(j) \/ Bar(j) \/ Unbar(j)
        PROVE  idle'[v] = _idle'[v]
    BY <2>0, <2>2 DEF Gate, Appear, Bar, Unbar
  <2>3. ASSUME NEW w \in Worker, Claim(w) \/ Reclaim(w) PROVE idle'[v] = _idle'[v]
    BY <2>0, <2>3 DEF Claim, Reclaim, Look, Set, TypeOK
  <2>4. ASSUME NEW w \in Worker, Publish(w) \/ Refuse(w) \/ Work(w)
        PROVE  idle'[v] = _idle'[v]
    <3>1. UNCHANGED registry /\ (pc[v] # "dead")
      BY <2>4 DEF Publish, Refuse, Work, Set, TypeOK
    <3>2. CASE UNCHANGED <<idle, _idle>>
      BY <2>0, <3>1, <3>2
    <3>3. ASSUME NEW value \in BOOLEAN, SetIdle(w, value)
          PROVE  idle'[v] = _idle'[v]
      <4>1. CASE v = w
        BY <3>1, <3>3, <4>1 DEF SetIdle, Set, TypeOK
      <4>2. CASE v # w
        BY <2>0, <3>1, <3>3, <4>2 DEF SetIdle, Set, TypeOK
      <4> QED  BY <4>1, <4>2
    <3> QED  BY <2>4, <3>2, <3>3 DEF Publish, Refuse, Work
  <2>5. ASSUME NEW w \in Worker, Park(w) \/ Woken(w) \/ Poll(w) \/ Done(w)
        PROVE  idle'[v] = _idle'[v]
    BY <2>0, <2>5 DEF Park, Woken, Poll, Done, Set, TypeOK
  <2>6. ASSUME NEW w \in Worker, Deliver(w) \/ ThreadEnds(w) \/ LoseInbox(w)
        PROVE  idle'[v] = _idle'[v]
    BY <2>0, <2>6 DEF Deliver, ThreadEnds, LoseInbox
  <2>7. ASSUME NEW w \in Worker, Register(w) PROVE idle'[v] = _idle'[v]
    <3>1. CASE v = w
      BY <2>7, <3>1 DEF Register, Set, TypeOK
    <3>2. CASE v # w
      BY <2>0, <2>7, <3>2 DEF Register, Set, TypeOK
    <3> QED  BY <3>1, <3>2
  <2>8. ASSUME NEW w \in Worker, Retire(w) PROVE idle'[v] = _idle'[v]
    <3>1. v # w
      BY <2>8 DEF Retire, Set, TypeOK
    <3> QED  BY <2>0, <2>8, <3>1 DEF Retire, Set, TypeOK
  <2>9. ASSUME NEW w \in Worker, Crash(w) \/ Deregister(w) PROVE idle'[v] = _idle'[v]
    <3>1. v # w
      BY <2>9 DEF Crash, Deregister, Gone, Set, TypeOK
    <3> QED  BY <2>0, <2>9, <3>1 DEF Crash, Deregister, Gone, Set, TypeOK
  <2> QED
    BY <2>1, <2>2, <2>3, <2>4, <2>5, <2>6, <2>7, <2>8, <2>9 DEF Next, Run
<1> QED  BY <1>1, <1>2, TypeCorrect, PTL DEF Spec

------------------------------------------------------------------------------
\* From its last look on, a subscriber accounts for every job.  One that is
\* visible was announced to it or could not be taken by that look; one whose
\* commit is under way will be announced to it, or was under way at that look
\* already, since a gate that finds the subscriber announces.
Waits(w) == pc[w] \in {"empty", "parked"} /\ Subscribed(w)
Accounted(w, j) ==
    \/ j \in unseen[w]
    \/ state[j] = "gated" /\ j \in wanted
    \/ state[j] = "queued" /\ j \in told[w]
InFlight(j) == state[j] \in {"gated", "queued"}
GapKnown == \A w \in Worker, j \in Job : Waits(w) /\ InFlight(j) => Accounted(w, j)

\* A worker that starts to wait has just looked, and could take nothing.
LEMMA LookStep ==
    ASSUME TypeOK, GapKnown, NEW w \in Worker, NEW onEmpty \in {"empty", "publish"},
           Look(w, onEmpty), UNCHANGED <<wanted, registry, idle>>,
           NEW v \in Worker, NEW i \in Job, Waits(v)', InFlight(i)'
    PROVE  Accounted(v, i)'
<1> USE DEF Waits, InFlight, Accounted, Subscribed, history
<1>0. InFlight(i) /\ state'[i] = state[i]
  BY DEF Look, Set, TypeOK, Claimable
<1>1. CASE v # w
  <2>1. Waits(v) /\ unseen'[v] = unseen[v] /\ told'[v] = told[v]
    BY <1>1 DEF Look, Set, TypeOK
  <2> QED  BY <1>0, <2>1 DEF GapKnown
<1>2. CASE v = w
  <2>1. Claimable = {}
    BY <1>2 DEF Look, Set, TypeOK
  <2>2. unseen'[w] = {j \in Job : InFlight(j)}
    BY <1>2, <2>1 DEF Look, Set, TypeOK
  <2> QED  BY <1>0, <1>2, <2>2
<1> QED  BY <1>1, <1>2

LEMMA GapStep ==
    ASSUME TypeOK, GapKnown, [Next]_vars
    PROVE  GapKnown'
<1> SUFFICES ASSUME NEW v \in Worker, NEW i \in Job, Waits(v)', InFlight(i)'
             PROVE  Accounted(v, i)'
  BY DEF GapKnown
<1> USE DEF jobs, rows, process, history
<1>a. ASSUME Waits(v), UNCHANGED <<state, wanted>>,
             UNCHANGED history \/ (unseen'[v] = unseen[v] /\ told'[v] = told[v])
      PROVE  Accounted(v, i)'
  BY <1>a DEF GapKnown, InFlight, Accounted
<1>b. ASSUME UNCHANGED rows, pc'[v] = pc[v] PROVE Waits(v)
  BY <1>b DEF Waits, Subscribed
<1>1. CASE UNCHANGED vars
  BY <1>1, <1>a, <1>b DEF vars
<1>2. ASSUME NEW j \in Job, Gate(j) PROVE Accounted(v, i)'
  <2>1. Waits(v) /\ Demand
    BY <1>2, <1>b DEF Gate, Waits, Demand
  <2>2. CASE i = j
    BY <1>2, <2>1, <2>2 DEF Gate, Set, TypeOK, Accounted
  <2>3. CASE i # j
    BY <1>2, <2>1, <2>3 DEF Gate, Set, TypeOK, Accounted, InFlight, GapKnown
  <2> QED  BY <2>2, <2>3
<1>3. ASSUME NEW j \in Job, Appear(j) PROVE Accounted(v, i)'
  <2>1. Waits(v) /\ pc[v] # "dead"
    BY <1>3, <1>b DEF Appear, Waits
  <2>2. InFlight(i)
    BY <1>3 DEF Appear, Set, TypeOK, InFlight
  <2>3. told[v] \subseteq told'[v] /\ unseen' = unseen /\ wanted' = wanted
    BY <1>3, <2>1 DEF Appear, TypeOK
  <2>4. CASE i = j
    <3>1. i \in wanted => i \in told'[v]
      BY <1>3, <2>1, <2>4 DEF Appear, TypeOK
    <3> QED  BY <1>3, <2>1, <2>2, <2>3, <2>4, <3>1
             DEF Appear, Set, TypeOK, Accounted, GapKnown
  <2>5. CASE i # j
    BY <1>3, <2>1, <2>2, <2>3, <2>5 DEF Appear, Set, TypeOK, Accounted, GapKnown
  <2> QED  BY <2>4, <2>5
<1>4. ASSUME NEW j \in Job, Bar(j) \/ Unbar(j) PROVE Accounted(v, i)'
  BY <1>4, <1>a, <1>b DEF Bar, Unbar
<1>5. ASSUME NEW w \in Worker, Claim(w) \/ Reclaim(w) PROVE Accounted(v, i)'
  <2>1. PICK onEmpty \in {"empty", "publish"} : Look(w, onEmpty)
    BY <1>5 DEF Claim, Reclaim
  <2> QED  BY <1>5, <2>1, LookStep DEF Claim, Reclaim
<1>6. ASSUME NEW w \in Worker, Publish(w) \/ Refuse(w) \/ Work(w)
      PROVE  Accounted(v, i)'
  <2>1. v # w
    <3>1. CASE Publish(w) \/ Work(w)
      BY <1>6, <3>1 DEF Publish, Work, Waits, Set, TypeOK
    <3>2. CASE Refuse(w)
      BY <1>6, <3>2 DEF Refuse, SetIdle, Waits, Subscribed, Set, TypeOK
    <3> QED  BY <1>6, <3>1, <3>2
  <2>2. Waits(v)
    BY <1>6, <2>1 DEF Publish, Refuse, Work, SetIdle, Waits, Subscribed, Set, TypeOK
  <2> QED  BY <1>6, <1>a, <2>2 DEF Publish, Refuse, Work
<1>7. ASSUME NEW w \in Worker, Park(w) PROVE Accounted(v, i)'
  <2>1. Waits(v)
    BY <1>7 DEF Park, Waits, Subscribed, Set, TypeOK
  <2> QED  BY <1>7, <1>a, <2>1 DEF Park
<1>8. ASSUME NEW w \in Worker, Woken(w) \/ Poll(w) \/ Done(w) PROVE Accounted(v, i)'
  <2>1. v # w
    BY <1>8 DEF Woken, Poll, Done, Waits, Set, TypeOK
  <2>2. pc'[v] = pc[v] /\ unseen'[v] = unseen[v] /\ told'[v] = told[v] /\ UNCHANGED <<jobs, rows>>
    BY <1>8, <2>1 DEF Woken, Poll, Done, Set, TypeOK
  <2> QED  BY <1>a, <1>b, <2>2
<1>9. ASSUME NEW w \in Worker, Deliver(w) \/ ThreadEnds(w) \/ LoseInbox(w)
      PROVE  Accounted(v, i)'
  BY <1>9, <1>a, <1>b DEF Deliver, ThreadEnds, LoseInbox
<1>10. ASSUME NEW w \in Worker, Register(w) PROVE Accounted(v, i)'
  <2>1. v # w
    BY <1>10 DEF Register, Waits, Subscribed, Set, TypeOK
  <2>2. Waits(v)
    BY <1>10, <2>1 DEF Register, Waits, Subscribed, Set, TypeOK
  <2> QED  BY <1>10, <1>a, <2>2 DEF Register
<1>11. ASSUME NEW w \in Worker, Retire(w) PROVE Accounted(v, i)'
  <2>1. v # w
    BY <1>11 DEF Retire, Waits, Subscribed, Set, TypeOK
  <2>2. Waits(v)
    BY <1>11, <2>1 DEF Retire, Waits, Subscribed, Set, TypeOK
  <2> QED  BY <1>11, <1>a, <2>2 DEF Retire
<1>12. ASSUME NEW w \in Worker, Crash(w) \/ Deregister(w) PROVE Accounted(v, i)'
  <2>1. v # w
    BY <1>12 DEF Crash, Deregister, Gone, Waits, Set, TypeOK
  <2>2. Waits(v) /\ unseen'[v] = unseen[v] /\ told'[v] = told[v]
    BY <1>12, <2>1 DEF Crash, Deregister, Gone, Waits, Subscribed, Set, TypeOK
  <2> QED  BY <1>12, <1>a, <2>2 DEF Crash, Deregister
<1> QED
  BY <1>1, <1>2, <1>3, <1>4, <1>5, <1>6, <1>7, <1>8, <1>9, <1>10, <1>11, <1>12
  DEF Next, Run

\* The ordering argument of _set_idle() and 90_notify.sql: publish, then look.  The
\* jobs excused are those the look could not take, barred or still committing.
THEOREM PublishBeforeLook == Spec => []UnannouncedOnlyIfUnseen
<1>1. Init => GapKnown
  BY DEF Init, GapKnown, InFlight
<1>2. GapKnown => UnannouncedOnlyIfUnseen
  BY DEF GapKnown, UnannouncedOnlyIfUnseen, Waits, InFlight, Accounted, Claimable
<1> QED  BY <1>1, <1>2, GapStep, TypeCorrect, PTL DEF Spec

------------------------------------------------------------------------------
(* Demand is genuine.                                                      *)

\* A worker that is running a job, or that waits with too many threads left
\* behind to claim one, asks for none in memory; the threads it waits for only
\* stand in its way where it has seen them (JobSystem.run).
AsksInMemory ==
    \A w \in Worker :
        /\ full[w] => pc[w] \in {"top", "empty", "parked"}
        /\ pc[w] = "busy" \/ (full[w] /\ pc[w] \in {"empty", "parked"}) => ~_idle[w]

\* Nor does its row: no enqueue is told that somebody is waiting by a worker
\* that would not claim what it enqueues.
BusyAsksNothing ==
    \A w \in Worker :
        pc[w] = "busy" \/ (full[w] /\ pc[w] \in {"empty", "parked"}) => ~Subscribed(w)

\* The gate of jorb_notify() counts no worker that is busy or refuses to claim,
\* whenever its row appears, is retired or is late.
THEOREM DemandIsGenuine == Spec => []BusyAsksNothing
<1>1. Init => AsksInMemory
  BY DEF Init, AsksInMemory
<1>2. TypeOK /\ AsksInMemory /\ [Next]_vars => AsksInMemory'
  <2> SUFFICES ASSUME TypeOK, AsksInMemory, [Next]_vars PROVE AsksInMemory'
    OBVIOUS
  <2> USE DEF jobs, rows, process, history
  <2>1. CASE UNCHANGED <<pc, _idle, full>>
    BY <2>1 DEF AsksInMemory
  <2>2. ASSUME NEW w \in Worker, Claim(w) \/ Reclaim(w) PROVE AsksInMemory'
    <3>1. /\ ~full[w] /\ UNCHANGED <<_idle, full>>
          /\ pc' \in [Worker -> Phases] /\ pc'[w] # "busy"
          /\ \A v \in Worker \ {w} : pc'[v] = pc[v]
      BY <2>2 DEF Claim, Reclaim, Look, Set, TypeOK, AsksInMemory, Phases
    <3> QED  BY <3>1 DEF AsksInMemory
  <2>3. ASSUME NEW w \in Worker, Publish(w) \/ Refuse(w) \/ Work(w) PROVE AsksInMemory'
    BY <2>3 DEF Publish, Refuse, Work, SetIdle, Set, TypeOK, AsksInMemory
  <2>4. ASSUME NEW w \in Worker, Park(w) \/ Woken(w) \/ Poll(w) \/ Done(w)
        PROVE  AsksInMemory'
    BY <2>4 DEF Park, Woken, Poll, Done, Set, TypeOK, AsksInMemory
  <2>5. ASSUME NEW w \in Worker, ThreadEnds(w) \/ Register(w) PROVE AsksInMemory'
    BY <2>5 DEF ThreadEnds, Register, Set, TypeOK, AsksInMemory
  <2>6. ASSUME NEW w \in Worker, Crash(w) \/ Deregister(w) PROVE AsksInMemory'
    BY <2>6 DEF Crash, Deregister, Gone, Set, TypeOK, AsksInMemory
  <2>7. ASSUME NEW j \in Job, Gate(j) \/ Appear(j) \/ Bar(j) \/ Unbar(j)
        PROVE  AsksInMemory'
    BY <2>1, <2>7 DEF Gate, Appear, Bar, Unbar
  <2>8. ASSUME NEW w \in Worker, Deliver(w) \/ LoseInbox(w) \/ Retire(w)
        PROVE  AsksInMemory'
    BY <2>1, <2>8 DEF Deliver, LoseInbox, Retire
  <2> QED
    BY <2>1, <2>2, <2>3, <2>4, <2>5, <2>6, <2>7, <2>8 DEF Next, Run, vars
<1>3. FlagMatchesRow /\ AsksInMemory => BusyAsksNothing
  BY DEF FlagMatchesRow, AsksInMemory, BusyAsksNothing, Subscribed
<1> QED  BY <1>1, <1>2, <1>3, FlagAgrees, TypeCorrect, PTL DEF Spec
==============================================================================
